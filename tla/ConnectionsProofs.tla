--------------------------- MODULE ConnectionsProofs --------------------------
(***************************************************************************)
(* Connections and their messages, proved for any number of clients, any   *)
(* sizes of the areas and any messages that fit them.                      *)
(*                                                                         *)
(* Laid says where the objects, regions and capabilities of the i-th       *)
(* connection are: everything about it follows from i, since a connection  *)
(* gets the next bit of the bitmap and two new objects.  Told says how far *)
(* the message in the buffer of a connection is, for each place where its  *)
(* client can be.                                                          *)
(***************************************************************************)
EXTENDS Connections, DataLemmas, FiniteSetTheorems

(* The inductive invariant *)

NPages == Cardinality(Clients)
Places == {"start", "ready", "created", "filled", "served", "echoed", "back"}
Cap == [type : {"process", "vmspace", "thread", "pmo", "connection"}, id : Nat]
Registered == {c \in Clients : at[c].pc # "start"}

\* The objects and the regions of the i-th connection.
StackOf(i) == NPages + 2 * i - 1
BufOf(i) == NPages + 2 * i
StackRegion(i) == [start |-> StackBase + (i - 1) * StackSize, size |-> StackSize,
                   perm |-> VMR_RW, pmo |-> StackOf(i)]
BufRegion(i) == [start |-> ServerBuf + (i - 1) * ServerBufSize, size |-> BufSize,
                 perm |-> VMR_RW, pmo |-> BufOf(i)]
ClientRegion(i) == [start |-> ClientBuf, size |-> BufSize, perm |-> VMR_RW,
                    pmo |-> BufOf(i)]

\* Capability number cap of process p.
Names(kk, p, cap, type, id) ==
    cap \in Nat /\ cap + 1 \in 1..Len(kk.caps[p]) /\ kk.caps[p][cap + 1] = [type |-> type, id |-> id]

Typed(kk) ==
    /\ kk \in [pmos : Seq(Seq(Int)), caps : [Procs -> Seq(Cap)], maps : [Procs -> SUBSET
                  [start : Nat, size : Nat, perm : Nat, pmo : Nat]]]

ClientStates == [pc : Places, conn_cap : Int, page : {3}, calls : Nat,
                 send : Sends \cup {Nobody}, arg : Int, ret : Int]

TypeOK ==
    /\ Typed(k)
    /\ conns \in Seq([client : Clients, stack : Nat, buf : Nat, server_stack_top : Nat,
                      client_user_addr : Nat, server_user_addr : Nat, server_conn_cap : Nat])
    /\ at \in [Clients -> ClientStates]

\* A bit of the bitmap for each connection, and a connection for each client.
Bitmap ==
    /\ conns # <<>> => config # Nobody
    /\ config # Nobody => config = [max_client |-> MaxClient, conn_bmp |-> 0..(Len(conns) - 1)]
    /\ Len(conns) = Cardinality(Registered)
    /\ \A i \in 1..Len(conns) : conns[i].client \in Registered
    /\ \A i, j \in 1..Len(conns) : conns[i].client = conns[j].client => i = j

ObjectsLaid ==
    /\ Len(k.pmos) = NPages + 2 * Len(conns)
    /\ \A i \in 1..Len(conns) :
          /\ conns[i].stack = StackOf(i) /\ conns[i].buf = BufOf(i)
          /\ conns[i].server_stack_top = StackBase + (i - 1) * StackSize + StackSize
          /\ conns[i].client_user_addr = ClientBuf
          /\ conns[i].server_user_addr = ServerBuf + (i - 1) * ServerBufSize
          /\ Len(k.pmos[BufOf(i)]) = BufSize
RegionsLaid ==
    /\ k.maps[Server] = {StackRegion(i) : i \in 1..Len(conns)}
                        \cup {BufRegion(i) : i \in 1..Len(conns)}
    /\ \A c \in Clients :
          k.maps[c] = {ClientRegion(i) : i \in {j \in 1..Len(conns) : conns[j].client = c}}

Laid == ObjectsLaid /\ RegionsLaid

\* What a step may do but write into object b: nothing but add capabilities.
Grown(kk, w, b) ==
    /\ Typed(w) /\ w.maps = kk.maps /\ Len(w.pmos) = Len(kk.pmos)
    /\ \A d \in 1..Len(kk.pmos) : Len(w.pmos[d]) = Len(kk.pmos[d])
    /\ \A d \in 1..Len(kk.pmos) : d # b => w.pmos[d] = kk.pmos[d]
    /\ \A p \in Procs : Len(kk.caps[p]) <= Len(w.caps[p])
    /\ \A p \in Procs : \A j \in 1..Len(kk.caps[p]) : w.caps[p][j] = kk.caps[p][j]

Named ==
    /\ \A c \in Clients : Names(k, c, 3, "pmo", PageOf(c))
    /\ \A c \in Registered : \E i \in 1..Len(conns) :
          /\ conns[i].client = c
          /\ Names(k, c, at[c].conn_cap, "connection", i)
          /\ Names(k, Server, conns[i].server_conn_cap, "connection", i)

HeaderIs(B, send) ==
    /\ B[DataLen + 1] = Len(send.data) /\ B[CapSlotNumber + 1] = Len(send.caps)
    /\ B[DataOffset + 1] = Header /\ B[CapSlotsOffset + 1] = Header + Len(send.data)
DataIs(B, send) == \A j \in 1..Len(send.data) : B[Header + j] = send.data[j]
SlotsAre(B, send) ==
    \A j \in 1..Len(send.caps) :
        B[Header + Len(send.data) + j] = IF send.caps[j] = "page" THEN 3 ELSE -1
SlotsName(kk, B, send, id) ==
    \A j \in 1..Len(send.caps) :
        IF send.caps[j] = "page"
        THEN Names(kk, Server, B[Header + Len(send.data) + j], "pmo", id)
        ELSE B[Header + Len(send.data) + j] = ECAPBILITY

\* The message that the client of connection i makes.
Told(i) ==
    LET c == conns[i].client
        B == k.pmos[BufOf(i)]
        send == at[c].send
    IN  /\ at[c].pc \in {"created", "filled", "served", "back"} => send \in Sends
        /\ at[c].pc \in {"created", "filled", "served"} => HeaderIs(B, send)
        /\ at[c].pc \in {"filled", "served"} => DataIs(B, send)
        /\ at[c].pc = "filled" => SlotsAre(B, send)
        /\ at[c].pc = "served" =>
              /\ Len(send.caps) < MAX_CAP_TRANSFER /\ at[c].arg = conns[i].server_user_addr
              /\ B[ServerConnCap + 1] = conns[i].server_conn_cap
              /\ SlotsName(k, B, send, PageOf(c))
        /\ at[c].pc = "back" => at[c].ret = Answer(send)

Inv == /\ TypeOK /\ Bitmap /\ Laid /\ Named
       /\ \A i \in 1..Len(conns) : Told(i)
-----------------------------------------------------------------------------
(* What the operators of Objects do *)

\* WriteObject() changes the cells that it is told to.
Wrote(kk, w, b, off, cells) ==
    /\ Grown(kk, w, b) /\ w.caps = kk.caps
    /\ \A j \in 1..Len(kk.pmos[b]) :
          w.pmos[b][j] = IF j - off \in 1..Len(cells) THEN cells[j - off] ELSE kk.pmos[b][j]

\* A function on 1..n is a sequence.
LEMMA FunctionIsSeq ==
  ASSUME NEW S, NEW n \in Nat, NEW f \in [1..n -> S]
  PROVE  f \in Seq(S)
  BY SeqDef

\* WriteObject stores its cells at an offset of one object, and nothing else.
LEMMA Written ==
  ASSUME NEW kk, Typed(kk), NEW b \in 1..Len(kk.pmos), NEW off \in Nat, NEW cells \in Seq(Int)
  PROVE  Wrote(kk, WriteObject(kk, b, off, cells), b, off, cells)
<1> DEFINE old == kk.pmos[b]
           new == [i \in DOMAIN old |-> IF (i - off) \in DOMAIN cells THEN cells[i - off] ELSE old[i]]
           w == WriteObject(kk, b, off, cells)
<1>1. /\ kk.pmos \in Seq(Seq(Int)) /\ old \in Seq(Int) /\ DOMAIN old = 1..Len(old)
      /\ Len(old) \in Nat /\ DOMAIN cells = 1..Len(cells)
  BY DEF Typed
<1>2. new \in Seq(Int) /\ Len(new) = Len(old)
  <2>1. \A i \in 1..Len(old) : new[i] \in Int
    BY <1>1, ElementOfSeq
  <2>2. new = [i \in 1..Len(old) |-> new[i]]
    BY <1>1
  <2> HIDE DEF new
  <2>3. new \in [1..Len(old) -> Int]
    BY <2>1, <2>2
  <2>4. new \in Seq(Int)
    BY <1>1, <2>3, FunctionIsSeq
  <2> QED
    BY <1>1, <2>3, <2>4, LenProperties
<1>3. w = [kk EXCEPT !.pmos = [kk.pmos EXCEPT ![b] = new]]
  BY DEF WriteObject, Typed
<1>4. \A j \in 1..Len(old) : new[j] = IF j - off \in 1..Len(cells) THEN cells[j - off] ELSE old[j]
  BY <1>1
<1> HIDE DEF new
<1>5. /\ w.pmos = [kk.pmos EXCEPT ![b] = new] /\ w.caps = kk.caps /\ w.maps = kk.maps
      /\ w \in [pmos : Seq(Seq(Int)), caps : [Procs -> Seq(Cap)], maps : [Procs -> SUBSET
                  [start : Nat, size : Nat, perm : Nat, pmo : Nat]]]
  <2>1. [kk.pmos EXCEPT ![b] = new] \in Seq(Seq(Int))
    BY <1>1, <1>2
  <2> QED
    BY <1>3, <2>1 DEF Typed
<1> HIDE DEF w
<1>6. /\ Len(w.pmos) = Len(kk.pmos) /\ w.pmos[b] = new
      /\ \A d \in 1..Len(kk.pmos) : d # b => w.pmos[d] = kk.pmos[d]
  BY <1>1, <1>5
<1>7. Grown(kk, w, b)
  <2>1. \A p \in Procs : Len(kk.caps[p]) \in Nat
    BY DEF Typed
  <2> QED
    BY <1>2, <1>5, <1>6, <2>1 DEF Grown, Typed
<1> QED
  BY <1>4, <1>5, <1>6, <1>7 DEF w, Wrote

\* What is unchanged, and what has grown twice, has grown.
LEMMA GrownTwice ==
  ASSUME NEW kk, NEW w, NEW x, NEW b, Typed(kk), Grown(kk, w, b), Grown(w, x, b)
  PROVE  Grown(kk, x, b)
<1>1. \A p \in Procs : Len(kk.caps[p]) \in Nat /\ Len(w.caps[p]) \in Nat /\ Len(x.caps[p]) \in Nat
  BY DEF Typed, Grown
<1>2. \A p \in Procs : \A j \in 1..Len(kk.caps[p]) : j \in 1..Len(w.caps[p])
  BY <1>1 DEF Grown
<1> QED
  BY <1>1, <1>2 DEF Grown

\* A kernel that did not change has grown by nothing.
LEMMA GrownNot ==
  ASSUME NEW kk, NEW b, Typed(kk)
  PROVE  Grown(kk, kk, b)
<1>1. \A p \in Procs : Len(kk.caps[p]) \in Nat
  BY DEF Typed
<1> QED
  BY <1>1 DEF Grown

\* A capability keeps its number.
LEMMA NamesKept ==
  ASSUME NEW kk, NEW w, NEW b, Typed(kk), Grown(kk, w, b), NEW p \in Procs, NEW cap, NEW type, NEW id,
         Names(kk, p, cap, type, id)
  PROVE  Names(w, p, cap, type, id)
<1>1. Len(kk.caps[p]) \in Nat /\ Len(w.caps[p]) \in Nat /\ cap + 1 \in 1..Len(w.caps[p])
  BY DEF Typed, Grown, Names
<1> QED
  BY <1>1 DEF Grown, Names

\* cap_alloc() and cap_copy(), which allocate the next number.
NewCap(kk, x, p, type, id, b) ==
    /\ Grown(kk, x[1], b) /\ x[1].pmos = kk.pmos /\ x[2] \in Nat
    /\ x[2] = Len(kk.caps[p]) /\ Names(x[1], p, x[2], type, id)
    /\ \A q \in Procs : q # p => x[1].caps[q] = kk.caps[q]

\* WithCap adds a capability after those of a process, and returns its number.
LEMMA Allocated ==
  ASSUME NEW kk, Typed(kk), NEW p \in Procs, NEW type, NEW id, [type |-> type, id |-> id] \in Cap, NEW b
  PROVE  NewCap(kk, WithCap(kk, p, type, id), p, type, id, b)
<1> DEFINE new == [type |-> type, id |-> id]
           w == [kk EXCEPT !.caps[p] = Append(@, new)]
           n == Len(kk.caps[p])
<1>1. kk.caps \in [Procs -> Seq(Cap)] /\ kk.caps[p] \in Seq(Cap) /\ n \in Nat
  BY DEF Typed
<1>2. w = [kk EXCEPT !.caps = [kk.caps EXCEPT ![p] = Append(kk.caps[p], new)]]
  BY DEF Typed
<1>3. WithCap(kk, p, type, id) = <<w, n>>
  BY DEF WithCap
<1> HIDE DEF w
<1>4. /\ Append(kk.caps[p], new) \in Seq(Cap) /\ Len(Append(kk.caps[p], new)) = n + 1
      /\ Append(kk.caps[p], new)[n + 1] = new
      /\ \A j \in 1..n : Append(kk.caps[p], new)[j] = kk.caps[p][j]
  BY <1>1
<1> HIDE DEF new
<1>5. /\ w.pmos = kk.pmos /\ w.maps = kk.maps
      /\ w.caps = [kk.caps EXCEPT ![p] = Append(kk.caps[p], new)] /\ Typed(w)
  BY <1>1, <1>2, <1>4 DEF Typed
<1>6. /\ w.caps[p] = Append(kk.caps[p], new)
      /\ \A q \in Procs : q # p => w.caps[q] = kk.caps[q]
  BY <1>1, <1>5
<1>7. \A q \in Procs : Len(kk.caps[q]) \in Nat
  BY <1>1
<1>8. Grown(kk, w, b)
  BY <1>1, <1>4, <1>5, <1>6, <1>7 DEF Grown
<1>9. Names(w, p, n, type, id)
  BY <1>1, <1>4, <1>6 DEF Names, new
<1> QED
  BY <1>1, <1>3, <1>5, <1>6, <1>8, <1>9 DEF NewCap
-----------------------------------------------------------------------------
(* The areas *)

\* The sizes and addresses of the buffers and stacks, from the assumptions.
LEMMA Sizes ==
  /\ BufSize \in Nat \ {0} /\ ROUND_UP(BufSize) = BufSize /\ BufSize <= ServerBufSize
  /\ StackSize \in Nat \ {0} /\ ROUND_UP(StackSize) = StackSize /\ ServerBufSize \in Nat
  /\ {StackBase, ServerBuf, ClientBuf} \subseteq Nat /\ PageSize \in Nat \ {0}
<1>1. \A m, n \in Nat : Least({m, n}) \in {m, n} /\ Least({m, n}) <= m
  <2> TAKE m, n \in Nat
  <2>1. \E x \in {m, n} : \A y \in {m, n} : x <= y
    <3>1. CASE m <= n
      BY <3>1
    <3>2. CASE n <= m
      BY <3>2
    <3> QED
      BY <3>1, <3>2
  <2> QED
    BY <2>1 DEF Least
<1>2. BufSize \in {ServerBufSize, ClientBufSize} /\ BufSize <= ServerBufSize
  BY <1>1, AreasAssumption DEF BufSize
<1> QED
  BY <1>2, AreasAssumption

\* The strips of an area are one after the other.
LEMMA Strips ==
  ASSUME NEW S \in Nat, NEW i \in Nat, NEW j \in Nat, i < j
  PROVE  (i - 1) * S + S <= (j - 1) * S
<1>1. PICK d \in Nat : j = i + 1 + d
  <2>1. j - i - 1 \in Nat /\ j = i + 1 + (j - i - 1)
    OBVIOUS
  <2> QED
    BY <2>1
<1>2. (j - 1) * S = (i - 1) * S + S + d * S
  BY <1>1
<1>3. d * S \in Nat /\ (i - 1) * S \in Int
  OBVIOUS
<1> QED
  BY <1>2, <1>3

\* The bitmap of the server bounds the connections there can be.
LEMMA FewConnections ==
  ASSUME Bitmap
  PROVE  Len(conns) <= MaxClient /\ MaxClient \in Nat
<1>1. IsFiniteSet(Clients) /\ Registered \subseteq Clients
  BY ClientsAssumption DEF Registered
<1>2. Cardinality(Registered) <= Cardinality(Clients) /\ Cardinality(Registered) \in Nat
      /\ Cardinality(Clients) \in Nat
  BY <1>1, FS_Subset, FS_CardinalityType
<1> QED
  BY <1>2, ClientsAssumption DEF Bitmap

\* The stacks are apart, the buffers too, and no stack reaches a buffer.
LEMMA Apart ==
  ASSUME Bitmap, NEW n \in Nat, n <= MaxClient, NEW i \in 1..n, NEW j \in 1..n
  PROVE  /\ (i - 1) * StackSize \in Nat /\ (i - 1) * ServerBufSize \in Nat
         /\ i < j => (i - 1) * StackSize + StackSize <= (j - 1) * StackSize
         /\ i < j => (i - 1) * ServerBufSize + ServerBufSize <= (j - 1) * ServerBufSize
         /\ StackBase + (i - 1) * StackSize + StackSize <= ServerBuf
<1>1. (i - 1) * StackSize \in Nat /\ (i - 1) * ServerBufSize \in Nat
  BY Sizes
<1>2. i <= MaxClient /\ MaxClient \in Nat
  BY ClientsAssumption
<1>3. (i - 1) * StackSize + StackSize <= (MaxClient + 1 - 1) * StackSize
  BY <1>2, Sizes, Strips
<1>4. MaxClient + 1 - 1 = MaxClient /\ MaxClient * StackSize \in Nat
  BY <1>2, Sizes
<1>5. StackBase + MaxClient * StackSize <= ServerBuf
  BY AreasAssumption
<1>6. StackBase + (i - 1) * StackSize + StackSize <= ServerBuf
  BY <1>1, <1>3, <1>4, <1>5, Sizes
<1> QED
  BY <1>1, <1>6, Sizes, Strips

Within(vmr, addr) == vmr.start <= addr /\ addr < vmr.start + vmr.size

\* Process p has cell off of object b at an address.
CellAt(kk, p, addr, b, off) ==
    /\ Load(kk, p, addr) = kk.pmos[b][off + 1]
    /\ \A cells : Store(kk, p, addr, cells) = WriteObject(kk, b, off, cells)

\* What is read and written where one region is.
LEMMA OneRegion ==
  ASSUME NEW kk, NEW p, NEW addr, NEW r, RegionsAt(kk, p, addr) = {r},
         NEW off, addr - r.start = off
  PROVE  CellAt(kk, p, addr, r.pmo, off)
<1> DEFINE R == RegionsAt(kk, p, addr)
           v == CHOOSE x \in R : TRUE
<1>1. v = r
  <2> HIDE DEF R
  <2>1. R = {r}
    BY DEF R
  <2> QED
    BY <2>1
<1>2. R # {}
  OBVIOUS
<1>3. Load(kk, p, addr) = kk.pmos[v.pmo][addr - v.start + 1]
  BY <1>2 DEF Load
<1>4. \A cells : Store(kk, p, addr, cells) = WriteObject(kk, v.pmo, addr - v.start, cells)
  BY DEF Store
<1> HIDE DEF v
<1> QED
  BY <1>1, <1>3, <1>4 DEF CellAt

\* What is at an address of a client's buffer.
LEMMA ClientMemory ==
  ASSUME TypeOK, Bitmap, Laid, NEW i \in 1..Len(conns), NEW off \in 0..(BufSize - 1),
         NEW kk, kk.maps = k.maps
  PROVE  /\ RegionsAt(kk, conns[i].client, ClientBuf + off) = {ClientRegion(i)}
         /\ CellAt(kk, conns[i].client, ClientBuf + off, BufOf(i), off)
<1> DEFINE c == conns[i].client
<1>1. /\ c \in Clients /\ {j \in 1..Len(conns) : conns[j].client = c} = {i}
  BY DEF Bitmap, Registered
<1>2. kk.maps[c] = {ClientRegion(i)}
  <2>1. kk.maps[c] = {ClientRegion(x) : x \in {j \in 1..Len(conns) : conns[j].client = c}}
    BY <1>1 DEF Laid, ObjectsLaid, RegionsLaid
  <2> HIDE DEF c
  <2> QED
    BY <1>1, <2>1
<1>3. /\ ClientRegion(i).start = ClientBuf /\ ClientRegion(i).size = BufSize
      /\ ClientRegion(i).pmo = BufOf(i)
  BY DEF ClientRegion
<1>4. off \in Int /\ 0 <= off /\ off < BufSize /\ ClientBuf \in Nat /\ BufSize \in Nat
  BY Sizes
<1>5. RegionsAt(kk, c, ClientBuf + off) = {ClientRegion(i)}
  BY <1>2, <1>3, <1>4 DEF RegionsAt
<1> HIDE DEF c
<1> DEFINE addr == ClientBuf + off
<1>6. addr - ClientRegion(i).start = off
  BY <1>3, <1>4
<1>7. RegionsAt(kk, c, addr) = {ClientRegion(i)}
  BY <1>5
<1> HIDE DEF addr
<1>8. CellAt(kk, c, addr, ClientRegion(i).pmo, off)
  BY <1>6, <1>7, OneRegion
<1> QED
  BY <1>3, <1>5, <1>8 DEF addr, c

\* What is at an address of the server's buffer of a connection, and of its stack.
LEMMA ServerMemory ==
  ASSUME TypeOK, Bitmap, Laid, NEW i \in 1..Len(conns), NEW kk, kk.maps = k.maps
  PROVE  /\ \A off \in 0..(BufSize - 1) :
               /\ RegionsAt(kk, Server, conns[i].server_user_addr + off) = {BufRegion(i)}
               /\ CellAt(kk, Server, conns[i].server_user_addr + off, BufOf(i), off)
         /\ \A below \in 1..StackSize :
               RegionsAt(kk, Server, conns[i].server_stack_top - below) = {StackRegion(i)}
<1> DEFINE n == Len(conns)
           base == ServerBuf + (i - 1) * ServerBufSize
           top == StackBase + (i - 1) * StackSize + StackSize
<1>1. n \in Nat /\ n <= MaxClient
  BY FewConnections DEF TypeOK
<1>2. /\ conns[i].server_user_addr = base /\ conns[i].server_stack_top = top
      /\ kk.maps[Server] = {StackRegion(j) : j \in 1..n} \cup {BufRegion(j) : j \in 1..n}
  BY DEF Laid, ObjectsLaid, RegionsLaid
<1>3. \A j \in 1..n :
         /\ StackRegion(j).start = StackBase + (j - 1) * StackSize /\ StackRegion(j).size = StackSize
         /\ BufRegion(j).start = ServerBuf + (j - 1) * ServerBufSize /\ BufRegion(j).size = BufSize
         /\ BufRegion(j).pmo = BufOf(j)
  BY DEF StackRegion, BufRegion
<1>4. ASSUME NEW j \in 1..n, NEW off \in 0..(BufSize - 1), NEW addr, addr = base + off
      PROVE  /\ ~Within(StackRegion(j), addr)
             /\ Within(BufRegion(j), addr) <=> j = i
             /\ addr - BufRegion(i).start = off
  <2>1. /\ (i - 1) * ServerBufSize \in Nat /\ (j - 1) * ServerBufSize \in Nat
        /\ (j - 1) * StackSize \in Nat
        /\ i < j => (i - 1) * ServerBufSize + ServerBufSize <= (j - 1) * ServerBufSize
        /\ j < i => (j - 1) * ServerBufSize + ServerBufSize <= (i - 1) * ServerBufSize
        /\ StackBase + (j - 1) * StackSize + StackSize <= ServerBuf
    BY <1>1, Apart
  <2> DEFINE x == (i - 1) * ServerBufSize
             y == (j - 1) * ServerBufSize
             z == (j - 1) * StackSize
  <2>2. /\ base = ServerBuf + x
        /\ StackRegion(j).start = StackBase + z /\ StackRegion(j).size = StackSize
        /\ BufRegion(j).start = ServerBuf + y /\ BufRegion(j).size = BufSize
        /\ BufRegion(i).start = ServerBuf + x
    BY <1>3
  <2>3. i = j => x = y
    OBVIOUS
  <2>4. i \in Nat /\ j \in Nat /\ off \in Int /\ 0 <= off /\ off < BufSize
    BY <1>1, Sizes
  <2>5. /\ x \in Nat /\ y \in Nat /\ z \in Nat
        /\ i < j => x + ServerBufSize <= y
        /\ j < i => y + ServerBufSize <= x
        /\ StackBase + z + StackSize <= ServerBuf
    BY <2>1
  <2>6. StackBase \in Nat /\ ServerBuf \in Nat
    BY Sizes
  <2> HIDE DEF x, y, z, base, n
  <2> QED
    BY <1>4, <2>2, <2>3, <2>4, <2>5, <2>6, Sizes DEF Within
<1>5. ASSUME NEW j \in 1..n, NEW below \in 1..StackSize
      PROVE  /\ ~Within(BufRegion(j), top - below)
             /\ Within(StackRegion(j), top - below) <=> j = i
  <2>1. /\ (i - 1) * StackSize \in Nat /\ (j - 1) * StackSize \in Nat
        /\ (j - 1) * ServerBufSize \in Nat
        /\ i < j => (i - 1) * StackSize + StackSize <= (j - 1) * StackSize
        /\ j < i => (j - 1) * StackSize + StackSize <= (i - 1) * StackSize
        /\ StackBase + (i - 1) * StackSize + StackSize <= ServerBuf
    BY <1>1, Apart
  <2> DEFINE x == (i - 1) * StackSize
             y == (j - 1) * StackSize
             z == (j - 1) * ServerBufSize
  <2>2. /\ top = StackBase + x + StackSize
        /\ StackRegion(j).start = StackBase + y /\ StackRegion(j).size = StackSize
        /\ BufRegion(j).start = ServerBuf + z /\ BufRegion(j).size = BufSize
    BY <1>3
  <2>3. i = j => x = y
    OBVIOUS
  <2>4. i \in Nat /\ j \in Nat /\ below \in Int /\ 1 <= below /\ below <= StackSize
    BY <1>1, Sizes
  <2>5. /\ x \in Nat /\ y \in Nat /\ z \in Nat
        /\ i < j => x + StackSize <= y
        /\ j < i => y + StackSize <= x
        /\ StackBase + x + StackSize <= ServerBuf
    BY <2>1
  <2>6. StackBase \in Nat /\ ServerBuf \in Nat
    BY Sizes
  <2> HIDE DEF x, y, z, top, n
  <2> QED
    BY <2>2, <2>3, <2>4, <2>5, <2>6, Sizes DEF Within
<1>0. i \in 1..n
  OBVIOUS
<1>6. \A addr, vmr : vmr \in RegionsAt(kk, Server, addr)
                         <=> vmr \in kk.maps[Server] /\ Within(vmr, addr)
  BY DEF RegionsAt, Within
<1>9. \A vmr : vmr \in kk.maps[Server] <=> \E j \in 1..n : vmr \in {StackRegion(j), BufRegion(j)}
  BY <1>2
<1>7. ASSUME NEW off \in 0..(BufSize - 1)
      PROVE  /\ RegionsAt(kk, Server, base + off) = {BufRegion(i)}
             /\ CellAt(kk, Server, base + off, BufOf(i), off)
  <2> DEFINE addr == base + off
  <2> HIDE DEF base, n
  <2>0. ASSUME NEW j \in 1..n
        PROVE  /\ ~Within(StackRegion(j), addr) /\ (Within(BufRegion(j), addr) <=> j = i)
               /\ addr - BufRegion(i).start = off
    <3>1. addr = base + off
      OBVIOUS
    <3> HIDE DEF addr
    <3> QED
      BY <1>4, <3>1
  <2>1. /\ \A j \in 1..n : ~Within(StackRegion(j), addr)
        /\ \A j \in 1..n : Within(BufRegion(j), addr) <=> j = i
        /\ addr - BufRegion(i).start = off
    <3> HIDE DEF addr
    <3> QED
      BY <1>0, <2>0
  <2> HIDE DEF addr
  <2>2. RegionsAt(kk, Server, addr) = {BufRegion(i)}
    <3> SUFFICES ASSUME NEW vmr
                 PROVE  vmr \in RegionsAt(kk, Server, addr) <=> vmr = BufRegion(i)
      OBVIOUS
    <3> QED
      BY <1>0, <1>6, <1>9, <2>1
  <2>3. CellAt(kk, Server, addr, BufRegion(i).pmo, off)
    BY <2>1, <2>2, OneRegion
  <2> QED
    BY <1>0, <1>3, <2>2, <2>3 DEF addr
<1>8. ASSUME NEW below \in 1..StackSize
      PROVE  RegionsAt(kk, Server, top - below) = {StackRegion(i)}
  <2> DEFINE addr == top - below
  <2>1. /\ \A j \in 1..n : ~Within(BufRegion(j), addr)
        /\ \A j \in 1..n : Within(StackRegion(j), addr) <=> j = i
    BY <1>5
  <2> HIDE DEF top, n, addr
  <2> SUFFICES ASSUME NEW vmr
               PROVE  vmr \in RegionsAt(kk, Server, addr) <=> vmr = StackRegion(i)
    BY DEF addr
  <2> QED
    BY <1>0, <1>6, <1>9, <2>1
<1> QED
  BY <1>2, <1>7, <1>8
-----------------------------------------------------------------------------
(* Loops *)

\* The loop of the server's handler, over data that is given as a function.
Totals(f, N, a) == f = [n \in 0..N |-> IF n = 0 THEN 0 ELSE f[n - 1] + a[n]]

\* The partial sums of finitely many integers exist, and are integers.
LEMMA TotalsExist ==
  ASSUME NEW N \in Nat, NEW a, \A n \in 1..N : a[n] \in Int
  PROVE  \E f : Totals(f, N, a) /\ \A n \in 0..N : f[n] \in Int
<1> DEFINE E == [n \in 0..N |-> Int]
           G == [n \in 1..N |-> [x \in Int |-> x + a[n]]]
<1>1. 0 \in E[0] /\ \A n \in 1..N : \A x \in E[n - 1] : G[n][x] \in E[n]
  <2>1. ASSUME NEW n \in 1..N, NEW x \in E[n - 1] PROVE G[n][x] \in E[n]
    <3>1. n - 1 \in 0..N /\ n \in 0..N
      OBVIOUS
    <3>2. x \in Int
      BY <2>1, <3>1
    <3>3. x + a[n] \in Int
      BY <3>2
    <3> QED
      BY <3>1, <3>2, <3>3
  <2> QED
    BY <2>1
<1>2. PICK f : Recursive(f, N, 0, G) /\ \A n \in 0..N : f[n] \in E[n]
  <2> HIDE DEF E, G
  <2> QED
    BY <1>1, RecursionIs
<1>3. \A n \in 0..N : f[n] \in Int
  BY <1>2
<1>4. \A n \in 0..N : n # 0 => G[n][f[n - 1]] = f[n - 1] + a[n]
  <2> SUFFICES ASSUME NEW n \in 0..N, n # 0 PROVE G[n][f[n - 1]] = f[n - 1] + a[n]
    OBVIOUS
  <2>1. n \in 1..N /\ n - 1 \in 0..N
    OBVIOUS
  <2>2. f[n - 1] \in Int
    BY <1>3, <2>1
  <2> QED
    BY <2>1, <2>2
<1>5. Totals(f, N, a)
  <2> HIDE DEF G
  <2> QED
    BY <1>2, <1>4 DEF Recursive, Totals
<1> QED
  BY <1>3, <1>5

\* Two loops over the same data come to the same.
LEMMA TotalsAgree ==
  ASSUME NEW N \in Nat, NEW a, NEW b, NEW f, NEW g, Totals(f, N, a), Totals(g, N, b),
         \A n \in 1..N : a[n] = b[n]
  PROVE  f[N] = g[N]
<1> DEFINE Same == {n \in 0..N : f[n] = g[n]}
<1>1. \A n \in 0..N : f[n] = IF n = 0 THEN 0 ELSE f[n - 1] + a[n]
  BY Zenon DEF Totals
<1>2. \A n \in 0..N : g[n] = IF n = 0 THEN 0 ELSE g[n - 1] + b[n]
  BY Zenon DEF Totals
<1>3. 0 \in Same
  BY <1>1, <1>2
<1>4. ASSUME NEW n \in 1..N, n - 1 \in Same PROVE n \in Same
  <2>1. n \in 0..N /\ n # 0
    OBVIOUS
  <2>2. f[n - 1] = g[n - 1] /\ a[n] = b[n]
    BY <1>4
  <2>3. f[n] = f[n - 1] + a[n] /\ g[n] = g[n - 1] + b[n]
    BY <1>1, <1>2, <2>1
  <2> QED
    BY <2>1, <2>2, <2>3
<1> HIDE DEF Same
<1>5. 0..N \subseteq Same
  BY <1>3, <1>4, UpTo
<1>6. N \in Same
  BY <1>5
<1> QED
  BY <1>6 DEF Same

\* What cap_copy() of the first n of caps from c to the server has come to.
Sent(kk, c, caps, b, n, x) ==
    /\ Grown(kk, x[1], b) /\ x[1].pmos = kk.pmos /\ x[1].caps[c] = kk.caps[c]
    /\ x[2] \in Seq(Int) /\ Len(x[2]) = n
    /\ \A j \in 1..n :
          IF caps[j] + 1 \in 1..Len(kk.caps[c])
          THEN Names(x[1], Server, x[2][j], kk.caps[c][caps[j] + 1].type,
                     kk.caps[c][caps[j] + 1].id)
          ELSE x[2][j] = ECAPBILITY

\* One more copy.
LEMMA SentOneMore ==
  ASSUME NEW kk, Typed(kk), NEW c \in Clients, NEW caps \in Seq(Int), NEW b,
         NEW n \in 1..Len(caps), NEW x, Sent(kk, c, caps, b, n - 1, x),
         NEW copy, copy = CapCopy(x[1], c, Server, caps[n])
  PROVE  Sent(kk, c, caps, b, n, <<copy[1], Append(x[2], copy[2])>>)
<1> DEFINE w == x[1]
           s == x[2]
           more == Append(s, copy[2])
           Fact(v, t, j) ==
              IF caps[j] + 1 \in 1..Len(kk.caps[c])
              THEN Names(v, Server, t, kk.caps[c][caps[j] + 1].type, kk.caps[c][caps[j] + 1].id)
              ELSE t = ECAPBILITY
<1>1. /\ Grown(kk, w, b) /\ w.pmos = kk.pmos /\ w.caps[c] = kk.caps[c] /\ Typed(w)
      /\ s \in Seq(Int) /\ Len(s) = n - 1
      /\ \A j \in 1..(n - 1) : Fact(w, s[j], j)
  BY DEF Sent, Grown
<1>2. /\ c \in Procs /\ Server \in Procs /\ c # Server
      /\ caps[n] \in Int /\ n \in Nat /\ n - 1 \in Nat
      /\ kk.caps[c] \in Seq(Cap) /\ DOMAIN w.caps[c] = 1..Len(kk.caps[c])
  BY <1>1, ClientsAssumption, ElementOfSeq DEF Procs, Server, Typed
<1>3. /\ Grown(w, copy[1], b) /\ copy[1].pmos = w.pmos /\ copy[1].caps[c] = w.caps[c]
      /\ copy[2] \in Int /\ Fact(copy[1], copy[2], n)
  <2>1. CASE caps[n] + 1 \notin 1..Len(kk.caps[c])
    <3>1. copy = <<w, ECAPBILITY>>
      BY <1>2, <2>1 DEF CapCopy
    <3>2. ECAPBILITY \in Int
      BY DEF ECAPBILITY
    <3> QED
      BY <1>1, <2>1, <3>1, <3>2, GrownNot
  <2>2. CASE caps[n] + 1 \in 1..Len(kk.caps[c])
    <3> DEFINE type == kk.caps[c][caps[n] + 1].type
               id == kk.caps[c][caps[n] + 1].id
    <3>1. kk.caps[c][caps[n] + 1] \in Cap
      BY <1>2, <2>2, ElementOfSeq
    <3>2. [type |-> type, id |-> id] \in Cap
      BY <3>1 DEF Cap
    <3>3. copy = WithCap(w, Server, type, id)
      BY <1>1, <1>2, <2>2 DEF CapCopy
    <3> HIDE DEF type, id
    <3>4. /\ Grown(w, copy[1], b) /\ copy[1].pmos = w.pmos /\ copy[2] \in Nat
          /\ Names(copy[1], Server, copy[2], type, id)
          /\ \A q \in Procs : q # Server => copy[1].caps[q] = w.caps[q]
      <4>1. NewCap(w, WithCap(w, Server, type, id), Server, type, id, b)
        BY <1>1, <1>2, <3>2, Allocated
      <4> QED
        BY <3>3, <4>1 DEF NewCap
    <3> QED
      BY <1>2, <2>2, <3>4 DEF type, id
  <2> QED
    BY <2>1, <2>2
<1>4. /\ more \in Seq(Int) /\ Len(more) = n /\ more[n] = copy[2]
      /\ \A j \in 1..(n - 1) : more[j] = s[j]
  BY <1>1, <1>2, <1>3
<1>5. ASSUME NEW j \in 1..(n - 1) PROVE Fact(copy[1], s[j], j)
  <2>1. CASE caps[j] + 1 \in 1..Len(kk.caps[c])
    <3>1. Names(w, Server, s[j], kk.caps[c][caps[j] + 1].type, kk.caps[c][caps[j] + 1].id)
      BY <1>1, <1>5, <2>1
    <3>2. Names(copy[1], Server, s[j], kk.caps[c][caps[j] + 1].type, kk.caps[c][caps[j] + 1].id)
      BY <1>1, <1>2, <1>3, <3>1, NamesKept
    <3> QED
      BY <2>1, <3>2
  <2>2. CASE caps[j] + 1 \notin 1..Len(kk.caps[c])
    BY <1>1, <1>5, <2>2
  <2> QED
    BY <2>1, <2>2
<1>6. Grown(kk, copy[1], b)
  BY <1>1, <1>3, GrownTwice
<1> HIDE DEF Fact, more
<1>7. \A j \in 1..n : Fact(copy[1], more[j], j)
  <2> SUFFICES ASSUME NEW j \in 1..n PROVE Fact(copy[1], more[j], j)
    OBVIOUS
  <2>1. CASE j = n
    BY <1>3, <1>4, <2>1
  <2>2. CASE j # n
    <3>1. j \in 1..(n - 1)
      BY <1>2, <2>2
    <3> QED
      BY <1>4, <1>5, <3>1
  <2> QED
    BY <2>1, <2>2
<1>8. copy[1].pmos = kk.pmos /\ copy[1].caps[c] = kk.caps[c]
  BY <1>1, <1>3
<1> QED
  BY <1>4, <1>6, <1>7, <1>8, SMTT(30) DEF Sent, Fact
\* ipc_send_cap() copies every slot that names something, and puts an error for the rest.
LEMMA Transferred ==
  ASSUME NEW kk, Typed(kk), NEW c \in Clients, NEW caps \in Seq(Int), NEW b
  PROVE  Sent(kk, c, caps, b, Len(caps), TransferCapsTo(kk, c, Server, caps))
<1> DEFINE N == Len(caps)
           KK == [pmos : Seq(Seq(Int)), caps : [Procs -> Seq(Cap)], maps : [Procs -> SUBSET
                    [start : Nat, size : Nat, perm : Nat, pmo : Nat]]]
           E == [n \in 0..N |-> {x \in KK \X Seq(Int) : Sent(kk, c, caps, b, n, x)}]
           Step(n, x) == LET copy == CapCopy(x[1], c, Server, caps[n])
                         IN  <<copy[1], Append(x[2], copy[2])>>
           G == [n \in 1..N |-> [x \in E[n - 1] |-> Step(n, x)]]
           base == <<kk, <<>>>>
<1>1. N \in Nat /\ c \in Procs
  BY DEF Procs
<1>2. ASSUME NEW n \in 0..N, NEW x PROVE x \in E[n] <=> x \in KK \X Seq(Int) /\ Sent(kk, c, caps, b, n, x)
  OBVIOUS
<1>3. base \in E[0]
  <2>1. base \in KK \X Seq(Int) /\ 0 \in 0..N
    <3>1. kk \in KK
      BY DEF Typed
    <3> DEFINE none == <<>>
    <3>2. none \in Seq(Int) /\ base = <<kk, none>>
      OBVIOUS
    <3>3. 0 \in 0..N
      BY <1>1
    <3> HIDE DEF KK, none, base
    <3> QED
      BY <3>1, <3>2, <3>3
  <2>2. Sent(kk, c, caps, b, 0, base)
    BY GrownNot DEF Sent
  <2> HIDE DEF E, base, KK
  <2> QED
    BY <1>2, <2>1, <2>2
<1>4. ASSUME NEW n \in 1..N, NEW x \in E[n - 1]
      PROVE  Step(n, x) \in E[n] /\ G[n][x] = Step(n, x)
  <2>1. n \in 0..N /\ n - 1 \in 0..N
    BY <1>1
  <2>2. G[n][x] = Step(n, x)
    <3> HIDE DEF E, Step
    <3> QED
      BY <1>4
  <2>3. Sent(kk, c, caps, b, n - 1, x)
    BY <1>4, <2>1
  <2>4. Sent(kk, c, caps, b, n, Step(n, x))
    BY <2>3, SentOneMore
  <2>5. Step(n, x) \in KK \X Seq(Int)
    <3> DEFINE copy == CapCopy(x[1], c, Server, caps[n])
               s == Append(x[2], copy[2])
    <3>1. Step(n, x) = <<copy[1], s>>
      OBVIOUS
    <3> HIDE DEF Step, copy, s
    <3>2. copy[1] \in KK /\ s \in Seq(Int)
      BY <2>4, <3>1 DEF Sent, Grown, Typed
    <3> QED
      BY <3>1, <3>2
  <2> HIDE DEF E, Step, KK, G
  <2> QED
    BY <1>2, <2>1, <2>2, <2>4, <2>5
<1>5. PICK f : Recursive(f, N, base, G) /\ \A n \in 0..N : f[n] \in E[n]
  <2> HIDE DEF E, G, base, Step, N
  <2>1. \A n \in 1..N : \A x \in E[n - 1] : G[n][x] \in E[n]
    <3> SUFFICES ASSUME NEW n \in 1..N, NEW x \in E[n - 1] PROVE G[n][x] \in E[n]
      OBVIOUS
    <3> QED
      BY <1>4
  <2> QED
    BY <1>1, <1>3, <2>1, RecursionIs
<1>6. \A n \in 0..N : n # 0 => G[n][f[n - 1]] = Step(n, f[n - 1])
  <2> SUFFICES ASSUME NEW n \in 0..N, n # 0 PROVE G[n][f[n - 1]] = Step(n, f[n - 1])
    OBVIOUS
  <2>1. n \in 1..N /\ n - 1 \in 0..N
    BY <1>1
  <2>2. f[n - 1] \in E[n - 1]
    BY <1>5, <2>1
  <2> HIDE DEF E, G, Step
  <2> QED
    BY <1>4, <2>1, <2>2
<1> DEFINE Body(g, n) == IF n = 0 THEN base ELSE Step(n, g[n - 1])
           after == CHOOSE g : g = [n \in 0..N |-> Body(g, n)]
<1>7. f = [n \in 0..N |-> Body(f, n)]
  <2> HIDE DEF G, E, Step, base
  <2> QED
    BY <1>5, <1>6 DEF Recursive
<1>8. after = [n \in 0..N |-> Body(after, n)]
  <2> HIDE DEF Body
  <2> QED
    BY <1>7
<1>9. TransferCapsTo(kk, c, Server, caps) = after[N]
  BY Zenon DEF TransferCapsTo
<1> HIDE DEF after
<1>10. \A n \in 0..N : after[n] = Body(after, n)
  <2> HIDE DEF Body
  <2> QED
    BY <1>8
<1> DEFINE Good == {n \in 0..N : after[n] \in E[n]}
<1>11. 0 \in Good
  <2>1. 0 \in 0..N /\ after[0] = base
    <3> HIDE DEF base, Step
    <3> QED
      BY <1>1, <1>10
  <2> HIDE DEF E, base
  <2> QED
    BY <1>3, <2>1
<1>12. ASSUME NEW n \in 1..N, n - 1 \in Good PROVE n \in Good
  <2>1. n \in 0..N /\ n # 0
    BY <1>1
  <2>2. after[n] = Step(n, after[n - 1]) /\ after[n - 1] \in E[n - 1]
    <3> HIDE DEF Step, E
    <3> QED
      BY <1>10, <1>12, <2>1
  <2> HIDE DEF Step, E
  <2> QED
    BY <1>4, <2>1, <2>2
<1> HIDE DEF Good
<1>13. 0..N \subseteq Good
  BY <1>1, <1>11, <1>12, UpTo
<1>14. N \in Good
  BY <1>1, <1>13
<1> QED
  BY <1>9, <1>14 DEF Good
-----------------------------------------------------------------------------
(* Steps over a connection *)

\* A client that has registered has a connection.
LEMMA Connected ==
  ASSUME Inv, NEW c \in Clients, at[c].pc # "start"
  PROVE  \E i \in 1..Len(conns) : /\ conns[i].client = c
                                  /\ Names(k, c, at[c].conn_cap, "connection", i)
                                  /\ Names(k, Server, conns[i].server_conn_cap, "connection", i)
  BY DEF Inv, Named, Registered

\* What a client puts into its buffer, from cell off on.
Filled(kk, w, i, off, cells) ==
    /\ Grown(kk, w, BufOf(i)) /\ w.caps = kk.caps
    /\ \A j \in 1..BufSize :
          w.pmos[BufOf(i)][j] = IF j - off \in 1..Len(cells) THEN cells[j - off]
                                ELSE kk.pmos[BufOf(i)][j]

\* A store through the mapping of a client reaches its buffer, and nothing else.
LEMMA Put ==
  ASSUME Inv, NEW i \in 1..Len(conns), NEW kk, Grown(k, kk, BufOf(i)),
         NEW off \in Nat, NEW cells \in Seq(Int), off + Len(cells) <= BufSize
  PROVE  Filled(kk, Store(kk, conns[i].client, ClientBuf + off, cells), i, off, cells)
<1> DEFINE b == BufOf(i)
           w == Store(kk, conns[i].client, ClientBuf + off, cells)
<1>1. /\ TypeOK /\ Bitmap /\ Laid /\ kk.maps = k.maps /\ Typed(kk) /\ BufSize \in Nat
      /\ Len(cells) \in Nat
  BY Sizes DEF Inv, Grown
<1>2. b \in 1..Len(kk.pmos) /\ Len(kk.pmos[b]) = BufSize
  <2>1. /\ Len(kk.pmos) = Len(k.pmos) /\ Len(k.pmos) = NPages + 2 * Len(conns)
        /\ Len(k.pmos[b]) = BufSize
        /\ \A d \in 1..Len(k.pmos) : Len(kk.pmos[d]) = Len(k.pmos[d])
    BY <1>1 DEF Laid, ObjectsLaid, RegionsLaid, Grown
  <2>2. NPages \in Nat /\ Len(conns) \in Nat
    BY <1>1, ClientsAssumption, FS_CardinalityType DEF NPages, TypeOK
  <2>3. b \in 1..Len(k.pmos)
    BY <2>1, <2>2 DEF BufOf
  <2> QED
    BY <2>1, <2>3
<1>3. CASE Len(cells) > 0
  <2>1. off \in 0..(BufSize - 1)
    BY <1>1, <1>3
  <2>2. CellAt(kk, conns[i].client, ClientBuf + off, b, off)
    BY <1>1, <2>1, ClientMemory
  <2>3. w = WriteObject(kk, b, off, cells)
    BY <2>2 DEF CellAt
  <2>4. Wrote(kk, WriteObject(kk, b, off, cells), b, off, cells)
    BY <1>1, <1>2, Written
  <2>5. Wrote(kk, w, b, off, cells)
    BY <2>3, <2>4
  <2> HIDE DEF w
  <2>6. Filled(kk, w, i, off, cells)
    BY <1>2, <2>5 DEF Wrote, Filled
  <2> QED
    BY <2>6 DEF w
<1>4. CASE Len(cells) = 0
  <2>1. PICK o, x : w = WriteObject(kk, o, x, cells)
    BY DEF Store
  <2>2. DOMAIN cells = {}
    BY <1>4
  <2>3. \A d \in DOMAIN kk.pmos : kk.pmos[d] = [y \in DOMAIN kk.pmos[d] |-> kk.pmos[d][y]]
    <3>1. \A d \in DOMAIN kk.pmos : kk.pmos[d] \in Seq(Int)
      BY <1>1, ElementOfSeq DEF Typed
    <3> QED
      BY <3>1
  <2>4. w = [kk EXCEPT !.pmos = [kk.pmos EXCEPT ![o] =
                [y \in DOMAIN kk.pmos[o] |-> IF (y - x) \in DOMAIN cells THEN cells[y - x]
                                             ELSE kk.pmos[o][y]]]]
    BY <1>1, <2>1 DEF WriteObject, Typed
  <2>5. [kk.pmos EXCEPT ![o] =
                [y \in DOMAIN kk.pmos[o] |-> IF (y - x) \in DOMAIN cells THEN cells[y - x]
                                             ELSE kk.pmos[o][y]]] = kk.pmos
    <3>1. [y \in DOMAIN kk.pmos[o] |-> IF (y - x) \in DOMAIN cells THEN cells[y - x]
                                             ELSE kk.pmos[o][y]] = [y \in DOMAIN kk.pmos[o] |-> kk.pmos[o][y]]
      BY <2>2
    <3>2. kk.pmos = [d \in DOMAIN kk.pmos |-> kk.pmos[d]]
      BY <1>1 DEF Typed
    <3>3. CASE o \in DOMAIN kk.pmos
      BY <2>3, <3>1, <3>2, <3>3
    <3>4. CASE o \notin DOMAIN kk.pmos
      BY <3>2, <3>4
    <3> QED
      BY <3>3, <3>4
  <2>6. w = kk
    BY <1>1, <2>4, <2>5 DEF Typed
  <2> HIDE DEF w
  <2>7. Grown(kk, w, b) /\ w.caps = kk.caps /\ w.pmos = kk.pmos
    BY <1>1, <2>6, GrownNot
  <2>8. \A j \in 1..BufSize : j - off \notin 1..Len(cells)
    BY <1>4
  <2> QED
    BY <2>7, <2>8 DEF Filled, w
<1> QED
  BY <1>1, <1>3, <1>4

\* A message that nobody touches.
LEMMA ToldKept ==
  ASSUME Inv, NEW j \in 1..Len(conns), conns'[j] = conns[j],
         at'[conns[j].client] = at[conns[j].client], k'.pmos[BufOf(j)] = k.pmos[BufOf(j)],
         \A cap, type, id : Names(k, Server, cap, type, id) => Names(k', Server, cap, type, id)
  PROVE  Told(j)'
<1> DEFINE d == conns[j].client
           B == k.pmos[BufOf(j)]
           send == at[d].send
<1>1. SlotsName(k, B, send, PageOf(d)) => SlotsName(k', B, send, PageOf(d))
  <2> SUFFICES ASSUME SlotsName(k, B, send, PageOf(d)), NEW s \in 1..Len(send.caps),
                      send.caps[s] = "page"
               PROVE  Names(k', Server, B[Header + Len(send.data) + s], "pmo", PageOf(d))
    BY DEF SlotsName
  <2> HIDE DEF B, send
  <2>1. Names(k, Server, B[Header + Len(send.data) + s], "pmo", PageOf(d))
    BY DEF SlotsName
  <2> QED
    BY <2>1
<1>2. Told(j)
  BY DEF Inv
<1>3. conns'[j].client = d /\ at'[d] = at[d] /\ k'.pmos[BufOf(j)] = B
  OBVIOUS
<1> HIDE DEF d, B, send
<1>4. /\ at[d].pc \in {"created", "filled", "served", "back"} => send \in Sends
      /\ at[d].pc \in {"created", "filled", "served"} => HeaderIs(B, send)
      /\ at[d].pc \in {"filled", "served"} => DataIs(B, send)
      /\ at[d].pc = "filled" => SlotsAre(B, send)
      /\ at[d].pc = "served" =>
            /\ Len(send.caps) < MAX_CAP_TRANSFER /\ at[d].arg = conns[j].server_user_addr
            /\ B[ServerConnCap + 1] = conns[j].server_conn_cap
            /\ SlotsName(k, B, send, PageOf(d))
      /\ at[d].pc = "back" => at[d].ret = Answer(send)
  BY <1>2 DEF Told, d, B, send
<1> QED
  BY <1>1, <1>3, <1>4 DEF Told, d, B, send

\* A step of the client of connection i or of the server for it: what is not about its
\* message stays as it is.
LEMMA Steady ==
  ASSUME Inv, NEW i \in 1..Len(conns), UNCHANGED <<config, conns>>, Grown(k, k', BufOf(i)),
         TypeOK', \A d \in Clients : d # conns[i].client => at'[d] = at[d],
         at'[conns[i].client].pc # "start",
         at'[conns[i].client].conn_cap = at[conns[i].client].conn_cap,
         Told(i)'
  PROVE  Inv'
<1> DEFINE c == conns[i].client
<1>1. /\ TypeOK /\ Bitmap /\ Laid /\ Named /\ Typed(k)
      /\ c \in Clients /\ at[c].pc # "start"
      /\ \A j \in 1..Len(conns) : conns[j].client \in Clients
  BY DEF Inv, TypeOK, Bitmap, Registered
<1>2. Registered' = Registered
  BY <1>1 DEF Registered
<1>3. Bitmap'
  BY <1>1, <1>2 DEF Bitmap
<1>4. \A j \in 1..Len(conns) : BufOf(j) \in 1..Len(k.pmos)
  <2>1. /\ NPages \in Nat /\ Len(conns) \in Nat /\ Len(k.pmos) = NPages + 2 * Len(conns)
    BY <1>1, ClientsAssumption, FS_CardinalityType DEF NPages, TypeOK, Laid, ObjectsLaid
  <2> QED
    BY <2>1 DEF BufOf
<1>5. Laid'
  <2>1. /\ Len(k'.pmos) = Len(k.pmos) /\ k'.maps = k.maps
        /\ \A j \in 1..Len(conns) : Len(k'.pmos[BufOf(j)]) = Len(k.pmos[BufOf(j)])
    BY <1>4 DEF Grown
  <2>2. conns' = conns
    OBVIOUS
  <2>3. ObjectsLaid'
    BY <1>1, <2>1, <2>2 DEF Laid, ObjectsLaid, BufOf, StackOf
  <2>4. RegionsLaid'
    BY <1>1, <2>1, <2>2 DEF Laid, RegionsLaid, StackRegion, BufRegion, ClientRegion
  <2> QED
    BY <2>3, <2>4 DEF Laid
<1>6. Server \in Procs /\ Clients \subseteq Procs
  BY DEF Procs
<1>7. Named'
  <2>1. \A d \in Clients : Names(k', d, 3, "pmo", PageOf(d))
    BY <1>1, <1>6, NamesKept DEF Named
  <2>2. ASSUME NEW d \in Registered
        PROVE  \E j \in 1..Len(conns) :
                  /\ conns[j].client = d
                  /\ Names(k', d, at'[d].conn_cap, "connection", j)
                  /\ Names(k', Server, conns[j].server_conn_cap, "connection", j)
    <3>1. PICK j \in 1..Len(conns) :
             /\ conns[j].client = d
             /\ Names(k, d, at[d].conn_cap, "connection", j)
             /\ Names(k, Server, conns[j].server_conn_cap, "connection", j)
      BY <1>1 DEF Named
    <3>2. d \in Procs /\ at'[d].conn_cap = at[d].conn_cap
      BY <1>6, <3>1, <1>1
    <3>3. Names(k', d, at[d].conn_cap, "connection", j)
      BY <1>1, <3>1, <3>2, NamesKept
    <3>4. Names(k', Server, conns[j].server_conn_cap, "connection", j)
      BY <1>1, <1>6, <3>1, NamesKept
    <3> QED
      BY <3>1, <3>2, <3>3, <3>4
  <2> QED
    BY <1>2, <2>1, <2>2 DEF Named
<1>8. ASSUME NEW j \in 1..Len(conns) PROVE Told(j)'
  <2>1. CASE j = i
    BY <2>1
  <2>2. CASE j # i
    <3>1. conns[j].client # c /\ conns[j].client \in Clients /\ conns'[j] = conns[j]
      BY <1>1, <2>2 DEF Bitmap
    <3>2. at'[conns[j].client] = at[conns[j].client]
      BY <3>1
    <3>3. k'.pmos[BufOf(j)] = k.pmos[BufOf(j)]
      <4>1. BufOf(j) # BufOf(i) /\ BufOf(j) \in 1..Len(k.pmos)
        <5>1. NPages \in Nat
          BY ClientsAssumption, FS_CardinalityType DEF NPages
        <5> QED
          BY <1>4, <2>2, <5>1 DEF BufOf
      <4> QED
        BY <4>1 DEF Grown
    <3>4. \A cap, type, id : Names(k, Server, cap, type, id) => Names(k', Server, cap, type, id)
      BY <1>1, <1>6, NamesKept
    <3> QED
      BY <3>1, <3>2, <3>3, <3>4, ToldKept
  <2> QED
    BY <2>1, <2>2
<1> QED
  BY <1>3, <1>5, <1>7, <1>8 DEF Inv
-----------------------------------------------------------------------------
(* The message *)

\* Client and server find the message of connection i at these addresses.
Ends(i) == {<<conns[i].client, ClientBuf>>, <<Server, conns[i].server_user_addr>>}

\* Either end of a connection loads a cell of the one buffer they share.
LEMMA BufferRead ==
  ASSUME Inv, NEW i \in 1..Len(conns), NEW p, NEW msg, <<p, msg>> \in Ends(i),
         NEW off \in 0..(BufSize - 1), NEW addr, addr = msg + off
  PROVE  Load(k, p, addr) = k.pmos[BufOf(i)][off + 1]
<1>1. TypeOK /\ Bitmap /\ Laid
  BY DEF Inv
<1>2. CASE p = conns[i].client /\ msg = ClientBuf
  BY <1>1, <1>2, ClientMemory DEF CellAt
<1>3. CASE p = Server /\ msg = conns[i].server_user_addr
  BY <1>1, <1>3, ServerMemory DEF CellAt
<1> QED
  BY <1>2, <1>3 DEF Ends

\* What each side reads of a message.
Reads(p, msg, B, send) ==
    /\ Field(p, msg, DataLen) = Len(send.data) /\ Field(p, msg, CapSlotNumber) = Len(send.caps)
    /\ Field(p, msg, DataOffset) = Header
    /\ Field(p, msg, CapSlotsOffset) = Header + Len(send.data)
    /\ Field(p, msg, ServerConnCap) = B[ServerConnCap + 1]
    /\ \A j \in 1..Len(send.data) : DataAt(p, msg, j) = B[Header + j]
    /\ \A j \in 1..Len(send.caps) : SlotAt(p, msg, j) = B[Header + Len(send.data) + j]

\* Either end reads in a message what its header says is in the buffer.
LEMMA MessageRead ==
  ASSUME Inv, NEW i \in 1..Len(conns), NEW send \in Sends,
         HeaderIs(k.pmos[BufOf(i)], send), NEW p, NEW msg, <<p, msg>> \in Ends(i)
  PROVE  Reads(p, msg, k.pmos[BufOf(i)], send)
<1> DEFINE B == k.pmos[BufOf(i)]
           d == Len(send.data)
           n == Len(send.caps)
<1>1. /\ d \in Nat /\ n \in Nat /\ Header + d + n <= BufSize /\ BufSize \in Nat
  BY MessagesAssumption, Sizes
<1>2. msg \in Int
  <2>0. conns[i] \in [client : Clients, stack : Nat, buf : Nat, server_stack_top : Nat,
                      client_user_addr : Nat, server_user_addr : Nat, server_conn_cap : Nat]
    BY ElementOfSeq DEF Inv, TypeOK
  <2>1. conns[i].server_user_addr \in Nat
    BY <2>0
  <2>2. msg \in {ClientBuf, conns[i].server_user_addr}
    BY DEF Ends
  <2> QED
    BY <2>1, <2>2, Sizes
<1> HIDE DEF B, d, n
<1>3. ASSUME NEW off \in 0..(BufSize - 1), NEW addr, addr = msg + off
      PROVE  Load(k, p, addr) = B[off + 1]
  BY <1>3, BufferRead DEF B
<1>4. ASSUME NEW f \in 0..4 PROVE Field(p, msg, f) = B[f + 1]
  <2> DEFINE addr == msg + f
  <2>1. f \in 0..(BufSize - 1)
    BY <1>1 DEF Header
  <2>2. Field(p, msg, f) = Load(k, p, addr)
    BY DEF Field
  <2>3. addr = msg + f
    OBVIOUS
  <2> HIDE DEF addr
  <2> QED
    BY <1>3, <2>1, <2>2, <2>3
<1>5. /\ Field(p, msg, DataLen) = d /\ Field(p, msg, CapSlotNumber) = n
      /\ Field(p, msg, DataOffset) = Header /\ Field(p, msg, CapSlotsOffset) = Header + d
      /\ Field(p, msg, ServerConnCap) = B[ServerConnCap + 1]
  BY <1>4, SMTT(30) DEF HeaderIs, DataLen, CapSlotNumber, DataOffset, CapSlotsOffset, ServerConnCap, B, d, n
<1>6. ASSUME NEW j \in 1..d PROVE DataAt(p, msg, j) = B[Header + j]
  <2> DEFINE addr == msg + Field(p, msg, DataOffset) + j - 1
             off == Header + j - 1
  <2>1. off \in 0..(BufSize - 1) /\ addr = msg + off /\ off + 1 = Header + j
    BY <1>1, <1>2, <1>5 DEF Header
  <2>2. DataAt(p, msg, j) = Load(k, p, addr)
    BY DEF DataAt
  <2> HIDE DEF addr, off
  <2>3. Load(k, p, addr) = B[off + 1]
    BY <1>3, <2>1
  <2> QED
    BY <2>1, <2>2, <2>3
<1>7. ASSUME NEW j \in 1..n PROVE SlotAt(p, msg, j) = B[Header + d + j]
  <2> DEFINE addr == msg + Field(p, msg, CapSlotsOffset) + j - 1
             off == Header + d + j - 1
  <2>1. off \in 0..(BufSize - 1) /\ addr = msg + off /\ off + 1 = Header + d + j
    BY <1>1, <1>2, <1>5 DEF Header
  <2>2. SlotAt(p, msg, j) = Load(k, p, addr)
    BY DEF SlotAt
  <2> HIDE DEF addr, off
  <2>3. Load(k, p, addr) = B[off + 1]
    BY <1>3, <2>1
  <2> QED
    BY <2>1, <2>2, <2>3
<1> QED
  BY <1>5, <1>6, <1>7 DEF Reads, B, d, n

\* What a longer sequence begins with is its first part.
LEMMA Prefixed ==
  ASSUME NEW a \in Seq(Int), NEW z \in Seq(Int), NEW all, all = a \o z
  PROVE  /\ all \in Seq(Int) /\ Len(all) = Len(a) + Len(z)
         /\ \A j \in 1..Len(a) : all[j] = a[j]
<1>1. Len(a) \in Nat /\ Len(z) \in Nat
  BY LenProperties
<1>2. all \in Seq(Int) /\ Len(all) = Len(a) + Len(z)
  OBVIOUS
<1>3. \A j \in 1..Len(a) : all[j] = a[j]
  BY <1>1
<1> QED
  BY <1>2, <1>3

\* The same, of three parts.
LEMMA Joined ==
  ASSUME NEW a \in Seq(Int), NEW z \in Seq(Int), NEW m \in Seq(Int), NEW all, all = a \o z \o m
  PROVE  /\ all \in Seq(Int) /\ Len(all) = Len(a) + Len(z) + Len(m)
         /\ \A j \in 1..Len(a) : all[j] = a[j]
<1> DEFINE az == a \o z
<1>1. Len(a) \in Nat /\ Len(z) \in Nat /\ Len(m) \in Nat /\ az = a \o z /\ all = az \o m
  BY LenProperties
<1> HIDE DEF az
<1>2. /\ az \in Seq(Int) /\ Len(az) = Len(a) + Len(z)
      /\ \A j \in 1..Len(a) : az[j] = a[j]
  BY <1>1, Prefixed
<1>3. /\ all \in Seq(Int) /\ Len(all) = Len(az) + Len(m)
      /\ \A j \in 1..Len(az) : all[j] = az[j]
  BY <1>1, <1>2, Prefixed
<1> QED
  BY <1>1, <1>2, <1>3

\* ipc_create_msg()
LEMMA CreateKeeps ==
  ASSUME Inv, NEW c \in Clients, NEW send \in Sends, CreateMsg(c, send)
  PROVE  Inv'
<1> DEFINE d == Len(send.data)
           n == Len(send.caps)
           head == <<d, n, Header, Header + d>>
           cells == head \o Times(d, 0) \o Times(n, -1)
<1>1. /\ d \in Nat /\ n \in Nat /\ Header + d + n <= BufSize /\ BufSize \in Nat
  BY MessagesAssumption, Sizes
<1>2. PICK i \in 1..Len(conns) : conns[i].client = c
  BY Connected DEF CreateMsg
<1>3. /\ Times(d, 0) \in Seq(Int) /\ Len(Times(d, 0)) = d
      /\ Times(n, -1) \in Seq(Int) /\ Len(Times(n, -1)) = n
  <2>1. Times(d, 0) \in [1..d -> Int] /\ Times(n, -1) \in [1..n -> Int]
    BY DEF Times
  <2> HIDE DEF d, n
  <2> QED
    BY <1>1, <2>1, SeqDef, LenProperties
<1>4. /\ cells \in Seq(Int) /\ Len(cells) = 4 + d + n
      /\ cells[1] = d /\ cells[2] = n /\ cells[3] = Header /\ cells[4] = Header + d
  <2>1. head \in Seq(Int) /\ Len(head) = 4
    BY <1>1 DEF Header
  <2>2. head[1] = d /\ head[2] = n /\ head[3] = Header /\ head[4] = Header + d
    OBVIOUS
  <2> HIDE DEF d, n, head
  <2>3. /\ cells \in Seq(Int) /\ Len(cells) = 4 + d + n
        /\ \A j \in 1..4 : cells[j] = head[j]
    <3>1. cells = head \o Times(d, 0) \o Times(n, -1)
      OBVIOUS
    <3> HIDE DEF cells
    <3>2. /\ cells \in Seq(Int) /\ Len(cells) = Len(head) + Len(Times(d, 0)) + Len(Times(n, -1))
          /\ \A j \in 1..Len(head) : cells[j] = head[j]
      <4> DEFINE z == Times(d, 0)
                 m == Times(n, -1)
      <4>1. z \in Seq(Int) /\ m \in Seq(Int) /\ cells = head \o z \o m
        BY <1>3, <3>1
      <4> HIDE DEF z, m
      <4>2. ASSUME NEW h \in Seq(Int), NEW all, all = h \o z \o m
            PROVE  /\ all \in Seq(Int) /\ Len(all) = Len(h) + Len(z) + Len(m)
                   /\ \A j \in 1..Len(h) : all[j] = h[j]
        BY <4>1, <4>2, Joined
      <4>3. /\ cells \in Seq(Int) /\ Len(cells) = Len(head) + Len(z) + Len(m)
            /\ \A j \in 1..Len(head) : cells[j] = head[j]
        BY <2>1, <4>1, <4>2
      <4> QED
        BY <4>3 DEF z, m
    <3> QED
      BY <1>3, <2>1, <3>2
  <2>4. cells[1] = head[1] /\ cells[2] = head[2] /\ cells[3] = head[3] /\ cells[4] = head[4]
    <3> HIDE DEF cells
    <3> QED
      BY <2>3
  <2> HIDE DEF cells
  <2> QED
    BY <2>2, <2>3, <2>4
<1> HIDE DEF cells, head
<1>5. k' = Store(k, c, ClientBuf + 1, cells)
  BY DEF CreateMsg, DataLen, cells, head
<1>6. Grown(k, k, BufOf(i)) /\ 1 + Len(cells) <= BufSize
  <2>1. Grown(k, k, BufOf(i))
    BY GrownNot DEF Inv, TypeOK
  <2> HIDE DEF d, n
  <2> QED
    BY <1>1, <1>4, <2>1 DEF Header
<1>7. Filled(k, k', i, 1, cells)
  BY <1>2, <1>4, <1>5, <1>6, Put
<1>8. Grown(k, k', BufOf(i))
  BY <1>7 DEF Filled
<1>9. /\ at' = [at EXCEPT ![c].pc = "created", ![c].send = send, ![c].calls = @ + 1]
      /\ conns' = conns /\ config' = config
  BY DEF CreateMsg
<1>10. TypeOK'
  <2>1. at \in [Clients -> ClientStates] /\ at[c] \in ClientStates
    BY DEF TypeOK, Inv
  <2>2. at[c].calls + 1 \in Nat /\ "created" \in Places
    BY <2>1 DEF ClientStates, Places
  <2>3. at' \in [Clients -> ClientStates]
    BY <1>9, <2>1, <2>2 DEF ClientStates
  <2> QED
    BY <1>8, <1>9, <2>3 DEF TypeOK, Inv, Grown
<1>11. /\ \A e \in Clients : e # c => at'[e] = at[e]
       /\ at'[c].pc = "created" /\ at'[c].send = send /\ at'[c].conn_cap = at[c].conn_cap
  BY <1>9 DEF TypeOK, Inv
<1>12. HeaderIs(k'.pmos[BufOf(i)], send)
  <2>1. \A j \in 1..BufSize : k'.pmos[BufOf(i)][j] = IF j - 1 \in 1..Len(cells) THEN cells[j - 1]
                                ELSE k.pmos[BufOf(i)][j]
    BY <1>7 DEF Filled
  <2>2. ASSUME NEW j \in 1..4 PROVE k'.pmos[BufOf(i)][j + 1] = cells[j]
    <3> HIDE DEF d, n
    <3>1. j + 1 \in 1..BufSize /\ j + 1 - 1 = j /\ j \in 1..Len(cells)
      BY <1>1, <1>4 DEF Header
    <3> QED
      BY <2>1, <3>1
  <2>3. /\ k'.pmos[BufOf(i)][1 + 1] = d /\ k'.pmos[BufOf(i)][2 + 1] = n
        /\ k'.pmos[BufOf(i)][3 + 1] = Header /\ k'.pmos[BufOf(i)][4 + 1] = Header + d
    <3>1. 1 \in 1..4 /\ 2 \in 1..4 /\ 3 \in 1..4 /\ 4 \in 1..4
      OBVIOUS
    <3> HIDE DEF d, n
    <3>2. /\ k'.pmos[BufOf(i)][1 + 1] = cells[1] /\ k'.pmos[BufOf(i)][2 + 1] = cells[2]
          /\ k'.pmos[BufOf(i)][3 + 1] = cells[3] /\ k'.pmos[BufOf(i)][4 + 1] = cells[4]
      BY <2>2, <3>1
    <3> QED
      BY <1>4, <3>2
  <2> QED
    BY <2>3 DEF HeaderIs, DataLen, CapSlotNumber, DataOffset, CapSlotsOffset
<1>13. Told(i)'
  BY <1>2, <1>9, <1>11, <1>12 DEF Told
<1> QED
  BY <1>2, <1>8, <1>9, <1>10, <1>11, <1>13, Steady

\* What a place in the message of a client means.
LEMMA MessageAt ==
  ASSUME Inv, NEW c \in Clients, at[c].pc \in {"created", "filled", "served"},
         NEW i \in 1..Len(conns), conns[i].client = c
  PROVE  /\ at[c].send \in Sends /\ HeaderIs(k.pmos[BufOf(i)], at[c].send)
         /\ Reads(c, ClientBuf, k.pmos[BufOf(i)], at[c].send)
         /\ at[c].pc \in {"filled", "served"} => DataIs(k.pmos[BufOf(i)], at[c].send)
         /\ at[c].pc = "filled" => SlotsAre(k.pmos[BufOf(i)], at[c].send)
<1>1. Told(i)
  BY DEF Inv
<1>2. /\ at[c].send \in Sends /\ HeaderIs(k.pmos[BufOf(i)], at[c].send)
      /\ at[c].pc \in {"filled", "served"} => DataIs(k.pmos[BufOf(i)], at[c].send)
      /\ at[c].pc = "filled" => SlotsAre(k.pmos[BufOf(i)], at[c].send)
  BY <1>1 DEF Told
<1>3. <<c, ClientBuf>> \in Ends(i)
  BY DEF Ends
<1>4. Reads(c, ClientBuf, k.pmos[BufOf(i)], at[c].send)
  BY <1>2, <1>3, MessageRead
<1> QED
  BY <1>2, <1>4

\* ipc_set_msg_data() and ipc_set_msg_cap()
LEMMA FillKeeps ==
  ASSUME Inv, NEW c \in Clients, FillMsg(c)
  PROVE  Inv'
<1> DEFINE send == at[c].send
           d == Len(send.data)
           n == Len(send.caps)
           slots == [j \in DOMAIN send.caps |-> IF send.caps[j] = "page" THEN page(c) ELSE -1]
           w == SetMsgData(k, c, send.data)
<1>1. at[c].pc = "created" /\ TypeOK
  BY DEF FillMsg, Inv
<1>2. PICK i \in 1..Len(conns) : conns[i].client = c
  BY <1>1, Connected
<1> DEFINE b == BufOf(i)
           B == k.pmos[b]
<1>3. send \in Sends /\ HeaderIs(B, send) /\ Reads(c, ClientBuf, B, send)
  BY <1>1, <1>2, MessageAt
<1>4. /\ d \in Nat /\ n \in Nat /\ Header + d + n <= BufSize /\ BufSize \in Nat
      /\ send.data \in Seq(Int) /\ send.caps \in Seq({"page", "unset"})
  BY <1>3, MessagesAssumption, Sizes
<1>16. /\ Header \in Nat /\ Header + d <= BufSize /\ Header + d \in Nat
       /\ Header + d + n <= BufSize
  <2> HIDE DEF d, n
  <2> QED
    BY <1>4 DEF Header
<1>5. page(c) = 3
  BY <1>1 DEF page, TypeOK, ClientStates
<1>6. /\ slots \in Seq(Int) /\ Len(slots) = n
      /\ \A j \in 1..n : slots[j] = IF send.caps[j] = "page" THEN 3 ELSE -1
  <2>1. DOMAIN send.caps = 1..n
    BY <1>4
  <2> HIDE DEF n
  <2>2. slots \in [1..n -> Int]
    BY <1>5, <2>1
  <2>3. \A j \in 1..n : slots[j] = IF send.caps[j] = "page" THEN 3 ELSE -1
    BY <1>5, <2>1
  <2> HIDE DEF slots
  <2> QED
    BY <1>4, <2>2, <2>3, SeqDef, LenProperties
<1>7. /\ w = Store(k, c, ClientBuf + Header, send.data)
      /\ k' = Store(w, c, ClientBuf + (Header + d), slots)
  <2>1. /\ Field(c, ClientBuf, DataLen) = d /\ Field(c, ClientBuf, DataOffset) = Header
        /\ Field(c, ClientBuf, CapSlotsOffset) = Header + d
    BY <1>3 DEF Reads
  <2>2. ~(d > d)
    BY <1>4
  <2>3. w = Store(k, c, ClientBuf + Header, send.data)
    BY <2>1, <2>2 DEF SetMsgData
  <2>4. k' = Store(w, c, ClientBuf + Field(c, ClientBuf, CapSlotsOffset), slots)
    BY DEF FillMsg
  <2>5. ClientBuf + Field(c, ClientBuf, CapSlotsOffset) = ClientBuf + (Header + d)
    BY <2>1
  <2> HIDE DEF d, w, slots
  <2> QED
    BY <2>3, <2>4, <2>5
<1> HIDE DEF w, slots, b
<1>8. Filled(k, w, i, Header, send.data)
  <2> DEFINE off == Header
  <2>0. Grown(k, k, b)
    BY <1>1, GrownNot DEF TypeOK
  <2>1. off \in Nat /\ off + Len(send.data) <= BufSize
    BY <1>16
  <2>2. w = Store(k, c, ClientBuf + off, send.data)
    BY <1>7
  <2> HIDE DEF off
  <2>3. Filled(k, w, i, off, send.data)
    BY <1>2, <1>4, <2>0, <2>1, <2>2, Put DEF b
  <2> QED
    BY <2>3 DEF off
<1>9. Filled(w, k', i, Header + d, slots)
  <2> DEFINE off == Header + d
  <2>0. Grown(k, w, b)
    BY <1>8 DEF Filled, b
  <2>1. off \in Nat /\ off + Len(slots) <= BufSize
    <3> HIDE DEF n, d
    <3> QED
      BY <1>6, <1>16
  <2>2. k' = Store(w, c, ClientBuf + off, slots)
    BY <1>7
  <2> HIDE DEF off
  <2>3. Filled(w, k', i, off, slots)
    BY <1>2, <1>6, <2>0, <2>1, <2>2, Put DEF b
  <2> QED
    BY <2>3 DEF off
<1>10. Grown(k, k', b)
  BY <1>1, <1>8, <1>9, GrownTwice DEF Filled, b, TypeOK
<1> DEFINE B2 == k'.pmos[b]
<1>11. HeaderIs(B2, send) /\ DataIs(B2, send) /\ SlotsAre(B2, send)
  <2>1. \A j \in 1..BufSize :
           B2[j] = IF j - (Header + d) \in 1..n THEN slots[j - (Header + d)]
                   ELSE IF j - Header \in 1..d THEN send.data[j - Header] ELSE B[j]
    BY <1>6, <1>8, <1>9 DEF Filled, b
  <2> HIDE DEF B, B2, send, d, n
  <2>2. B2[2] = B[2] /\ B2[3] = B[3] /\ B2[4] = B[4] /\ B2[5] = B[5]
    BY <1>4, <2>1 DEF Header
  <2>3. HeaderIs(B2, send)
    BY <1>3, <2>2 DEF HeaderIs, DataLen, CapSlotNumber, DataOffset, CapSlotsOffset
  <2>4. ASSUME NEW j \in 1..d PROVE B2[Header + j] = send.data[j]
    BY <1>4, <2>1, <2>4 DEF Header
  <2>5. ASSUME NEW j \in 1..n PROVE B2[Header + d + j] = slots[j]
    <3> DEFINE x == Header + d + j
    <3>1. x \in 1..BufSize /\ x - (Header + d) = j
      BY <1>4 DEF Header
    <3> HIDE DEF x
    <3>2. B2[x] = slots[j]
      BY <2>1, <3>1
    <3> QED
      BY <3>2 DEF x
  <2> QED
    BY <1>6, <2>3, <2>4, <2>5 DEF DataIs, SlotsAre, d, n
<1>12. /\ at' = [at EXCEPT ![c].pc = "filled"] /\ conns' = conns /\ config' = config
  BY DEF FillMsg, At
<1>13. TypeOK'
  <2>1. at \in [Clients -> ClientStates] /\ at[c] \in ClientStates
    BY <1>1 DEF TypeOK
  <2>2. "filled" \in Places
    BY DEF Places
  <2>3. at' \in [Clients -> ClientStates]
    BY <1>12, <2>1, <2>2 DEF ClientStates
  <2> QED
    BY <1>1, <1>10, <1>12, <2>3 DEF TypeOK, Grown
<1>14. /\ \A e \in Clients : e # c => at'[e] = at[e]
       /\ at'[c].pc = "filled" /\ at'[c].send = send /\ at'[c].conn_cap = at[c].conn_cap
  BY <1>1, <1>12 DEF TypeOK
<1>15. Told(i)'
  <2> HIDE DEF send
  <2> QED
    BY <1>2, <1>3, <1>11, <1>12, <1>14 DEF Told, b
<1> QED
  BY <1>2, <1>10, <1>12, <1>13, <1>14, <1>15, Steady DEF b

\* ipc_send_cap() for the slots that a client has filled.
LEMMA SlotsSent ==
  ASSUME Inv, NEW c \in Clients, NEW i \in 1..Len(conns), conns[i].client = c, NEW send \in Sends,
         NEW kk, Typed(kk), kk.caps = k.caps, NEW caps \in Seq(Int), Len(caps) = Len(send.caps),
         \A j \in 1..Len(caps) : caps[j] = IF send.caps[j] = "page" THEN 3 ELSE -1,
         NEW sent, sent = SendCaps(kk, c, caps)
  PROVE  /\ Grown(kk, sent[1], BufOf(i)) /\ sent[1].pmos = kk.pmos
         /\ sent[2] \in Seq(Int) /\ Len(sent[2]) = Len(send.caps)
         /\ \A j \in 1..Len(send.caps) :
               IF send.caps[j] = "page" THEN Names(sent[1], Server, sent[2][j], "pmo", PageOf(c))
               ELSE sent[2][j] = ECAPBILITY
<1> DEFINE n == Len(caps)
<1>1. Sent(kk, c, caps, BufOf(i), n, sent)
  BY Transferred DEF SendCaps
<1>2. Names(k, c, 3, "pmo", PageOf(c))
  BY DEF Inv, Named
<1>3. /\ 3 + 1 \in 1..Len(kk.caps[c])
      /\ kk.caps[c][3 + 1].type = "pmo" /\ kk.caps[c][3 + 1].id = PageOf(c)
  BY <1>2 DEF Names
<1>4. /\ Grown(kk, sent[1], BufOf(i)) /\ sent[1].pmos = kk.pmos
      /\ sent[2] \in Seq(Int) /\ Len(sent[2]) = n
      /\ \A j \in 1..n :
            IF caps[j] + 1 \in 1..Len(kk.caps[c])
            THEN Names(sent[1], Server, sent[2][j], kk.caps[c][caps[j] + 1].type,
                       kk.caps[c][caps[j] + 1].id)
            ELSE sent[2][j] = ECAPBILITY
  BY <1>1 DEF Sent
<1>5. ASSUME NEW j \in 1..n
      PROVE  IF send.caps[j] = "page" THEN Names(sent[1], Server, sent[2][j], "pmo", PageOf(c))
             ELSE sent[2][j] = ECAPBILITY
  <2>1. CASE send.caps[j] = "page"
    <3>1. caps[j] = 3
      BY <2>1
    <3>2. caps[j] + 1 = 3 + 1
      BY <3>1
    <3>3. Names(sent[1], Server, sent[2][j], kk.caps[c][caps[j] + 1].type,
                kk.caps[c][caps[j] + 1].id)
      BY <1>3, <1>4, <3>2
    <3> QED
      BY <1>3, <2>1, <3>2, <3>3
  <2>2. CASE send.caps[j] # "page"
    <3>1. caps[j] = -1
      BY <2>2
    <3>2. caps[j] + 1 \notin 1..Len(kk.caps[c])
      BY <3>1
    <3> QED
      BY <1>4, <2>2, <3>2
  <2> QED
    BY <2>1, <2>2
<1> QED
  BY <1>4, <1>5

\* sys_ipc_call(), until the server's handler starts
LEMMA CallKeeps ==
  ASSUME Inv, NEW c \in Clients, Call(c)
  PROVE  Inv'
<1> DEFINE send == at[c].send
           d == Len(send.data)
           n == Len(send.caps)
<1>1. at[c].pc = "filled" /\ TypeOK /\ Typed(k)
  BY DEF Call, Inv, TypeOK
<1>2. PICK i \in 1..Len(conns) : conns[i].client = c /\ Names(k, c, at[c].conn_cap, "connection", i)
  BY <1>1, Connected
<1> DEFINE b == BufOf(i)
           B == k.pmos[b]
           caps == [j \in 1..n |-> SlotAt(c, ClientBuf, j)]
           own == <<conns[i].server_conn_cap>>
           told == Store(k, c, ClientBuf + ServerConnCap, own)
           sent == SendCaps(told, c, caps)
<1>3. /\ send \in Sends /\ HeaderIs(B, send) /\ Reads(c, ClientBuf, B, send)
      /\ DataIs(B, send) /\ SlotsAre(B, send)
  BY <1>1, <1>2, MessageAt
<1>4. /\ d \in Nat /\ n \in Nat /\ Header + d + n <= BufSize /\ BufSize \in Nat
      /\ send.data \in Seq(Int) /\ send.caps \in Seq({"page", "unset"})
  BY <1>3, MessagesAssumption, Sizes
<1>5. /\ Header \in Nat /\ Header + d <= BufSize /\ Header + d \in Nat
      /\ Header + d + n <= BufSize /\ 1 <= BufSize
  <2> HIDE DEF d, n
  <2> QED
    BY <1>4 DEF Header
<1>6. Obj(k, c, at[c].conn_cap, "connection") = i
  <2>1. Len(k.caps[c]) \in Nat /\ DOMAIN k.caps[c] = 1..Len(k.caps[c])
    BY <1>1 DEF Typed, Procs
  <2> QED
    BY <1>2, <2>1 DEF Obj, Names
<1>7. /\ Field(c, ClientBuf, CapSlotNumber) = n /\ Field(c, ClientBuf, CapSlotsOffset) = Header + d
      /\ \A j \in 1..n : SlotAt(c, ClientBuf, j) = B[Header + d + j]
  BY <1>3 DEF Reads
<1>8. /\ caps \in Seq(Int) /\ Len(caps) = n
      /\ \A j \in 1..n : caps[j] = IF send.caps[j] = "page" THEN 3 ELSE -1
  <2>1. \A j \in 1..n : SlotAt(c, ClientBuf, j) = IF send.caps[j] = "page" THEN 3 ELSE -1
    BY <1>3, <1>7 DEF SlotsAre
  <2> HIDE DEF n
  <2>2. \A j \in 1..n : caps[j] = IF send.caps[j] = "page" THEN 3 ELSE -1
    BY <2>1
  <2>3. caps \in [1..n -> Int]
    BY <2>1
  <2> HIDE DEF caps
  <2> QED
    BY <1>4, <2>2, <2>3, SeqDef, LenProperties
<1>9. conns[i].server_conn_cap \in Nat /\ conns[i].server_user_addr \in Nat
  <2>1. conns[i] \in [client : Clients, stack : Nat, buf : Nat, server_stack_top : Nat,
                      client_user_addr : Nat, server_user_addr : Nat, server_conn_cap : Nat]
    BY <1>1, ElementOfSeq DEF TypeOK
  <2> QED
    BY <2>1
<1>10. own \in Seq(Int) /\ Len(own) = 1 /\ own[1] = conns[i].server_conn_cap
  BY <1>9
<1>11. conns' = conns /\ config' = config
  BY DEF Call
<1>12. \/ /\ n >= MAX_CAP_TRANSFER
          /\ k' = told
          /\ at' = [at EXCEPT ![c].pc = "back", ![c].ret = EINVAL]
       \/ /\ n < MAX_CAP_TRANSFER
          /\ k' = Store(sent[1], c, ClientBuf + Field(c, ClientBuf, CapSlotsOffset), sent[2])
          /\ at' = [at EXCEPT ![c].pc = "served", ![c].arg = conns[i].server_user_addr]
  BY <1>6, <1>7 DEF Call
<1> HIDE DEF b, own
<1>13. Filled(k, told, i, 0, own)
  <2> DEFINE off == ServerConnCap
  <2>1. Grown(k, k, b)
    BY <1>1, GrownNot
  <2>2. off \in Nat /\ off + Len(own) <= BufSize /\ off = 0
    BY <1>4, <1>5, <1>10 DEF ServerConnCap
  <2>3. told = Store(k, c, ClientBuf + off, own)
    OBVIOUS
  <2> HIDE DEF off, told
  <2>4. Filled(k, told, i, off, own)
    BY <1>2, <1>10, <2>1, <2>2, <2>3, Put DEF b
  <2> QED
    BY <2>2, <2>4
<1> HIDE DEF told, caps
<1>14. Grown(k, told, b) /\ Typed(told) /\ told.caps = k.caps
  BY <1>13 DEF Filled, b, Grown
<1>15. /\ Grown(told, sent[1], b) /\ sent[1].pmos = told.pmos
       /\ sent[2] \in Seq(Int) /\ Len(sent[2]) = n
       /\ \A j \in 1..n :
             IF send.caps[j] = "page" THEN Names(sent[1], Server, sent[2][j], "pmo", PageOf(c))
             ELSE sent[2][j] = ECAPBILITY
  <2>1. sent = SendCaps(told, c, caps)
    OBVIOUS
  <2> HIDE DEF sent, send
  <2> QED
    BY <1>2, <1>3, <1>8, <1>14, <2>1, SlotsSent DEF b
<1> HIDE DEF sent
<1>16. at \in [Clients -> ClientStates] /\ at[c] \in ClientStates
  BY <1>1 DEF TypeOK
<1>17. CASE /\ n >= MAX_CAP_TRANSFER
            /\ k' = told
            /\ at' = [at EXCEPT ![c].pc = "back", ![c].ret = EINVAL]
  <2>1. TypeOK'
    <3>1. EINVAL \in Int /\ "back" \in Places
      BY DEF EINVAL, Places
    <3>2. at' \in [Clients -> ClientStates]
      BY <1>16, <1>17, <3>1 DEF ClientStates
    <3> QED
      BY <1>1, <1>11, <1>14, <1>17, <3>2 DEF TypeOK
  <2>2. /\ \A e \in Clients : e # c => at'[e] = at[e]
        /\ at'[c].pc = "back" /\ at'[c].send = send /\ at'[c].conn_cap = at[c].conn_cap
        /\ at'[c].ret = EINVAL
    BY <1>16, <1>17
  <2>3. Answer(send) = EINVAL
    BY <1>17 DEF Answer
  <2>4. Told(i)'
    <3> HIDE DEF send
    <3> QED
      BY <1>2, <1>3, <1>11, <2>2, <2>3 DEF Told
  <2>5. Grown(k, k', b)
    BY <1>14, <1>17
  <2> QED
    BY <1>2, <1>11, <2>1, <2>2, <2>4, <2>5, Steady DEF b
<1>18. CASE /\ n < MAX_CAP_TRANSFER
            /\ k' = Store(sent[1], c, ClientBuf + Field(c, ClientBuf, CapSlotsOffset), sent[2])
            /\ at' = [at EXCEPT ![c].pc = "served", ![c].arg = conns[i].server_user_addr]
  <2> DEFINE off == Header + d
             x == sent[1]
             nums == sent[2]
  <2>1. ClientBuf + Field(c, ClientBuf, CapSlotsOffset) = ClientBuf + off
    BY <1>7
  <2>2. k' = Store(x, c, ClientBuf + off, nums)
    <3> HIDE DEF off
    <3> QED
      BY <1>18, <2>1
  <2>3. Grown(k, x, b)
    BY <1>1, <1>14, <1>15, GrownTwice
  <2>4. off \in Nat /\ off + Len(nums) <= BufSize /\ nums \in Seq(Int)
    <3> HIDE DEF n, d
    <3> QED
      BY <1>5, <1>15
  <2>5. Filled(x, k', i, off, nums)
    <3> HIDE DEF off, x, nums
    <3> QED
      BY <1>2, <2>2, <2>3, <2>4, Put DEF b
  <2>6. Grown(k, k', b)
    BY <1>1, <2>3, <2>5, GrownTwice DEF Filled, b
  <2> DEFINE B2 == k'.pmos[b]
  <2>7. \A j \in 1..BufSize :
           B2[j] = IF j - (Header + d) \in 1..n THEN nums[j - (Header + d)]
                   ELSE IF j - 0 \in 1..1 THEN own[j - 0] ELSE B[j]
    <3>1. \A j \in 1..BufSize : B2[j] = IF j - off \in 1..n THEN nums[j - off] ELSE x.pmos[b][j]
      BY <1>15, <2>5 DEF Filled, b
    <3>2. \A j \in 1..BufSize : told.pmos[b][j] = IF j - 0 \in 1..1 THEN own[j - 0] ELSE B[j]
      BY <1>10, <1>13 DEF Filled, b
    <3> HIDE DEF B, B2, nums
    <3> QED
      BY <1>15, <3>1, <3>2
  <2>8. /\ HeaderIs(B2, send) /\ DataIs(B2, send) /\ B2[ServerConnCap + 1] = conns[i].server_conn_cap
    <3> HIDE DEF B, B2, send, d, n, nums
    <3>1. B2[2] = B[2] /\ B2[3] = B[3] /\ B2[4] = B[4] /\ B2[5] = B[5] /\ B2[1] = own[1]
      BY <1>4, <2>7 DEF Header
    <3>2. HeaderIs(B2, send)
      BY <1>3, <3>1 DEF HeaderIs, DataLen, CapSlotNumber, DataOffset, CapSlotsOffset
    <3>3. ASSUME NEW j \in 1..d PROVE B2[Header + j] = B[Header + j]
      BY <1>4, <2>7, <3>3 DEF Header
    <3>4. DataIs(B2, send)
      BY <1>3, <3>3 DEF DataIs, d
    <3> QED
      BY <1>10, <3>1, <3>2, <3>4 DEF ServerConnCap
  <2>9. ASSUME NEW j \in 1..n PROVE B2[Header + d + j] = nums[j]
    <3> HIDE DEF B, B2, send, d, n, nums
    <3> DEFINE y == Header + d + j
    <3>1. y \in 1..BufSize /\ y - (Header + d) = j
      BY <1>4 DEF Header
    <3> HIDE DEF y
    <3>2. B2[y] = nums[j]
      BY <2>7, <3>1
    <3> QED
      BY <3>2 DEF y
  <2>10. SlotsName(k', B2, send, PageOf(c))
    <3>1. k'.caps = x.caps
      BY <2>5 DEF Filled
    <3> HIDE DEF B2
    <3>2. ASSUME NEW j \in 1..n
          PROVE  IF send.caps[j] = "page" THEN Names(k', Server, B2[Header + d + j], "pmo", PageOf(c))
                 ELSE B2[Header + d + j] = ECAPBILITY
      <4>1. B2[Header + d + j] = nums[j]
        BY <2>9
      <4> DEFINE y == B2[Header + d + j]
      <4>2. y = nums[j]
        BY <4>1
      <4> HIDE DEF y
      <4>3. IF send.caps[j] = "page" THEN Names(k', Server, y, "pmo", PageOf(c))
                 ELSE y = ECAPBILITY
        BY <1>15, <3>1, <4>2 DEF Names
      <4> QED
        BY <4>3 DEF y
    <3> QED
      BY <3>2 DEF SlotsName
  <2>11. TypeOK'
    <3>1. "served" \in Places
      BY DEF Places
    <3> DEFINE addr == conns[i].server_user_addr
    <3>2. at' = [at EXCEPT ![c].pc = "served", ![c].arg = addr] /\ addr \in Int
      BY <1>9, <1>18
    <3> HIDE DEF addr
    <3>3. at' \in [Clients -> ClientStates]
      BY <1>16, <3>1, <3>2 DEF ClientStates
    <3> QED
      BY <1>1, <1>11, <2>6, <3>3 DEF TypeOK, Grown
  <2>12. /\ \A e \in Clients : e # c => at'[e] = at[e]
         /\ at'[c].pc = "served" /\ at'[c].send = send /\ at'[c].conn_cap = at[c].conn_cap
         /\ at'[c].arg = conns[i].server_user_addr
    BY <1>16, <1>18
  <2>13. Told(i)'
    <3> HIDE DEF send
    <3> QED
      BY <1>2, <1>3, <1>11, <1>18, <2>8, <2>10, <2>12 DEF Told, b
  <2> QED
    BY <1>2, <1>11, <2>6, <2>11, <2>12, <2>13, Steady DEF b
<1> QED
  BY <1>12, <1>17, <1>18

\* A step that leaves the memory alone, and the client with no message.
LEMMA IdleKeeps ==
  ASSUME Inv, NEW c \in Clients, at[c].pc # "start", UNCHANGED <<k, config, conns>>,
         at' \in [Clients -> ClientStates], \A e \in Clients : e # c => at'[e] = at[e],
         at'[c].pc \in {"ready", "echoed"}, at'[c].conn_cap = at[c].conn_cap
  PROVE  Inv'
<1>1. PICK i \in 1..Len(conns) : conns[i].client = c
  BY Connected
<1>2. Typed(k) /\ TypeOK
  BY DEF Inv, TypeOK
<1>3. Grown(k, k', BufOf(i))
  BY <1>2, GrownNot
<1>4. TypeOK'
  BY <1>2 DEF TypeOK
<1>5. Told(i)'
  BY <1>1 DEF Told
<1> QED
  BY <1>1, <1>3, <1>4, <1>5, Steady

\* sys_ipc_reg_call(), its handler, and the return from a call.
LEMMA RegCallKeeps ==
  ASSUME Inv, NEW c \in Clients, RegCall(c, c)
  PROVE  Inv'
<1>1. /\ at \in [Clients -> ClientStates] /\ at[c] \in ClientStates /\ at[c].pc = "ready"
      /\ at' = [at EXCEPT ![c].pc = "echoed", ![c].arg = c, ![c].calls = @ + 1]
      /\ UNCHANGED <<k, config, conns>>
  BY DEF RegCall, Inv, TypeOK
<1>2. c \in Int /\ at[c].calls + 1 \in Nat /\ "echoed" \in Places
  BY <1>1, ClientsAssumption DEF ClientStates, Places
<1>3. at' \in [Clients -> ClientStates]
  BY <1>1, <1>2 DEF ClientStates
<1>4. /\ \A e \in Clients : e # c => at'[e] = at[e]
      /\ at'[c].pc = "echoed" /\ at'[c].conn_cap = at[c].conn_cap
  BY <1>1
<1> QED
  BY <1>1, <1>3, <1>4, IdleKeeps

\* The answer of the server to sys_ipc_reg_call() keeps the invariant.
LEMMA EchoKeeps ==
  ASSUME Inv, NEW c \in Clients, Echo(c)
  PROVE  Inv'
<1>1. /\ at \in [Clients -> ClientStates] /\ at[c] \in ClientStates /\ at[c].pc = "echoed"
      /\ at' = [at EXCEPT ![c].pc = "ready", ![c].ret = at[c].arg]
      /\ UNCHANGED <<k, config, conns>>
  BY DEF Echo, Inv, TypeOK
<1>2. at[c].arg \in Int /\ "ready" \in Places
  BY <1>1 DEF ClientStates, Places
<1>3. at' \in [Clients -> ClientStates]
  BY <1>1, <1>2 DEF ClientStates
<1>4. /\ \A e \in Clients : e # c => at'[e] = at[e]
      /\ at'[c].pc = "ready" /\ at'[c].conn_cap = at[c].conn_cap
  BY <1>1
<1> QED
  BY <1>1, <1>3, <1>4, IdleKeeps

\* A call that returns to its client keeps the invariant.
LEMMA ReturnKeeps ==
  ASSUME Inv, NEW c \in Clients, Return(c)
  PROVE  Inv'
<1>1. /\ at \in [Clients -> ClientStates] /\ at[c] \in ClientStates /\ at[c].pc = "back"
      /\ at' = [at EXCEPT ![c].pc = "ready"]
      /\ UNCHANGED <<k, config, conns>>
  BY DEF Return, At, Inv, TypeOK
<1>2. "ready" \in Places
  BY DEF Places
<1>3. at' \in [Clients -> ClientStates]
  BY <1>1, <1>2 DEF ClientStates
<1>4. /\ \A e \in Clients : e # c => at'[e] = at[e]
      /\ at'[c].pc = "ready" /\ at'[c].conn_cap = at[c].conn_cap
  BY <1>1
<1> QED
  BY <1>1, <1>3, <1>4, IdleKeeps

\* The loop of the handler over the server's copy is the one over what was sent.
HandlerSum(msg) ==
    LET sum[j \in 0..Field(Server, msg, DataLen)] ==
            IF j = 0 THEN 0 ELSE sum[j - 1] + DataAt(Server, msg, j)
    IN  sum[Field(Server, msg, DataLen)]

\* The handler of the server adds up the numbers the client sent.
LEMMA SumOf ==
  ASSUME Inv, NEW i \in 1..Len(conns), NEW send \in Sends, DataIs(k.pmos[BufOf(i)], send),
         NEW msg, Reads(Server, msg, k.pmos[BufOf(i)], send), Len(send.caps) < MAX_CAP_TRANSFER
  PROVE  HandlerSum(msg) = Answer(send) /\ Answer(send) \in Int
<1> DEFINE N == Field(Server, msg, DataLen)
           sum == CHOOSE g : g = [j \in 0..N |-> IF j = 0 THEN 0 ELSE g[j - 1] + DataAt(Server, msg, j)]
           sent == CHOOSE g : Totals(g, Len(send.data), send.data)
           A == [j \in 1..N |-> DataAt(Server, msg, j)]
<1>1. N = Len(send.data) /\ N \in Nat /\ send.data \in Seq(Int) /\ Len(send.caps) \in Nat
  BY MessagesAssumption DEF Reads
<1>2. \A j \in 1..N : send.data[j] \in Int /\ A[j] = send.data[j]
  <2>1. \A j \in 1..N : DataAt(Server, msg, j) = send.data[j]
    BY <1>1 DEF Reads, DataIs
  <2>2. \A j \in 1..N : send.data[j] \in Int
    BY <1>1, ElementOfSeq
  <2> HIDE DEF N
  <2> QED
    BY <2>1, <2>2
<1>3. \A g : Totals(g, N, A)
              <=> g = [j \in 0..N |-> IF j = 0 THEN 0 ELSE g[j - 1] + DataAt(Server, msg, j)]
  <2> TAKE g
  <2>1. \A j \in 0..N : (IF j = 0 THEN 0 ELSE g[j - 1] + A[j])
                        = (IF j = 0 THEN 0 ELSE g[j - 1] + DataAt(Server, msg, j))
    <3> SUFFICES ASSUME NEW j \in 0..N, j # 0 PROVE A[j] = DataAt(Server, msg, j)
      OBVIOUS
    <3>1. j \in 1..N
      BY <1>1
    <3> HIDE DEF N
    <3> QED
      BY <3>1
  <2> HIDE DEF N, A
  <2>2. [j \in 0..N |-> IF j = 0 THEN 0 ELSE g[j - 1] + A[j]]
            = [j \in 0..N |-> IF j = 0 THEN 0 ELSE g[j - 1] + DataAt(Server, msg, j)]
    BY <2>1
  <2> QED
    BY <2>2 DEF Totals
<1> HIDE DEF A, N
<1>4. Totals(sum, N, A)
  <2>1. PICK f : Totals(f, N, A)
    BY <1>1, <1>2, TotalsExist
  <2>2. f = [j \in 0..N |-> IF j = 0 THEN 0 ELSE f[j - 1] + DataAt(Server, msg, j)]
    BY <1>3, <2>1
  <2>3. sum = [j \in 0..N |-> IF j = 0 THEN 0 ELSE sum[j - 1] + DataAt(Server, msg, j)]
    BY <2>2
  <2> HIDE DEF sum
  <2> QED
    BY <1>3, <2>3
<1>5. PICK f : Totals(f, N, send.data) /\ \A j \in 0..N : f[j] \in Int
  BY <1>1, <1>2, TotalsExist
<1>6. Totals(sent, N, send.data)
  BY <1>1, <1>5
<1> HIDE DEF sum, sent
<1>7. sum[N] = sent[N] /\ f[N] = sent[N]
  <2> DEFINE data == send.data
  <2>1. Totals(sum, N, A) /\ Totals(f, N, data) /\ Totals(sent, N, data)
    BY <1>4, <1>5, <1>6
  <2>2. \A j \in 1..N : A[j] = data[j]
    BY <1>2
  <2> HIDE DEF data
  <2>3. sum[N] = sent[N]
    BY <1>1, <2>1, <2>2, TotalsAgree
  <2>4. f[N] = sent[N]
    BY <1>1, <2>1, TotalsAgree
  <2> QED
    BY <2>3, <2>4
<1>8. f[N] \in Int
  BY <1>1, <1>5
<1>9. Answer(send) = sent[N]
  <2>1. ~(Len(send.caps) >= MAX_CAP_TRANSFER)
    BY <1>1, MessagesAssumption
  <2>2. Answer(send) = LET s2[j \in 0..Len(send.data)] ==
                               IF j = 0 THEN 0 ELSE s2[j - 1] + send.data[j]
                       IN  s2[Len(send.data)]
    BY <2>1, Zenon DEF Answer
  <2> QED
    BY <1>1, <2>2, Zenon DEF sent, Totals
<1>10. HandlerSum(msg) = sum[N]
  BY Zenon DEF HandlerSum, sum, N
<1> QED
  BY <1>7, <1>8, <1>9, <1>10

\* The handler adds up what was sent.
LEMMA HandleKeeps ==
  ASSUME Inv, NEW c \in Clients, Handle(c)
  PROVE  Inv'
<1> DEFINE send == at[c].send
           msg == at[c].arg
<1>1. /\ at[c].pc = "served" /\ TypeOK /\ Typed(k)
      /\ at \in [Clients -> ClientStates] /\ at[c] \in ClientStates
      /\ conns' = conns /\ config' = config /\ k' = k
  BY DEF Handle, Inv, TypeOK
<1>2. PICK i \in 1..Len(conns) : conns[i].client = c
  BY <1>1, Connected
<1>3. /\ send \in Sends /\ HeaderIs(k.pmos[BufOf(i)], send) /\ DataIs(k.pmos[BufOf(i)], send)
  BY <1>1, <1>2, MessageAt
<1>4. Len(send.caps) < MAX_CAP_TRANSFER /\ msg = conns[i].server_user_addr
  <2>1. Told(i)
    BY DEF Inv
  <2> QED
    BY <1>1, <1>2, <2>1 DEF Told
<1>5. <<Server, msg>> \in Ends(i)
  BY <1>4 DEF Ends
<1> HIDE DEF send, msg
<1>6. Reads(Server, msg, k.pmos[BufOf(i)], send)
  BY <1>3, <1>5, MessageRead
<1> DEFINE ret == HandlerSum(msg)
<1>7. ret = Answer(send) /\ Answer(send) \in Int
  BY <1>3, <1>4, <1>6, SumOf
<1>8. at' = [at EXCEPT ![c].pc = "back", ![c].ret = ret]
  BY Zenon DEF Handle, HandlerSum, msg
<1> HIDE DEF ret
<1>9. at' \in [Clients -> ClientStates]
  <2>1. ret \in Int /\ "back" \in Places
    BY <1>7 DEF Places
  <2> QED
    BY <1>1, <1>8, <2>1 DEF ClientStates
<1>10. /\ \A e \in Clients : e # c => at'[e] = at[e]
       /\ at'[c].pc = "back" /\ at'[c].send = send /\ at'[c].conn_cap = at[c].conn_cap
       /\ at'[c].ret = Answer(send)
  BY <1>1, <1>7, <1>8 DEF send
<1>11. TypeOK'
  BY <1>1, <1>9 DEF TypeOK
<1>12. Told(i)'
  BY <1>1, <1>2, <1>3, <1>10 DEF Told
<1>13. Grown(k, k', BufOf(i))
  BY <1>1, GrownNot
<1> QED
  BY <1>1, <1>2, <1>10, <1>11, <1>12, <1>13, Steady

\* A step that only the server notices.
LEMMA StillKeeps ==
  ASSUME Inv, UNCHANGED <<k, conns, at>>, Bitmap'
  PROVE  Inv'
<1>1. TypeOK'
  BY DEF Inv, TypeOK
<1>2. Laid'
  BY DEF Inv, Laid, ObjectsLaid, RegionsLaid
<1>3. Named'
  BY DEF Inv, Named, Registered
<1>4. \A i \in 1..Len(conns) : Told(i)'
  BY DEF Inv, Told
<1> QED
  BY <1>1, <1>2, <1>3, <1>4 DEF Inv

\* Registering the server keeps the invariant.
LEMMA RegisterServerKeeps ==
  ASSUME Inv, RegisterServer
  PROVE  Inv'
<1>1. /\ config = Nobody /\ UNCHANGED <<k, conns, at>> /\ Bitmap
      /\ config' = [max_client |-> MaxClient, conn_bmp |-> {}]
  BY DEF RegisterServer, Inv
<1>2. config' # Nobody
  <2>1. {} \in SUBSET Nat
    OBVIOUS
  <2> QED
    BY <1>1, <2>1, ClientsAssumption
<1>3. Len(conns) = 0
  BY <1>1 DEF Bitmap
<1>4. Bitmap'
  <2>1. Len(conns') = 0 /\ Registered' = Registered /\ conns' = conns
    BY <1>1, <1>3 DEF Registered
  <2>2. config' = [max_client |-> MaxClient, conn_bmp |-> 0..(Len(conns') - 1)]
    <3>1. {} = 0..(0 - 1)
      OBVIOUS
    <3> QED
      BY <1>1, <2>1, <3>1
  <2>3. /\ conns' # <<>> => config' # Nobody
        /\ config' # Nobody => config' = [max_client |-> MaxClient, conn_bmp |-> 0..(Len(conns') - 1)]
    BY <1>2, <2>2
  <2>4. Len(conns') = Cardinality(Registered')
    BY <1>1, <2>1 DEF Bitmap
  <2>5. /\ \A i \in 1..Len(conns') : conns'[i].client \in Registered'
        /\ \A i, j \in 1..Len(conns') : conns'[i].client = conns'[j].client => i = j
    BY <2>1
  <2> QED
    BY <2>3, <2>4, <2>5 DEF Bitmap
<1> QED
  BY <1>1, <1>4, StillKeeps

-----------------------------------------------------------------------------
(* A new connection *)

\* pmo_init() makes one more object.
Fresh(kk, w, size) ==
    /\ Typed(w) /\ w.caps = kk.caps /\ w.maps = kk.maps
    /\ Len(w.pmos) = Len(kk.pmos) + 1 /\ Len(w.pmos[Len(kk.pmos) + 1]) = size
    /\ \A d \in 1..Len(kk.pmos) : w.pmos[d] = kk.pmos[d]

\* A new memory object comes after those there are, and changes none of them.
LEMMA NewObject ==
  ASSUME NEW kk, Typed(kk), NEW size \in Nat, ROUND_UP(size) = size
  PROVE  Fresh(kk, NewPmo(kk, size), size)
<1> DEFINE junk == [i \in 1..ROUND_UP(size) |-> Junk]
           more == Append(kk.pmos, junk)
           w == NewPmo(kk, size)
<1>1. junk \in Seq(Int) /\ Len(junk) = size
  <2>1. junk \in [1..size -> Int]
    BY DEF Junk
  <2> HIDE DEF junk
  <2> QED
    BY <2>1, SeqDef, LenProperties
<1> HIDE DEF junk
<1>2. kk.pmos \in Seq(Seq(Int)) /\ Len(kk.pmos) \in Nat
  BY DEF Typed
<1>3. /\ more \in Seq(Seq(Int)) /\ Len(more) = Len(kk.pmos) + 1 /\ more[Len(kk.pmos) + 1] = junk
      /\ \A d \in 1..Len(kk.pmos) : more[d] = kk.pmos[d]
  BY <1>1, <1>2
<1>4. w = [kk EXCEPT !.pmos = more]
  BY DEF NewPmo, Typed, junk
<1> HIDE DEF more, w
<1>5. Typed(w) /\ w.pmos = more /\ w.caps = kk.caps /\ w.maps = kk.maps
  BY <1>3, <1>4 DEF Typed
<1>6. Fresh(kk, w, size)
  BY <1>1, <1>3, <1>5 DEF Fresh
<1> QED
  BY <1>6 DEF w

\* vmspace_map_range() where there is room.
WithRegion(kk, w, p, vmr) ==
    /\ Typed(w) /\ w.pmos = kk.pmos /\ w.caps = kk.caps
    /\ w.maps[p] = kk.maps[p] \cup {vmr}
    /\ \A q \in Procs : q # p => w.maps[q] = kk.maps[q]

\* Mapping an object where a space has no region adds its region, and nothing else.
LEMMA RegionAdded ==
  ASSUME NEW kk, Typed(kk), NEW p \in Procs, NEW pmo \in 1..Len(kk.pmos), NEW vmr,
         NEW addr \in Nat, NEW size \in Nat \ {0}, Len(kk.pmos[pmo]) = size,
         vmr = [start |-> addr, size |-> size, perm |-> VMR_RW, pmo |-> pmo],
         \A r \in kk.maps[p] : r.start + r.size <= addr \/ addr + size <= r.start
  PROVE  WithRegion(kk, MapIgnored(kk, p, addr, VMR_RW, pmo), p, vmr)
<1> DEFINE w == MapIgnored(kk, p, addr, VMR_RW, pmo)
           Region == [start : Nat, size : Nat, perm : Nat, pmo : Nat]
<1>1. /\ kk.maps \in [Procs -> SUBSET Region] /\ kk.maps[p] \subseteq Region
      /\ pmo \in Nat /\ VMR_RW \in Nat
  BY DEF Typed, VMR_RW, VMR_READ, VMR_WRITE
<1>2. ~Clashes(kk, p, addr, size)
  <2> SUFFICES ASSUME NEW r \in kk.maps[p], NEW end \in {addr, addr + size - 1},
                      r.start <= end, end < r.start + r.size
               PROVE  FALSE
    BY DEF Clashes
  <2>1. r.start \in Nat /\ r.size \in Nat
    BY <1>1
  <2>2. r.start + r.size <= addr \/ addr + size <= r.start
    OBVIOUS
  <2> QED
    BY <2>1, <2>2
<1>3. w = [kk EXCEPT !.maps = [kk.maps EXCEPT ![p] = kk.maps[p] \cup {vmr}]]
  BY <1>2 DEF MapIgnored, MapRange, Typed
<1> HIDE DEF w
<1>4. vmr \in Region
  BY <1>1
<1>5. [kk.maps EXCEPT ![p] = kk.maps[p] \cup {vmr}] \in [Procs -> SUBSET Region]
  <2>1. kk.maps[p] \cup {vmr} \in SUBSET Region
    BY <1>1, <1>4
  <2> QED
    BY <1>1, <2>1
<1> DEFINE maps == [kk.maps EXCEPT ![p] = kk.maps[p] \cup {vmr}]
<1>6. /\ maps[p] = kk.maps[p] \cup {vmr}
      /\ \A q \in Procs : q # p => maps[q] = kk.maps[q]
  BY <1>1
<1>7. w = [kk EXCEPT !.maps = maps] /\ maps \in [Procs -> SUBSET Region]
  BY <1>3, <1>5
<1> HIDE DEF maps
<1>8. w.maps = maps /\ w.pmos = kk.pmos /\ w.caps = kk.caps /\ Typed(w)
  BY <1>7 DEF Typed
<1>9. WithRegion(kk, w, p, vmr)
  BY <1>6, <1>8 DEF WithRegion
<1> QED
  BY <1>9 DEF w

\* A client registers once, so that a bit of the bitmap is left, and the next one is it.
LEMMA NextBit ==
  ASSUME Inv, NEW c \in Clients, at[c].pc = "start", config # Nobody
  PROVE  /\ conn_idx = Len(conns) /\ Len(conns) \in Nat /\ Len(conns) + 1 <= MaxClient
         /\ \A i \in 1..Len(conns) : conns[i].client # c
<1> DEFINE n == Len(conns)
<1>1. Bitmap /\ n \in Nat /\ MaxClient \in Nat
  BY ClientsAssumption DEF Inv, TypeOK
<1>2. c \notin Registered /\ Registered \subseteq Clients
  BY DEF Registered
<1>3. \A i \in 1..n : conns[i].client # c
  BY <1>1, <1>2 DEF Bitmap
<1>4. n + 1 <= MaxClient
  <2>1. IsFiniteSet(Registered)
    BY <1>2, ClientsAssumption, FS_Subset
  <2>2. Cardinality(Registered \cup {c}) = n + 1
    BY <1>1, <1>2, <2>1, FS_AddElement DEF Bitmap
  <2>3. Registered \cup {c} \subseteq Clients
    BY <1>2
  <2>4. Cardinality(Registered \cup {c}) <= Cardinality(Clients) /\ Cardinality(Clients) \in Nat
    BY <2>3, ClientsAssumption, FS_Subset, FS_CardinalityType
  <2> HIDE DEF n
  <2> QED
    BY <1>1, <2>2, <2>4, ClientsAssumption
<1>5. conn_idx = n
  <2> DEFINE free == ((0..(MaxClient - 1)) \ (0..(n - 1))) \cup {MaxClient}
  <2>1. conn_idx = Least(free)
    <3>1. config = [max_client |-> MaxClient, conn_bmp |-> 0..(n - 1)]
      BY <1>1 DEF Bitmap
    <3>2. config.max_client = MaxClient /\ config.conn_bmp = 0..(n - 1)
      BY <3>1
    <3> HIDE DEF n
    <3> QED
      BY <3>2 DEF conn_idx
  <2>2. n \in free /\ \A y \in free : y \in Int /\ n <= y
    <3> HIDE DEF n
    <3> QED
      BY <1>1, <1>4
  <2> HIDE DEF free
  <2>3. \A x \in free : (\A y \in free : x <= y) => x = n
    <3> HIDE DEF n
    <3> QED
      BY <1>1, <2>2
  <2> HIDE DEF n
  <2> QED
    BY <2>1, <2>2, <2>3 DEF Least
<1> QED
  BY <1>1, <1>3, <1>4, <1>5

\* What create_connection() has made and mapped as connection number i of client c.
Made(w, c, i) ==
    /\ Typed(w) /\ w.caps = k.caps
    /\ Len(w.pmos) = NPages + 2 * i /\ Len(w.pmos[BufOf(i)]) = BufSize
    /\ \A d \in 1..Len(k.pmos) : w.pmos[d] = k.pmos[d]
    /\ w.maps[Server] = k.maps[Server] \cup {StackRegion(i), BufRegion(i)}
    /\ w.maps[c] = {ClientRegion(i)}
    /\ \A q \in Clients : q # c => w.maps[q] = k.maps[q]

\* The record that describes it.
RecordIs(conn, c, i) ==
    /\ conn = [client |-> c, stack |-> StackOf(i), buf |-> BufOf(i),
               server_stack_top |-> StackBase + (i - 1) * StackSize + StackSize,
               client_user_addr |-> ClientBuf,
               server_user_addr |-> ServerBuf + (i - 1) * ServerBufSize,
               server_conn_cap |-> Len(k.caps[Server])]
    /\ conn \in [client : Clients, stack : Nat, buf : Nat, server_stack_top : Nat,
                 client_user_addr : Nat, server_user_addr : Nat, server_conn_cap : Nat]

\* The record create_connection() fills names the client, its buffer and its stack.
LEMMA RecordMade ==
  ASSUME Inv, NEW c \in Clients, at[c].pc = "start", config # Nobody,
         NEW i, i = Len(conns) + 1
  PROVE  RecordIs(NewConnection(c), c, i)
<1> DEFINE n == Len(conns)
<1>1. conn_idx = n /\ n \in Nat /\ n + 1 <= MaxClient /\ Laid /\ Typed(k) /\ Bitmap
  BY NextBit DEF Inv, TypeOK
<1>2. NPages \in Nat /\ MaxClient \in Nat
  BY ClientsAssumption, FS_CardinalityType DEF NPages
<1> HIDE DEF n
<1>3. i \in 1..i /\ i \in Nat /\ i - 1 = n /\ i <= MaxClient /\ i = n + 1
  BY <1>1, <1>2 DEF n
<1> DEFINE x == (i - 1) * StackSize
           y == (i - 1) * ServerBufSize
<1>4. x \in Nat /\ y \in Nat
  BY <1>1, <1>3, Apart
<1>5. (n + 1) * StackSize = x + StackSize /\ n * ServerBufSize = y
  BY <1>1, <1>3, Sizes
<1> HIDE DEF x, y
<1>6. Len(k.pmos) + 1 = StackOf(i) /\ Len(k.pmos) + 2 = BufOf(i)
  <2>1. Len(k.pmos) = NPages + 2 * n
    BY <1>1 DEF Laid, ObjectsLaid, n
  <2> QED
    BY <1>1, <1>2, <1>3, <2>1 DEF StackOf, BufOf
<1>7. StackOf(i) \in Nat /\ BufOf(i) \in Nat
  BY <1>2, <1>3 DEF StackOf, BufOf
<1>8. Len(k.caps[Server]) \in Nat
  BY <1>1 DEF Typed, Procs
<1>9. StackBase + (conn_idx + 1) * StackSize = StackBase + x + StackSize
  <2>1. (conn_idx + 1) * StackSize = x + StackSize
    BY <1>1, <1>5
  <2> DEFINE z == (conn_idx + 1) * StackSize
  <2>2. z = x + StackSize
    BY <2>1
  <2> HIDE DEF z
  <2>3. StackBase + z = StackBase + x + StackSize
    BY <1>4, <2>2, Sizes
  <2> QED
    BY <2>3 DEF z
<1>10. ServerBuf + conn_idx * ServerBufSize = ServerBuf + y
  BY <1>1, <1>5
<1>11. NewConnection(c) =
          [client |-> c, stack |-> StackOf(i), buf |-> BufOf(i),
           server_stack_top |-> StackBase + x + StackSize,
           client_user_addr |-> ClientBuf,
           server_user_addr |-> ServerBuf + y,
           server_conn_cap |-> Len(k.caps[Server])]
  BY <1>6, <1>9, <1>10 DEF NewConnection
<1>12. StackBase + x + StackSize \in Nat /\ ServerBuf + y \in Nat /\ ClientBuf \in Nat
  BY <1>4, Sizes
<1> QED
  BY <1>7, <1>8, <1>11, <1>12 DEF RecordIs, x, y

\* Mapping the stack and the buffer of a connection keeps all the others.
LEMMA ConnectionMade ==
  ASSUME Inv, NEW c \in Clients, at[c].pc = "start", config # Nobody,
         NEW i, i = Len(conns) + 1, NEW conn, RecordIs(conn, c, i)
  PROVE  Made(MapConnection(conn), c, i)
<1> DEFINE n == Len(conns)
           x == (i - 1) * StackSize
           y == (i - 1) * ServerBufSize
           bottom == conn.server_stack_top - StackSize
           k1 == NewPmo(k, StackSize)
           k2 == MapIgnored(k1, Server, bottom, VMR_RW, conn.stack)
           k3 == NewPmo(k2, BufSize)
           k4 == MapIgnored(k3, conn.client, conn.client_user_addr, VMR_RW, conn.buf)
           k5 == MapIgnored(k4, Server, conn.server_user_addr, VMR_RW, conn.buf)
<1>1. /\ n \in Nat /\ n + 1 <= MaxClient /\ Laid /\ Typed(k) /\ Bitmap
      /\ \A j \in 1..n : conns[j].client # c
  BY NextBit DEF Inv, TypeOK
<1>2. /\ NPages \in Nat /\ i \in Nat /\ i \in 1..i /\ i = n + 1 /\ i <= MaxClient
      /\ Server \in Procs /\ c \in Procs /\ c # Server
      /\ \A j \in 1..n : j \in 1..i /\ j < i /\ j \in Nat
  BY <1>1, ClientsAssumption, FS_CardinalityType DEF NPages, Procs, Server
<1>3. MapConnection(conn) = k5
  BY DEF MapConnection
<1>4. /\ x \in Nat /\ y \in Nat /\ StackBase + x + StackSize <= ServerBuf
      /\ \A j \in 1..n : /\ (j - 1) * StackSize + StackSize <= x
                         /\ (j - 1) * ServerBufSize + ServerBufSize <= y
                         /\ (j - 1) * StackSize \in Nat /\ (j - 1) * ServerBufSize \in Nat
                         /\ StackBase + (j - 1) * StackSize + StackSize <= ServerBuf
  <2>1. x \in Nat /\ y \in Nat /\ StackBase + x + StackSize <= ServerBuf
    BY <1>1, <1>2, Apart
  <2>2. ASSUME NEW j \in 1..n
        PROVE  /\ (j - 1) * StackSize + StackSize <= x
               /\ (j - 1) * ServerBufSize + ServerBufSize <= y
               /\ (j - 1) * StackSize \in Nat /\ (j - 1) * ServerBufSize \in Nat
               /\ StackBase + (j - 1) * StackSize + StackSize <= ServerBuf
    <3>1. j \in 1..i /\ j < i
      BY <1>2
    <3> QED
      BY <1>1, <1>2, <3>1, Apart
  <2> QED
    BY <2>1, <2>2
<1>5. /\ conn.client = c /\ conn.stack = StackOf(i) /\ conn.buf = BufOf(i)
      /\ conn.server_stack_top = StackBase + x + StackSize
      /\ conn.client_user_addr = ClientBuf /\ conn.server_user_addr = ServerBuf + y
  BY DEF RecordIs
<1>6. /\ StackRegion(i) = [start |-> StackBase + x, size |-> StackSize, perm |-> VMR_RW,
                           pmo |-> StackOf(i)]
      /\ BufRegion(i) = [start |-> ServerBuf + y, size |-> BufSize, perm |-> VMR_RW,
                         pmo |-> BufOf(i)]
      /\ ClientRegion(i) = [start |-> ClientBuf, size |-> BufSize, perm |-> VMR_RW,
                            pmo |-> BufOf(i)]
  BY DEF StackRegion, BufRegion, ClientRegion
<1>7. \A j \in 1..n :
         /\ StackRegion(j).start = StackBase + (j - 1) * StackSize /\ StackRegion(j).size = StackSize
         /\ BufRegion(j).start = ServerBuf + (j - 1) * ServerBufSize /\ BufRegion(j).size = BufSize
  BY DEF StackRegion, BufRegion
<1>8. /\ k.maps[Server] = {StackRegion(j) : j \in 1..n} \cup {BufRegion(j) : j \in 1..n}
      /\ k.maps[c] = {}
      /\ Len(k.pmos) = NPages + 2 * n
  <2>1. k.maps[c] = {ClientRegion(j) : j \in {j \in 1..n : conns[j].client = c}}
    BY <1>1 DEF Laid, RegionsLaid
  <2>2. {j \in 1..n : conns[j].client = c} = {}
    BY <1>1
  <2>3. k.maps[c] = {}
    BY <2>1, <2>2
  <2> QED
    BY <1>1, <2>3 DEF Laid, ObjectsLaid, RegionsLaid
<1>9. /\ Len(k.pmos) + 1 = StackOf(i) /\ Len(k.pmos) + 2 = BufOf(i)
      /\ StackOf(i) \in Nat /\ BufOf(i) \in Nat
  BY <1>1, <1>2, <1>8 DEF StackOf, BufOf
<1>10. bottom = StackBase + x
  <2> HIDE DEF x
  <2> QED
    BY <1>4, <1>5, Sizes
<1> HIDE DEF x, y, n, bottom, k5, k4, k3, k2, k1
<1>11. Fresh(k, k1, StackSize)
  BY <1>1, NewObject, Sizes DEF k1
<1>12. WithRegion(k1, k2, Server, StackRegion(i))
  <2>1. \A r \in k1.maps[Server] : r.start + r.size <= StackBase + x \/ StackBase + x + StackSize <= r.start
    <3> SUFFICES ASSUME NEW r \in k.maps[Server]
                 PROVE  r.start + r.size <= StackBase + x \/ StackBase + x + StackSize <= r.start
      BY <1>11 DEF Fresh
    <3>1. PICK j \in 1..n : r \in {StackRegion(j), BufRegion(j)}
      BY <1>8
    <3> DEFINE s == (j - 1) * StackSize
               z == (j - 1) * ServerBufSize
    <3>2. s \in Nat /\ z \in Nat /\ s + StackSize <= x
      BY <1>4
    <3>3. /\ StackRegion(j).start = StackBase + s /\ StackRegion(j).size = StackSize
          /\ BufRegion(j).start = ServerBuf + z
      BY <1>7
    <3> HIDE DEF s, z
    <3>4. CASE r = StackRegion(j)
      BY <1>4, <3>2, <3>3, <3>4, Sizes, SMTT(30)
    <3>5. CASE r = BufRegion(j)
      BY <1>4, <3>2, <3>3, <3>5, Sizes, SMTT(30)
    <3> QED
      BY <3>1, <3>4, <3>5
  <2> DEFINE addr == StackBase + x
  <2>2. /\ addr \in Nat /\ k2 = MapIgnored(k1, Server, addr, VMR_RW, StackOf(i))
        /\ StackRegion(i) = [start |-> addr, size |-> StackSize, perm |-> VMR_RW, pmo |-> StackOf(i)]
        /\ \A r \in k1.maps[Server] : r.start + r.size <= addr \/ addr + StackSize <= r.start
    BY <1>4, <1>5, <1>6, <1>10, <2>1, Sizes DEF k2
  <2>3. /\ Typed(k1) /\ StackOf(i) \in 1..Len(k1.pmos) /\ Len(k1.pmos[StackOf(i)]) = StackSize
    BY <1>8, <1>9, <1>11 DEF Fresh
  <2> HIDE DEF addr
  <2> QED
    BY <1>2, <2>2, <2>3, RegionAdded, Sizes
<1>13. Fresh(k2, k3, BufSize)
  BY <1>12, NewObject, Sizes DEF k3, WithRegion
<1>14. /\ Typed(k3) /\ k3.caps = k.caps /\ Len(k3.pmos) = BufOf(i)
       /\ Len(k3.pmos[BufOf(i)]) = BufSize /\ BufOf(i) \in 1..Len(k3.pmos)
       /\ k3.maps = k2.maps
       /\ \A d \in 1..Len(k.pmos) : k3.pmos[d] = k.pmos[d]
  <2>1. /\ Len(k2.pmos) = Len(k.pmos) + 1 /\ Len(k.pmos) \in Nat
        /\ \A d \in 1..Len(k.pmos) : k2.pmos[d] = k.pmos[d]
    <3>1. Len(k.pmos) \in Nat
      BY <1>1, <1>2, <1>8
    <3> QED
      BY <1>11, <1>12, <3>1 DEF Fresh, WithRegion
  <2>2. Len(k2.pmos) + 1 = BufOf(i) /\ BufOf(i) >= 1
    BY <1>9, <2>1
  <2> QED
    BY <1>9, <1>11, <1>12, <1>13, <2>1, <2>2 DEF Fresh, WithRegion
<1>15. /\ k3.maps[Server] = k.maps[Server] \cup {StackRegion(i)}
       /\ k3.maps[c] = {}
       /\ \A q \in Clients : q # c => k3.maps[q] = k.maps[q]
  <2>1. \A q \in Clients : q \in Procs /\ q # Server
    BY ClientsAssumption DEF Procs, Server
  <2> QED
    BY <1>2, <1>8, <1>11, <1>12, <1>14, <2>1 DEF Fresh, WithRegion
<1>16. WithRegion(k3, k4, c, ClientRegion(i))
  BY <1>2, <1>5, <1>6, <1>14, <1>15, RegionAdded, Sizes DEF k4
<1>17. /\ k4.maps[Server] = k.maps[Server] \cup {StackRegion(i)}
       /\ k4.maps[c] = {ClientRegion(i)}
       /\ \A q \in Clients : q # c => k4.maps[q] = k.maps[q]
  <2>1. \A q \in Clients : q \in Procs /\ q # Server
    BY ClientsAssumption DEF Procs, Server
  <2> QED
    BY <1>2, <1>15, <1>16, <2>1 DEF WithRegion
<1>18. WithRegion(k4, k5, Server, BufRegion(i))
  <2>1. \A r \in k4.maps[Server] : r.start + r.size <= ServerBuf + y \/ ServerBuf + y + BufSize <= r.start
    <3> SUFFICES ASSUME NEW r \in k.maps[Server] \cup {StackRegion(i)}
                 PROVE  r.start + r.size <= ServerBuf + y
      BY <1>17
    <3>1. CASE r = StackRegion(i)
      BY <1>4, <1>6, <3>1, Sizes
    <3>2. CASE r \in k.maps[Server]
      <4>1. PICK j \in 1..n : r \in {StackRegion(j), BufRegion(j)}
        BY <1>8, <3>2
      <4> DEFINE s == (j - 1) * StackSize
                 z == (j - 1) * ServerBufSize
      <4>2. /\ s \in Nat /\ z \in Nat /\ z + ServerBufSize <= y
            /\ StackBase + s + StackSize <= ServerBuf
        BY <1>4
      <4>3. /\ StackRegion(j).start = StackBase + s /\ StackRegion(j).size = StackSize
            /\ BufRegion(j).start = ServerBuf + z /\ BufRegion(j).size = BufSize
        BY <1>7
      <4> HIDE DEF s, z
      <4>4. CASE r = StackRegion(j)
        <5>1. r.start + r.size = StackBase + s + StackSize
          BY <4>3, <4>4
        <5>2. ServerBuf <= ServerBuf + y /\ StackBase + s + StackSize \in Nat
          BY <1>4, <4>2, Sizes
        <5> DEFINE end == StackBase + s + StackSize
        <5>3. r.start + r.size = end /\ end \in Nat /\ end <= ServerBuf
          BY <4>2, <5>1, <5>2
        <5> HIDE DEF end
        <5> QED
          BY <1>4, <5>2, <5>3, Sizes
      <4>5. CASE r = BufRegion(j)
        BY <1>4, <4>2, <4>3, <4>5, Sizes, SMTT(30)
      <4> QED
        BY <4>1, <4>4, <4>5
    <3> QED
      BY <3>1, <3>2
  <2> DEFINE addr == ServerBuf + y
  <2>2. /\ addr \in Nat /\ k5 = MapIgnored(k4, Server, addr, VMR_RW, BufOf(i))
        /\ BufRegion(i) = [start |-> addr, size |-> BufSize, perm |-> VMR_RW, pmo |-> BufOf(i)]
        /\ \A r \in k4.maps[Server] : r.start + r.size <= addr \/ addr + BufSize <= r.start
    BY <1>4, <1>5, <1>6, <2>1, Sizes DEF k5
  <2>3. /\ Typed(k4) /\ BufOf(i) \in 1..Len(k4.pmos) /\ Len(k4.pmos[BufOf(i)]) = BufSize
    BY <1>14, <1>16 DEF WithRegion
  <2> HIDE DEF addr
  <2> QED
    BY <1>2, <2>2, <2>3, RegionAdded, Sizes
<1>19. /\ Typed(k5) /\ k5.caps = k.caps /\ k5.pmos = k3.pmos
       /\ k5.maps[Server] = k.maps[Server] \cup {StackRegion(i), BufRegion(i)}
       /\ k5.maps[c] = {ClientRegion(i)}
       /\ \A q \in Clients : q # c => k5.maps[q] = k.maps[q]
  <2>1. \A q \in Clients : q \in Procs /\ q # Server
    BY ClientsAssumption DEF Procs, Server
  <2> QED
    BY <1>2, <1>14, <1>16, <1>17, <1>18, <2>1 DEF WithRegion
<1>20. Made(k5, c, i)
  BY <1>14, <1>19 DEF Made, BufOf
<1> QED
  BY <1>3, <1>20

\* What RegisterClient does, all but the bits of the bitmap in terms of the connection's number.
NewClient(c, i) ==
    /\ Typed(k') /\ Len(k'.pmos) = NPages + 2 * i /\ Len(k'.pmos[BufOf(i)]) = BufSize
    /\ \A d \in 1..Len(k.pmos) : k'.pmos[d] = k.pmos[d]
    /\ k'.maps[Server] = k.maps[Server] \cup {StackRegion(i), BufRegion(i)}
    /\ k'.maps[c] = {ClientRegion(i)}
    /\ \A q \in Clients : q # c => k'.maps[q] = k.maps[q]
    /\ \A p \in Procs : \A cap, type, id : Names(k, p, cap, type, id) => Names(k', p, cap, type, id)
    /\ \E conn : /\ RecordIs(conn, c, i) /\ conns' = Append(conns, conn)
                 /\ Names(k', Server, conn.server_conn_cap, "connection", i)
    /\ \E cap \in Nat : /\ at' = [at EXCEPT ![c].pc = "ready", ![c].conn_cap = cap]
                        /\ Names(k', c, cap, "connection", i)
    /\ config' = [max_client |-> MaxClient, conn_bmp |-> 0..(i - 1)]

\* ipc_register_client() adds one connection, and a client that knows its own.
LEMMA RegistersClient ==
  ASSUME Inv, NEW c \in Clients, RegisterClient(c), NEW i, i = Len(conns) + 1
  PROVE  NewClient(c, i)
<1> DEFINE conn == NewConnection(c)
           w == MapConnection(conn)
           capped == WithCap(w, c, "connection", Len(conns) + 1)
           copy == CapCopy(capped[1], c, Server, capped[2])
           new == [type |-> "connection", id |-> i]
           b == 0
<1>1. /\ at[c].pc = "start" /\ config # Nobody
      /\ k' = copy[1] /\ conns' = Append(conns, conn)
      /\ at' = [at EXCEPT ![c].pc = "ready", ![c].conn_cap = capped[2]]
      /\ config' = [config EXCEPT !.conn_bmp = @ \cup {conn_idx}]
  BY DEF RegisterClient
<1>2. /\ c \in Procs /\ Server \in Procs /\ c # Server
      /\ conn_idx = Len(conns) /\ Len(conns) \in Nat /\ i \in Nat /\ Typed(k) /\ Bitmap
  BY <1>1, NextBit, ClientsAssumption DEF Procs, Server, Inv, TypeOK
<1>3. RecordIs(conn, c, i)
  BY <1>1, RecordMade
<1> HIDE DEF conn
<1>4. Made(w, c, i)
  BY <1>1, <1>3, ConnectionMade
<1>5. new \in Cap /\ new.type = "connection" /\ new.id = i
  BY <1>2 DEF Cap
<1> HIDE DEF w
<1>6. NewCap(w, capped, c, "connection", i, b)
  <2>1. capped = WithCap(w, c, "connection", i)
    OBVIOUS
  <2> HIDE DEF capped, b
  <2> QED
    BY <1>2, <1>4, <1>5, <2>1, Allocated DEF Made
<1> HIDE DEF capped
<1>7. Typed(capped[1]) /\ Names(capped[1], c, capped[2], "connection", i)
  BY <1>6 DEF NewCap, Grown
<1>8. copy = WithCap(capped[1], Server, "connection", i)
  <2>1. capped[2] + 1 \in DOMAIN capped[1].caps[c]
    BY <1>2, <1>7 DEF Names, Typed
  <2>2. capped[1].caps[c][capped[2] + 1] = new
    BY <1>7 DEF Names
  <2> HIDE DEF new
  <2> QED
    BY <1>5, <2>1, <2>2 DEF CapCopy
<1>9. NewCap(capped[1], copy, Server, "connection", i, b)
  <2> HIDE DEF copy, b
  <2> QED
    BY <1>2, <1>5, <1>7, <1>8, Allocated
<1> HIDE DEF copy
<1>10. /\ Typed(k') /\ k'.pmos = w.pmos /\ k'.maps = w.maps
  BY <1>1, <1>6, <1>9 DEF NewCap, Grown
<1>11. ASSUME NEW p \in Procs, NEW cap, NEW type, NEW id, Names(k, p, cap, type, id)
       PROVE  Names(k', p, cap, type, id)
  <2>1. Names(w, p, cap, type, id) /\ Typed(w)
    BY <1>4, <1>11 DEF Made, Names
  <2>2. Names(capped[1], p, cap, type, id)
    BY <1>6, <2>1, NamesKept DEF NewCap
  <2>3. Names(copy[1], p, cap, type, id)
    BY <1>7, <1>9, <2>2, NamesKept DEF NewCap
  <2> QED
    BY <1>1, <2>3
<1>12. Names(k', c, capped[2], "connection", i) /\ capped[2] \in Nat
  <2>1. Names(copy[1], c, capped[2], "connection", i)
    BY <1>2, <1>7, <1>9, NamesKept DEF NewCap
  <2> QED
    BY <1>1, <1>6, <2>1 DEF NewCap
<1>13. Names(k', Server, conn.server_conn_cap, "connection", i)
  <2>1. copy[2] = Len(capped[1].caps[Server]) /\ Names(copy[1], Server, copy[2], "connection", i)
    BY <1>9 DEF NewCap
  <2>2. capped[1].caps[Server] = k.caps[Server]
    BY <1>2, <1>4, <1>6 DEF NewCap, Made
  <2>3. conn.server_conn_cap = Len(k.caps[Server])
    BY <1>3 DEF RecordIs
  <2> QED
    BY <1>1, <2>1, <2>2, <2>3
<1>14. config' = [max_client |-> MaxClient, conn_bmp |-> 0..(i - 1)]
  <2> DEFINE n == Len(conns)
  <2>1. config = [max_client |-> MaxClient, conn_bmp |-> 0..(n - 1)]
    BY <1>1, <1>2 DEF Bitmap
  <2>2. n \in Nat /\ i - 1 = n /\ conn_idx = n
    BY <1>2
  <2> HIDE DEF n
  <2>3. (0..(n - 1)) \cup {n} = 0..(i - 1)
    BY <2>2
  <2> QED
    BY <1>1, <2>1, <2>2, <2>3
<1>15. /\ Len(k'.pmos) = NPages + 2 * i /\ Len(k'.pmos[BufOf(i)]) = BufSize
       /\ \A d \in 1..Len(k.pmos) : k'.pmos[d] = k.pmos[d]
       /\ k'.maps[Server] = k.maps[Server] \cup {StackRegion(i), BufRegion(i)}
       /\ k'.maps[c] = {ClientRegion(i)}
       /\ \A q \in Clients : q # c => k'.maps[q] = k.maps[q]
  BY <1>4, <1>10 DEF Made
<1>16. \E x : /\ RecordIs(x, c, i) /\ conns' = Append(conns, x)
               /\ Names(k', Server, x.server_conn_cap, "connection", i)
  BY <1>1, <1>3, <1>13
<1>17. \E cap \in Nat : /\ at' = [at EXCEPT ![c].pc = "ready", ![c].conn_cap = cap]
                        /\ Names(k', c, cap, "connection", i)
  BY <1>1, <1>12
<1> QED
  BY <1>10, <1>11, <1>14, <1>15, <1>16, <1>17 DEF NewClient

\* ipc_register_client(), and create_connection() of the kernel
LEMMA RegisterClientKeeps ==
  ASSUME Inv, NEW c \in Clients, RegisterClient(c)
  PROVE  Inv'
<1> DEFINE n == Len(conns)
           i == n + 1
<1>1. /\ at[c].pc = "start" /\ TypeOK /\ Bitmap /\ Laid /\ Named /\ Typed(k)
      /\ n \in Nat /\ i \in Nat /\ i = n + 1 /\ NPages \in Nat
      /\ \A j \in 1..n : conns[j].client # c
      /\ conns \in Seq([client : Clients, stack : Nat, buf : Nat, server_stack_top : Nat,
                      client_user_addr : Nat, server_user_addr : Nat, server_conn_cap : Nat])
      /\ at \in [Clients -> ClientStates] /\ at[c] \in ClientStates
  <2>1. /\ at[c].pc = "start" /\ config # Nobody
        /\ TypeOK /\ Bitmap /\ Laid /\ Named
    BY DEF RegisterClient, Inv
  <2>2. n \in Nat /\ \A j \in 1..n : conns[j].client # c
    BY <2>1, NextBit
  <2>3. NPages \in Nat
    BY ClientsAssumption, FS_CardinalityType DEF NPages
  <2>4. i \in Nat /\ i = n + 1
    <3> HIDE DEF n
    <3> QED
      BY <2>2
  <2>5. at \in [Clients -> ClientStates] /\ at[c] \in ClientStates
    BY <2>1 DEF TypeOK
  <2> HIDE DEF n, i
  <2> QED
    BY <2>1, <2>2, <2>3, <2>4, <2>5 DEF TypeOK
<1>2. NewClient(c, i)
  BY RegistersClient
<1>3. /\ c \in Procs /\ Server \in Procs /\ c # Server /\ Clients \subseteq Procs
  BY ClientsAssumption DEF Procs, Server
<1> HIDE DEF n, i
<1>4. PICK conn : /\ RecordIs(conn, c, i) /\ conns' = Append(conns, conn)
                  /\ Names(k', Server, conn.server_conn_cap, "connection", i)
  BY <1>2 DEF NewClient
<1>5. PICK cap \in Nat : /\ at' = [at EXCEPT ![c].pc = "ready", ![c].conn_cap = cap]
                         /\ Names(k', c, cap, "connection", i)
  BY <1>2 DEF NewClient
<1>6. /\ Typed(k') /\ Len(k'.pmos) = NPages + 2 * i /\ Len(k'.pmos[BufOf(i)]) = BufSize
      /\ \A d \in 1..Len(k.pmos) : k'.pmos[d] = k.pmos[d]
      /\ k'.maps[Server] = k.maps[Server] \cup {StackRegion(i), BufRegion(i)}
      /\ k'.maps[c] = {ClientRegion(i)}
      /\ \A q \in Clients : q # c => k'.maps[q] = k.maps[q]
      /\ config' = [max_client |-> MaxClient, conn_bmp |-> 0..(i - 1)]
  BY <1>2 DEF NewClient
<1>7. \A p \in Procs : \A x, type, id : Names(k, p, x, type, id) => Names(k', p, x, type, id)
  BY <1>2 DEF NewClient
<1>8. /\ conns' \in Seq([client : Clients, stack : Nat, buf : Nat, server_stack_top : Nat,
                      client_user_addr : Nat, server_user_addr : Nat, server_conn_cap : Nat])
      /\ Len(conns') = i /\ conns'[i] = conn /\ \A j \in 1..n : conns'[j] = conns[j]
  BY <1>1, <1>4 DEF RecordIs, n
<1>9. /\ \A j \in 1..i : j = i \/ j \in 1..n
      /\ \A j \in 1..n : j \in 1..i /\ j # i
      /\ i \in 1..i
  BY <1>1
<1>10. /\ \A e \in Clients : e # c => at'[e] = at[e]
       /\ at'[c].pc = "ready" /\ at'[c].conn_cap = cap
  BY <1>1, <1>5
<1>11. at' \in [Clients -> ClientStates]
  <2>1. "ready" \in Places
    BY DEF Places
  <2>2. at' = [at EXCEPT ![c].pc = "ready", ![c].conn_cap = cap] /\ cap \in Int
    BY <1>5
  <2>3. at \in [Clients -> ClientStates] /\ at[c] \in ClientStates
    BY <1>1
  <2> QED
    BY <2>1, <2>2, <2>3 DEF ClientStates
<1>12. TypeOK'
  BY <1>6, <1>8, <1>11 DEF TypeOK
<1>13. Registered' = Registered \cup {c} /\ c \notin Registered
  BY <1>1, <1>10 DEF Registered
<1>14. conn.client = c
  BY <1>4 DEF RecordIs
<1>15. Bitmap'
  <2>1. config' # Nobody
    <3>1. 0..(i - 1) \in SUBSET Nat
      BY <1>1
    <3>2. config' \in [max_client : {MaxClient}, conn_bmp : SUBSET Nat]
      <4> DEFINE bits == 0..(i - 1)
      <4>1. bits \in SUBSET Nat /\ config' = [max_client |-> MaxClient, conn_bmp |-> bits]
        BY <1>6, <3>1
      <4> HIDE DEF bits
      <4> QED
        BY <4>1
    <3> QED
      BY <3>2, ClientsAssumption
  <2>2. Len(conns') = Cardinality(Registered')
    <3>1. IsFiniteSet(Registered)
      BY ClientsAssumption, FS_Subset DEF Registered
    <3>2. Cardinality(Registered) = n
      BY <1>1 DEF Bitmap, n
    <3> QED
      BY <1>1, <1>8, <1>13, <3>1, <3>2, FS_AddElement
  <2>3. \A j \in 1..i : conns'[j].client \in Registered'
    <3>1. \A j \in 1..n : conns[j].client \in Registered
      BY <1>1 DEF Bitmap, n
    <3> QED
      BY <1>8, <1>9, <1>13, <1>14, <3>1
  <2>4. \A j, l \in 1..i : conns'[j].client = conns'[l].client => j = l
    <3>1. \A j, l \in 1..n : conns[j].client = conns[l].client => j = l
      BY <1>1 DEF Bitmap, n
    <3> QED
      BY <1>1, <1>8, <1>9, <1>14, <3>1
  <2> QED
    BY <1>6, <1>8, <2>1, <2>2, <2>3, <2>4 DEF Bitmap
<1>16. \A j \in 1..n : BufOf(j) \in 1..Len(k.pmos)
  <2>1. Len(k.pmos) = NPages + 2 * n
    BY <1>1 DEF Laid, ObjectsLaid, n
  <2> QED
    BY <1>1, <2>1 DEF BufOf
<1>17. ObjectsLaid'
  <2>1. ASSUME NEW j \in 1..i
        PROVE  /\ conns'[j].stack = StackOf(j) /\ conns'[j].buf = BufOf(j)
               /\ conns'[j].server_stack_top = StackBase + (j - 1) * StackSize + StackSize
               /\ conns'[j].client_user_addr = ClientBuf
               /\ conns'[j].server_user_addr = ServerBuf + (j - 1) * ServerBufSize
               /\ Len(k'.pmos[BufOf(j)]) = BufSize
    <3>1. CASE j = i
      BY <1>4, <1>6, <1>8, <3>1 DEF RecordIs
    <3>2. CASE j \in 1..n
      <4>1. /\ conns[j].stack = StackOf(j) /\ conns[j].buf = BufOf(j)
            /\ conns[j].server_stack_top = StackBase + (j - 1) * StackSize + StackSize
            /\ conns[j].client_user_addr = ClientBuf
            /\ conns[j].server_user_addr = ServerBuf + (j - 1) * ServerBufSize
            /\ Len(k.pmos[BufOf(j)]) = BufSize
        BY <1>1, <3>2 DEF Laid, ObjectsLaid, n
      <4>2. conns'[j] = conns[j] /\ k'.pmos[BufOf(j)] = k.pmos[BufOf(j)]
        BY <1>6, <1>8, <1>16, <3>2
      <4> QED
        BY <4>1, <4>2
    <3> QED
      BY <1>9, <3>1, <3>2
  <2> QED
    BY <1>6, <1>8, <2>1 DEF ObjectsLaid, StackOf, BufOf
<1>18. RegionsLaid'
  <2>1. /\ k.maps[Server] = {StackRegion(j) : j \in 1..n} \cup {BufRegion(j) : j \in 1..n}
        /\ \A d \in Clients :
              k.maps[d] = {ClientRegion(x) : x \in {j \in 1..n : conns[j].client = d}}
    BY <1>1 DEF Laid, RegionsLaid, n
  <2>2. k'.maps[Server] = {StackRegion(j) : j \in 1..i} \cup {BufRegion(j) : j \in 1..i}
    BY <1>6, <1>9, <2>1
  <2>3. ASSUME NEW d \in Clients
        PROVE  k'.maps[d] = {ClientRegion(x) : x \in {j \in 1..i : conns'[j].client = d}}
    <3>1. CASE d = c
      <4>1. {j \in 1..i : conns'[j].client = d} = {i}
        BY <1>1, <1>8, <1>9, <1>14, <3>1
      <4> QED
        BY <1>6, <3>1, <4>1
    <3>2. CASE d # c
      <4>1. {j \in 1..i : conns'[j].client = d} = {j \in 1..n : conns[j].client = d}
        BY <1>8, <1>9, <1>14, <3>2
      <4> QED
        BY <1>6, <2>1, <3>2, <4>1
    <3> QED
      BY <3>1, <3>2
  <2> QED
    BY <1>8, <2>2, <2>3 DEF RegionsLaid, StackRegion, BufRegion, ClientRegion, StackOf, BufOf
<1>19. Named'
  <2>1. \A d \in Clients : Names(k', d, 3, "pmo", PageOf(d))
    BY <1>1, <1>3, <1>7 DEF Named
  <2>2. ASSUME NEW d \in Registered'
        PROVE  \E j \in 1..i :
                  /\ conns'[j].client = d
                  /\ Names(k', d, at'[d].conn_cap, "connection", j)
                  /\ Names(k', Server, conns'[j].server_conn_cap, "connection", j)
    <3>1. CASE d = c
      BY <1>4, <1>5, <1>8, <1>9, <1>10, <1>14, <3>1
    <3>2. CASE d # c
      <4>1. d \in Registered /\ d \in Clients /\ at'[d] = at[d]
        BY <1>10, <1>13, <3>2 DEF Registered
      <4>2. PICK j \in 1..n :
               /\ conns[j].client = d
               /\ Names(k, d, at[d].conn_cap, "connection", j)
               /\ Names(k, Server, conns[j].server_conn_cap, "connection", j)
        BY <1>1, <4>1 DEF Named, n
      <4>3. /\ Names(k', d, at[d].conn_cap, "connection", j)
            /\ Names(k', Server, conns[j].server_conn_cap, "connection", j)
        BY <1>3, <1>7, <4>1, <4>2
      <4> QED
        BY <1>8, <1>9, <4>1, <4>2, <4>3
    <3> QED
      BY <3>1, <3>2
  <2> QED
    BY <1>8, <2>1, <2>2 DEF Named
<1>20. ASSUME NEW j \in 1..i PROVE Told(j)'
  <2>1. CASE j = i
    BY <1>8, <1>10, <1>14, <2>1 DEF Told
  <2>2. CASE j \in 1..n
    <3>1. j \in 1..Len(conns) /\ conns[j].client # c /\ conns[j].client \in Clients
      BY <1>1, <2>2 DEF Bitmap, Registered, n
    <3>2. /\ conns'[j] = conns[j] /\ at'[conns[j].client] = at[conns[j].client]
          /\ k'.pmos[BufOf(j)] = k.pmos[BufOf(j)]
      BY <1>6, <1>8, <1>10, <1>16, <2>2, <3>1
    <3> QED
      BY <1>3, <1>7, <3>1, <3>2, ToldKept
  <2> QED
    BY <1>9, <2>1, <2>2
<1> QED
  BY <1>8, <1>12, <1>15, <1>17, <1>18, <1>19, <1>20 DEF Inv, Laid
-----------------------------------------------------------------------------
(* The theorems *)

\* The invariant holds before anybody has registered.
LEMMA InitInv ==
  ASSUME Init
  PROVE  Inv
<1>1. IsFiniteSet(Clients) /\ NPages \in Nat /\ Server = 0 /\ Procs \subseteq Nat
      /\ Clients \subseteq Nat \ {0} /\ Clients \subseteq Procs
  BY ClientsAssumption, FS_CardinalityType DEF NPages, Server, Procs
<1>2. \A c : PageOf(c) \in Nat
  BY <1>1, FS_Subset, FS_CardinalityType DEF PageOf
<1> DEFINE pages == [i \in 1..NPages |-> Times(PageSize, 0)]
           page0 == Times(PageSize, 0)
           own(p) == <<[type |-> "process", id |-> p], [type |-> "vmspace", id |-> p]>>
           given(p) == <<[type |-> "thread", id |-> Server], [type |-> "pmo", id |-> PageOf(p)]>>
           table(p) == own(p) \o IF p = Server THEN <<>> ELSE given(p)
<1>3. /\ k = [pmos |-> pages, caps |-> [p \in Procs |-> table(p)], maps |-> [p \in Procs |-> {}]]
      /\ config = Nobody /\ conns = <<>>
      /\ at = [c \in Clients |-> [pc |-> "start", conn_cap |-> -1, page |-> 3, calls |-> 0,
                                 send |-> Nobody, arg |-> -1, ret |-> 0]]
  BY DEF Init, NPages
<1>4. pages \in Seq(Seq(Int)) /\ Len(pages) = NPages
  <2>1. page0 \in Seq(Int)
    <3>1. page0 \in [1..PageSize -> Int]
      BY DEF Times
    <3> HIDE DEF page0
    <3> QED
      BY <3>1, SeqDef, Sizes
  <2> HIDE DEF page0
  <2>2. pages \in [1..NPages -> Seq(Int)]
    BY <2>1 DEF page0
  <2> HIDE DEF pages
  <2> QED
    BY <1>1, <2>2, SeqDef, LenProperties
<1> HIDE DEF pages, page0
<1>5. ASSUME NEW p \in Procs PROVE table(p) \in Seq(Cap)
  <2>1. p \in Nat /\ PageOf(p) \in Nat /\ Server \in Nat
    BY <1>1, <1>2
  <2>2. own(p) \in Seq(Cap)
    BY <2>1 DEF Cap
  <2>3. given(p) \in Seq(Cap)
    BY <2>1 DEF Cap
  <2> HIDE DEF own, given
  <2> QED
    BY <2>2, <2>3
<1>6. ASSUME NEW c \in Clients
      PROVE  Len(table(c)) = 4 /\ table(c)[4] = [type |-> "pmo", id |-> PageOf(c)]
  <2>1. c # Server
    BY <1>1
  <2> DEFINE paper == [type |-> "pmo", id |-> PageOf(c)]
             a == own(c)
             g == given(c)
  <2>2. Len(a) = 2 /\ Len(g) = 2 /\ g[2] = paper /\ table(c) = a \o g
    BY <2>1
  <2>3. a \in Seq(Cap) /\ g \in Seq(Cap)
    <3>1. c \in Nat /\ PageOf(c) \in Nat /\ Server \in Nat
      BY <1>1, <1>2
    <3> QED
      BY <3>1 DEF Cap
  <2> HIDE DEF a, g, paper, own, given, table
  <2>4. /\ Len(a \o g) = Len(a) + Len(g)
        /\ \A j \in 1..(Len(a) + Len(g)) :
              (a \o g)[j] = IF j <= Len(a) THEN a[j] ELSE g[j - Len(a)]
    BY <2>3, ConcatProperties
  <2>5. Len(a \o g) = 4 /\ 4 \in 1..(Len(a) + Len(g)) /\ ~(4 <= Len(a)) /\ 4 - Len(a) = 2
    BY <2>2, <2>4
  <2>6. (a \o g)[4] = g[2]
    BY <2>4, <2>5
  <2> QED
    BY <2>2, <2>5, <2>6 DEF paper
<1> HIDE DEF table
<1>7. TypeOK
  <2>1. Typed(k)
    BY <1>3, <1>4, <1>5 DEF Typed
  <2>2. at \in [Clients -> ClientStates]
    BY <1>3 DEF ClientStates, Places
  <2> QED
    BY <1>3, <2>1, <2>2 DEF TypeOK
<1>8. Registered = {} /\ Len(conns) = 0
  BY <1>3 DEF Registered
<1>9. Bitmap
  BY <1>3, <1>8, FS_EmptySet DEF Bitmap
<1>10. Laid
  <2>1. 1..0 = {}
    OBVIOUS
  <2>2. Len(k.pmos) = NPages + 2 * 0
    BY <1>1, <1>3, <1>4
  <2>3. k.maps[Server] = {} /\ \A c \in Clients : k.maps[c] = {}
    BY <1>1, <1>3 DEF Procs
  <2>4. ObjectsLaid
    BY <1>8, <2>1, <2>2 DEF ObjectsLaid
  <2>5. RegionsLaid
    BY <1>8, <2>1, <2>3 DEF RegionsLaid
  <2> QED
    BY <2>4, <2>5 DEF Laid
<1>11. Named
  <2>1. ASSUME NEW c \in Clients PROVE Names(k, c, 3, "pmo", PageOf(c))
    <3>1. k.caps[c] = table(c)
      BY <1>1, <1>3
    <3> QED
      BY <1>6, <3>1 DEF Names
  <2> QED
    BY <1>8, <2>1 DEF Named
<1> QED
  BY <1>7, <1>8, <1>9, <1>10, <1>11 DEF Inv

\* Every step keeps the invariant.
LEMMA NextInv ==
  ASSUME Inv, [Next]_vars
  PROVE  Inv'
<1>1. CASE UNCHANGED vars
  <2>1. Bitmap'
    BY <1>1 DEF vars, Inv, Bitmap, Registered
  <2> QED
    BY <1>1, <2>1, StillKeeps DEF vars
<1>2. CASE RegisterServer
  BY <1>2, RegisterServerKeeps
<1>3. ASSUME NEW c \in Clients, RegisterClient(c) PROVE Inv'
  BY <1>3, RegisterClientKeeps
<1>4. ASSUME NEW c \in Clients, FillMsg(c) PROVE Inv'
  BY <1>4, FillKeeps
<1>5. ASSUME NEW c \in Clients, Call(c) PROVE Inv'
  BY <1>5, CallKeeps
<1>6. ASSUME NEW c \in Clients, Handle(c) PROVE Inv'
  BY <1>6, HandleKeeps
<1>7. ASSUME NEW c \in Clients, Echo(c) PROVE Inv'
  BY <1>7, EchoKeeps
<1>8. ASSUME NEW c \in Clients, Return(c) PROVE Inv'
  BY <1>8, ReturnKeeps
<1>9. ASSUME NEW c \in Clients, NEW send \in Sends, CreateMsg(c, send) PROVE Inv'
  BY <1>9, CreateKeeps
<1>10. ASSUME NEW c \in Clients, RegCall(c, c) PROVE Inv'
  BY <1>10, RegCallKeeps
<1> QED
  BY <1>1, <1>2, <1>3, <1>4, <1>5, <1>6, <1>7, <1>8, <1>9, <1>10 DEF Next

\* Wherever the clients, the server and the kernel are: what the i-th connection has follows
\* from i alone, and its buffer holds what its client has put into it and no one else.
THEOREM ConnectionsInvariant == Spec => []Inv
<1>1. Init => Inv
  BY InitInv
<1>2. Inv /\ [Next]_vars => Inv'
  BY NextInv
<1> QED
  BY <1>1, <1>2, PTL DEF Spec

\* Both ends of each connection are the same memory, which no other connection has, and
\* each shadow thread has a stack of its own, although nobody looks at whether the
\* mappings of create_connection() succeed: none of them fails.
THEOREM EndpointsStayTogether == Spec => []EndpointsAgree
<1>1. ASSUME Inv PROVE EndpointsAgree
  <2> SUFFICES ASSUME NEW i \in 1..Len(conns)
               PROVE  /\ \A cell \in 0..(BufSize - 1) :
                            /\ Mapped(conns[i].client, conns[i].client_user_addr + cell) = {conns[i].buf}
                            /\ Mapped(Server, conns[i].server_user_addr + cell) = {conns[i].buf}
                      /\ \A below \in 1..StackSize :
                            Mapped(Server, conns[i].server_stack_top - below) = {conns[i].stack}
    <3>1. DOMAIN conns = 1..Len(conns)
      BY <1>1 DEF Inv, TypeOK
    <3> QED
      BY <3>1 DEF EndpointsAgree
  <2>1. TypeOK /\ Bitmap /\ Laid
    BY <1>1 DEF Inv
  <2>2. /\ conns[i].client_user_addr = ClientBuf
        /\ conns[i].stack = StackOf(i) /\ conns[i].buf = BufOf(i)
    BY <2>1 DEF Laid, ObjectsLaid
  <2>3. \A r : {vmr.pmo : vmr \in {r}} = {r.pmo}
    OBVIOUS
  <2>4. /\ ClientRegion(i).pmo = BufOf(i) /\ BufRegion(i).pmo = BufOf(i)
        /\ StackRegion(i).pmo = StackOf(i)
    BY DEF ClientRegion, BufRegion, StackRegion
  <2>5. ASSUME NEW cell \in 0..(BufSize - 1)
        PROVE  Mapped(conns[i].client, conns[i].client_user_addr + cell) = {conns[i].buf}
    <3>1. RegionsAt(k, conns[i].client, ClientBuf + cell) = {ClientRegion(i)}
      BY <2>1, ClientMemory
    <3> QED
      BY <2>2, <2>3, <2>4, <3>1 DEF Mapped
  <2>6. ASSUME NEW cell \in 0..(BufSize - 1)
        PROVE  Mapped(Server, conns[i].server_user_addr + cell) = {conns[i].buf}
    <3>1. RegionsAt(k, Server, conns[i].server_user_addr + cell) = {BufRegion(i)}
      BY <2>1, ServerMemory
    <3> QED
      BY <2>2, <2>3, <2>4, <3>1 DEF Mapped
  <2>7. ASSUME NEW below \in 1..StackSize
        PROVE  Mapped(Server, conns[i].server_stack_top - below) = {conns[i].stack}
    <3>1. RegionsAt(k, Server, conns[i].server_stack_top - below) = {StackRegion(i)}
      BY <2>1, ServerMemory
    <3> QED
      BY <2>2, <2>3, <2>4, <3>1 DEF Mapped
  <2> QED
    BY <2>5, <2>6, <2>7
<1> QED
  BY <1>1, ConnectionsInvariant, PTL

\* The server's handler finds the message that its client built, with the capabilities that
\* the client meant under the server's numbers, and the client gets the answer to its call.
THEOREM MessagesArrive == Spec => []MessageArrives
<1>1. ASSUME Inv PROVE MessageArrives
  <2> SUFFICES ASSUME NEW c \in Clients
               PROVE  /\ at[c].pc = "served" =>
                            /\ AsBuilt(at[c].send, at[c].arg)
                            /\ NamesTranslated(c, at[c].send.caps, at[c].arg)
                      /\ at[c].pc = "back" => at[c].ret = Answer(at[c].send)
    BY DEF MessageArrives
  <2>1. CASE at[c].pc = "served"
    <3> DEFINE send == at[c].send
               msg == at[c].arg
    <3>1. PICK i \in 1..Len(conns) : /\ conns[i].client = c
                                     /\ Names(k, c, at[c].conn_cap, "connection", i)
                                     /\ Names(k, Server, conns[i].server_conn_cap, "connection", i)
      BY <1>1, <2>1, Connected
    <3> DEFINE B == k.pmos[BufOf(i)]
    <3>2. /\ send \in Sends /\ HeaderIs(B, send) /\ DataIs(B, send)
      BY <1>1, <2>1, <3>1, MessageAt
    <3>3. /\ msg = conns[i].server_user_addr /\ B[ServerConnCap + 1] = conns[i].server_conn_cap
          /\ SlotsName(k, B, send, PageOf(c))
      <4>1. Told(i)
        BY <1>1 DEF Inv
      <4> QED
        BY <2>1, <3>1, <4>1 DEF Told
    <3>4. <<Server, msg>> \in Ends(i)
      BY <3>3 DEF Ends
    <3> HIDE DEF send, msg, B
    <3>5. Reads(Server, msg, B, send)
      BY <1>1, <3>2, <3>4, MessageRead DEF B
    <3>6. send.data \in Seq(Int) /\ send.caps \in Seq({"page", "unset"})
      BY <3>2, MessagesAssumption
    <3>7. AsBuilt(send, msg)
      <4>1. DOMAIN send.data = 1..Len(send.data)
        BY <3>6
      <4> QED
        BY <3>2, <3>5, <4>1 DEF AsBuilt, Reads, DataIs
    <3>8. /\ \A p \in Procs : DOMAIN k.caps[p] = 1..Len(k.caps[p]) /\ Len(k.caps[p]) \in Nat
          /\ Server \in Procs /\ c \in Procs
      <4>1. k.caps \in [Procs -> Seq(Cap)] /\ Server \in Procs /\ c \in Procs
        BY <1>1 DEF Inv, TypeOK, Typed, Procs
      <4>2. ASSUME NEW p \in Procs
            PROVE  DOMAIN k.caps[p] = 1..Len(k.caps[p]) /\ Len(k.caps[p]) \in Nat
        <5>1. k.caps[p] \in Seq(Cap)
          BY <4>1
        <5> QED
          BY <5>1
      <4> QED
        BY <4>1, <4>2
    <3>9. \A p \in Procs : \A cap, type, id :
             Names(k, p, cap, type, id) => Obj(k, p, cap, type) = id
      BY <3>8 DEF Names, Obj
    <3>10. ASSUME NEW j \in DOMAIN send.caps
           PROVE  Obj(k, Server, SlotAt(Server, msg, j), "pmo")
                      = IF send.caps[j] = "page" THEN PageOf(c) ELSE Nobody
      <4>1. j \in 1..Len(send.caps)
        BY <3>6
      <4> DEFINE slot == B[Header + Len(send.data) + j]
      <4>2. /\ SlotAt(Server, msg, j) = slot
            /\ IF send.caps[j] = "page" THEN Names(k, Server, slot, "pmo", PageOf(c))
               ELSE slot = ECAPBILITY
        BY <3>3, <3>5, <4>1 DEF Reads, SlotsName
      <4> HIDE DEF slot
      <4>3. CASE send.caps[j] = "page"
        BY <3>8, <3>9, <4>2, <4>3
      <4>4. CASE send.caps[j] # "page"
        <5>1. ECAPBILITY + 1 \notin DOMAIN k.caps[Server]
          BY <3>8 DEF ECAPBILITY
        <5> QED
          BY <4>2, <4>4, <5>1 DEF Obj
      <4> QED
        BY <4>3, <4>4
    <3>11. Obj(k, Server, Field(Server, msg, ServerConnCap), "connection")
              = Obj(k, c, at[c].conn_cap, "connection")
      <4>1. Field(Server, msg, ServerConnCap) = conns[i].server_conn_cap
        BY <3>3, <3>5 DEF Reads
      <4> QED
        BY <3>1, <3>8, <3>9, <4>1
    <3> QED
      BY <2>1, <3>7, <3>10, <3>11 DEF NamesTranslated, send, msg
  <2>2. CASE at[c].pc = "back"
    <3>1. PICK i \in 1..Len(conns) : conns[i].client = c
      BY <1>1, <2>2, Connected
    <3>2. Told(i)
      BY <1>1 DEF Inv
    <3> QED
      BY <2>2, <3>1, <3>2 DEF Told
  <2> QED
    BY <2>1, <2>2
<1> QED
  BY <1>1, ConnectionsInvariant, PTL
=============================================================================
