-------------------------- MODULE CapabilityProofs --------------------------
(***************************************************************************)
(* Capabilities, proved for any number of processes, objects and slots: a  *)
(* count is the number of slots that name the object, a process has given  *)
(* up all its capabilities when it is freed, and what threads and calls    *)
(* refer to without counting it is there as long as they are.              *)
(*                                                                         *)
(* The functions of capability.c map a State to a State; Counted is what   *)
(* each of them keeps, whatever loop calls it.  The loops are folds, which *)
(* a least-element argument takes one slot at a time.                      *)
(***************************************************************************)
EXTENDS Capability, DataLemmas, FiniteSetTheorems, NaturalsInduction

MemStates == {"unused", "allocated", "freed"}

Shapes == [slots : [Processes -> [SlotIds -> Objects \cup {Null}]],
           copies : [Objects -> SUBSET (Processes \X SlotIds)],
           refcount : [Objects -> Nat],
           mem : [Objects -> MemStates]]

\* Counts are exact but for one more reference to the object h (or to none).
Counted(s, h) ==
    /\ s \in Shapes
    /\ \A o \in Objects :
          /\ IsFiniteSet(s.copies[o])
          /\ s.refcount[o] = Cardinality(s.copies[o]) + (IF o = h THEN 1 ELSE 0)
          /\ s.mem[o] = "allocated" <=> s.refcount[o] > 0
          /\ \A p \in Processes, i \in SlotIds :
                <<p, i>> \in s.copies[o] <=> s.slots[p][i] = o

\* A process that has not exited has the capabilities to itself and to its address
\* space in their places; one that has exited, or has not been made, has none.
TablesFit(s) ==
    \A p \in Processes :
        \/ s.slots[p][PROCESS_OBJ_ID] = p /\ s.slots[p][VMSPACE_OBJ_ID] \in Vmspaces
        \/ \A i \in SlotIds : s.slots[p][i] = Null

Named(s, p, o) == p \in Processes /\ \E i \in SlotIds : s.slots[p][i] = o

\* A thread is named in the table of its process until it exits, a connection in that
\* of its server until the server does.
AgentsFit(s, proc, ex) ==
    /\ \A t \in Threads : /\ s.mem[t] = "allocated" => Named(s, proc[t], t)
                          /\ s.mem[t] = "freed" <=> t \in ex
    /\ \A c \in Connections : s.mem[c] # "unused" =>
          /\ proc[c] \in Processes /\ s.mem[proc[c]] # "unused"
          /\ s.slots[proc[c]][PROCESS_OBJ_ID] = proc[c] => Named(s, proc[c], c)

\* A server does not exit while it serves, nor the caller.
CallsFit(s, proc, src) ==
    \A c \in Connections : src[c] # Null =>
        /\ s.mem[c] # "unused" /\ s.slots[proc[c]][PROCESS_OBJ_ID] = proc[c]
        /\ src[c] \in Threads => s.mem[src[c]] = "allocated"

Fits(s, proc, ex, src) ==
    /\ Counted(s, Null) /\ TablesFit(s)
    /\ AgentsFit(s, proc, ex) /\ CallsFit(s, proc, src)

\* The inductive invariant.
CapInv ==
    /\ Fits(State, process, exited, source)
    /\ process \in [Agents -> Processes \cup {Null}]
    /\ source \in [Connections -> Agents \cup {Null}]
-----------------------------------------------------------------------------
\* alloc_slot_id()
LEMMA FreeSlotIs ==
  ASSUME NEW s, NEW p, \E i \in SlotIds : s.slots[p][i] = Null
  PROVE  /\ FreeSlot(s, p) \in SlotIds /\ s.slots[p][FreeSlot(s, p)] = Null
         /\ \A j \in SlotIds : j < FreeSlot(s, p) => s.slots[p][j] # Null
<1> DEFINE free == {i \in SlotIds : s.slots[p][i] = Null}
<1>1. SlotIds \subseteq Nat
  BY CapAssumption DEF SlotIds
<1>2. \E i \in free : \A j \in free : i <= j
  BY <1>1, LeastNat
<1>3. FreeSlot(s, p) \in free /\ \A j \in free : FreeSlot(s, p) <= j
  BY <1>2 DEF FreeSlot, Min
<1>4. FreeSlot(s, p) \in Nat
  BY <1>1, <1>3
<1>5. ASSUME NEW j \in SlotIds, j < FreeSlot(s, p), s.slots[p][j] = Null PROVE FALSE
  <2>1. FreeSlot(s, p) <= j /\ j \in Nat
    BY <1>1, <1>3, <1>5
  <2> QED
    BY <1>4, <1>5, <2>1
<1> QED
  BY <1>3, <1>5

\* HasRoom() for one slot, and for one more when one is used.
LEMMA RoomIs ==
  ASSUME NEW p, NEW n \in {1, 2}, HasRoom(p, n)
  PROVE  /\ \E i \in SlotIds : slots[p][i] = Null
         /\ n = 2 => \A i \in SlotIds : \E j \in SlotIds : j # i /\ slots[p][j] = Null
<1> DEFINE free == {i \in SlotIds : slots[p][i] = Null}
<1>1. IsFiniteSet(SlotIds)
  BY CapAssumption, FS_Interval DEF SlotIds
<1>2. IsFiniteSet(free) /\ Cardinality(free) \in Nat /\ Cardinality(free) >= n
  BY <1>1, FS_Subset, FS_CardinalityType DEF HasRoom
<1>3. free # {}
  BY <1>2, FS_EmptySet
<1>4. ASSUME n = 2, NEW i \in SlotIds PROVE \E j \in free : j # i
  <2> SUFFICES ASSUME \A j \in free : j = i PROVE FALSE
    OBVIOUS
  <2>1. free = {i}
    BY <1>3
  <2>2. Cardinality(free) = 1
    BY <2>1, FS_Singleton
  <2> QED
    BY <1>2, <1>4, <2>2
<1> QED
  BY <1>3, <1>4

\* What CapFreeAll is: the fold over the subsets of S exists.
LEMMA FoldExists ==
  ASSUME NEW s, NEW S, IsFiniteSet(S)
  PROVE  \E g : /\ g = [T \in SUBSET S |->
                          IF T = {} THEN s
                          ELSE LET c == CHOOSE x \in T : TRUE
                               IN  CapFree(g[T \ {c}], c[1], c[2])]
                /\ CapFreeAll(s, S) = g[S]
<1> DEFINE Pick(T) == CHOOSE x \in T : TRUE
           Body(g, T) == IF T = {} THEN s ELSE CapFree(g[T \ {Pick(T)}], Pick(T)[1], Pick(T)[2])
           Upto(n) == {T \in SUBSET S : Cardinality(T) <= n}
           Bad == {n \in Nat : ~ \E g : g = [T \in Upto(n) |-> Body(g, T)]}
<1>1. \A T \in SUBSET S : IsFiniteSet(T) /\ Cardinality(T) \in Nat /\ Cardinality(T) <= Cardinality(S)
  BY FS_Subset, FS_CardinalityType
<1>2. \A T \in SUBSET S : T # {} =>
         /\ T \ {Pick(T)} \in SUBSET S
         /\ Cardinality(T \ {Pick(T)}) = Cardinality(T) - 1
  <2> SUFFICES ASSUME NEW T \in SUBSET S, T # {}
               PROVE  /\ T \ {Pick(T)} \in SUBSET S
                      /\ Cardinality(T \ {Pick(T)}) = Cardinality(T) - 1
    OBVIOUS
  <2>1. Pick(T) \in T
    OBVIOUS
  <2> HIDE DEF Pick
  <2> QED
    BY <1>1, <2>1, FS_RemoveElement
<1>3. Bad = {}
  <2> SUFFICES ASSUME Bad # {} PROVE FALSE
    OBVIOUS
  <2>1. PICK n \in Bad : \A m \in Bad : n <= m
    <3>1. Bad \subseteq Nat
      OBVIOUS
    <3> HIDE DEF Bad
    <3> QED
      BY <3>1, LeastNat
  <2>2. n \in Nat /\ ~ \E g : g = [T \in Upto(n) |-> Body(g, T)]
    OBVIOUS
  <2>3. CASE n = 0
    <3>1. \A T \in Upto(0) : T = {}
      BY <1>1, FS_EmptySet
    <3> DEFINE g == [T \in Upto(0) |-> s]
    <3>2. g = [T \in Upto(0) |-> Body(g, T)]
      BY <3>1
    <3> QED
      BY <2>2, <2>3, <3>2
  <2>4. CASE n # 0
    <3>1. n - 1 \in Nat /\ n - 1 \notin Bad
      <4> HIDE DEF Bad
      <4> QED
        BY <2>1, <2>2, <2>4
    <3>2. PICK g : g = [T \in Upto(n - 1) |-> Body(g, T)]
      BY <3>1
    <3> DEFINE h == [T \in Upto(n) |-> Body(g, T)]
    <3>3. ASSUME NEW T \in Upto(n), T # {}
          PROVE  h[T \ {Pick(T)}] = g[T \ {Pick(T)}]
      <4> DEFINE U == T \ {Pick(T)}
      <4>1. U \in SUBSET S /\ Cardinality(U) = Cardinality(T) - 1
        BY <1>2, <3>3
      <4>2. Cardinality(U) \in Nat /\ Cardinality(T) \in Nat /\ Cardinality(T) <= n
        BY <1>1, <4>1
      <4>3. U \in Upto(n - 1) /\ U \in Upto(n)
        <5> HIDE DEF U
        <5> QED
          BY <2>2, <4>1, <4>2
      <4> HIDE DEF U, Body
      <4>4. h[U] = Body(g, U)
        BY <4>3
      <4>5. g[U] = Body(g, U)
        BY <3>2, <4>3
      <4> QED
        BY <4>4, <4>5 DEF U
    <3>4. \A T \in Upto(n) : Body(h, T) = Body(g, T)
      <4> HIDE DEF h, Pick
      <4> QED
        BY <3>3
    <3>5. h = [T \in Upto(n) |-> Body(h, T)]
      <4> HIDE DEF Body, Upto
      <4>1. h = [T \in Upto(n) |-> Body(g, T)]
        OBVIOUS
      <4> HIDE DEF h
      <4> QED
        BY <3>4, <4>1, Zenon
    <3> HIDE DEF h, Body
    <3> QED
      BY <2>2, <3>5
  <2> QED
    BY <2>3, <2>4
<1>4. Upto(Cardinality(S)) = SUBSET S
  BY <1>1
<1>5. \E g : g = [T \in SUBSET S |-> Body(g, T)]
  <2>1. Cardinality(S) \in Nat
    BY FS_CardinalityType
  <2>2. \E g : g = [T \in Upto(Cardinality(S)) |-> Body(g, T)]
    BY <1>3, <2>1
  <2> HIDE DEF Body, Upto
  <2> QED
    BY <1>4, <2>2
<1> DEFINE iter == CHOOSE g : g = [T \in SUBSET S |-> Body(g, T)]
<1>6. iter = [T \in SUBSET S |-> Body(iter, T)]
  <2> HIDE DEF Body
  <2> QED
    BY <1>5
<1>7. CapFreeAll(s, S) = iter[S]
  BY Zenon DEF CapFreeAll, FoldSet, MapThenFoldSet
<1> HIDE DEF iter
<1> QED
  BY <1>6, <1>7

-----------------------------------------------------------------------------
\* What freeing the slots cs does to the tables and to memory.
Cleared(s, s2, cs) ==
    /\ \A p \in Processes, i \in SlotIds :
          s2.slots[p][i] = IF <<p, i>> \in cs THEN Null ELSE s.slots[p][i]
    /\ \A o \in Objects : \/ s2.mem[o] = s.mem[o]
                          \/ s.mem[o] = "allocated" /\ s2.mem[o] = "freed"

\* obj_put() of an object that is counted.
LEMMA PutIs ==
  ASSUME NEW s \in Shapes, NEW o \in Objects, s.refcount[o] > 0
  PROVE  LET r == ObjPut(s, o)
         IN  /\ r \in Shapes /\ r.slots = s.slots /\ r.copies = s.copies
             /\ \A u \in Objects :
                   /\ r.refcount[u] = IF u = o THEN s.refcount[u] - 1 ELSE s.refcount[u]
                   /\ r.mem[u] = IF u = o /\ s.refcount[o] = 1 THEN "freed" ELSE s.mem[u]
<1> DEFINE r == ObjPut(s, o)
<1>1. s.refcount[o] - 1 \in Nat
  BY DEF Shapes
<1>2. r \in Shapes
  BY <1>1 DEF ObjPut, Shapes, MemStates
<1>3. r.slots = s.slots /\ r.copies = s.copies
  BY DEF ObjPut, Shapes
<1>4. /\ r.refcount = [s.refcount EXCEPT ![o] = @ - 1]
      /\ r.mem = [s.mem EXCEPT ![o] = IF s.refcount[o] = 1 THEN "freed" ELSE @]
  BY DEF ObjPut, Shapes
<1> HIDE DEF r
<1>5. \A u \in Objects :
         /\ r.refcount[u] = IF u = o THEN s.refcount[u] - 1 ELSE s.refcount[u]
         /\ r.mem[u] = IF u = o /\ s.refcount[o] = 1 THEN "freed" ELSE s.mem[u]
  BY <1>4 DEF Shapes
<1> QED
  BY <1>2, <1>3, <1>5 DEF r

\* cap_free() up to the deinit function keeps the counts.
LEMMA CapFreeKeeps ==
  ASSUME NEW s, NEW h, Counted(s, h),
         NEW p \in Processes, NEW i \in SlotIds, s.slots[p][i] # Null
  PROVE  Counted(CapFree(s, p, i), h) /\ Cleared(s, CapFree(s, p, i), {<<p, i>>})
<1> DEFINE o == s.slots[p][i]
           s1 == [s EXCEPT !.slots[p][i] = Null, !.copies[o] = @ \ {<<p, i>>}]
           r == CapFree(s, p, i)
<1>1. /\ s.slots \in [Processes -> [SlotIds -> Objects \cup {Null}]]
      /\ s.copies \in [Objects -> SUBSET (Processes \X SlotIds)]
      /\ s.refcount \in [Objects -> Nat] /\ s.mem \in [Objects -> MemStates]
  BY DEF Counted, Shapes
<1>2. o \in Objects
  BY <1>1
<1>3. /\ s1.slots = [s.slots EXCEPT ![p][i] = Null]
      /\ s1.copies = [s.copies EXCEPT ![o] = @ \ {<<p, i>>}]
      /\ s1.refcount = s.refcount /\ s1.mem = s.mem
  <2>1. s \in Shapes
    BY DEF Counted
  <2> HIDE DEF o
  <2>2. s1.slots = [s.slots EXCEPT ![p][i] = Null]
    BY <2>1 DEF Shapes
  <2>3. s1.copies = [s.copies EXCEPT ![o] = @ \ {<<p, i>>}]
    BY <2>1 DEF Shapes
  <2>4. s1.refcount = s.refcount /\ s1.mem = s.mem
    BY <2>1 DEF Shapes
  <2> QED
    BY <2>2, <2>3, <2>4
<1>4. s1 \in Shapes
  <2>1. s \in Shapes
    BY DEF Counted
  <2> HIDE DEF o
  <2> QED
    BY <1>2, <2>1 DEF Shapes
<1>5. /\ \A q \in Processes, j \in SlotIds :
            s1.slots[q][j] = IF q = p /\ j = i THEN Null ELSE s.slots[q][j]
      /\ \A u \in Objects : s1.copies[u] = IF u = o THEN s.copies[u] \ {<<p, i>>} ELSE s.copies[u]
  <2> HIDE DEF o, s1
  <2>1. ASSUME NEW q \in Processes, NEW j \in SlotIds
        PROVE  s1.slots[q][j] = IF q = p /\ j = i THEN Null ELSE s.slots[q][j]
    BY <1>1, <1>3
  <2>2. ASSUME NEW u \in Objects
        PROVE  s1.copies[u] = IF u = o THEN s.copies[u] \ {<<p, i>>} ELSE s.copies[u]
    BY <1>1, <1>3
  <2> QED
    BY <2>1, <2>2
<1>6. \A u \in Objects :
         /\ IsFiniteSet(s.copies[u])
         /\ s.refcount[u] = Cardinality(s.copies[u]) + (IF u = h THEN 1 ELSE 0)
         /\ s.mem[u] = "allocated" <=> s.refcount[u] > 0
         /\ \A q \in Processes, j \in SlotIds : <<q, j>> \in s.copies[u] <=> s.slots[q][j] = u
  BY DEF Counted
<1>7. r = ObjPut(s1, o)
  BY DEF CapFree
<1> HIDE DEF o, s1, r
<1>8. <<p, i>> \in s.copies[o]
  BY <1>2, <1>6 DEF o
<1>9. /\ IsFiniteSet(s.copies[o] \ {<<p, i>>})
      /\ Cardinality(s.copies[o] \ {<<p, i>>}) = Cardinality(s.copies[o]) - 1
      /\ Cardinality(s.copies[o]) \in Nat /\ Cardinality(s.copies[o]) > 0
  <2>1. IsFiniteSet(s.copies[o]) /\ s.copies[o] # {}
    BY <1>2, <1>6, <1>8
  <2>2. Cardinality(s.copies[o]) \in Nat /\ Cardinality(s.copies[o]) # 0
    BY <2>1, FS_CardinalityType, FS_EmptySet
  <2>3. /\ IsFiniteSet(s.copies[o] \ {<<p, i>>})
        /\ Cardinality(s.copies[o] \ {<<p, i>>}) = Cardinality(s.copies[o]) - 1
    BY <1>8, <2>1, FS_RemoveElement, FS_Subset
  <2>4. Cardinality(s.copies[o]) > 0
    BY <2>2
  <2> QED
    BY <2>2, <2>3, <2>4
<1>10. s.refcount[o] > 0
  BY <1>2, <1>6, <1>9
<1>11. /\ r \in Shapes
       /\ r.slots = s1.slots /\ r.copies = s1.copies
       /\ \A u \in Objects :
             /\ r.refcount[u] = IF u = o THEN s.refcount[u] - 1 ELSE s.refcount[u]
             /\ r.mem[u] = IF u = o /\ s.refcount[o] = 1 THEN "freed" ELSE s.mem[u]
  BY <1>2, <1>3, <1>4, <1>7, <1>10, PutIs
<1>12. ASSUME NEW u \in Objects
       PROVE  /\ IsFiniteSet(r.copies[u])
              /\ r.refcount[u] = Cardinality(r.copies[u]) + (IF u = h THEN 1 ELSE 0)
              /\ r.mem[u] = "allocated" <=> r.refcount[u] > 0
  <2>1. CASE u = o
    <3>1. r.copies[o] = s.copies[o] \ {<<p, i>>} /\ r.refcount[o] = s.refcount[o] - 1
      BY <1>2, <1>5, <1>11
    <3>2. s.refcount[o] \in Nat /\ s.mem[o] = "allocated"
      BY <1>1, <1>2, <1>6, <1>10
    <3>3. r.mem[o] = "allocated" <=> r.refcount[o] > 0
      BY <3>1, <3>2, <1>2, <1>10, <1>11
    <3>4. r.refcount[o] = Cardinality(r.copies[o]) + (IF o = h THEN 1 ELSE 0)
      BY <3>1, <1>2, <1>6, <1>9
    <3> QED
      BY <2>1, <3>1, <3>3, <3>4, <1>9
  <2>2. CASE u # o
    <3>1. r.copies[u] = s.copies[u] /\ r.refcount[u] = s.refcount[u] /\ r.mem[u] = s.mem[u]
      BY <2>2, <1>5, <1>11
    <3> QED
      BY <3>1, <1>6
  <2> QED
    BY <2>1, <2>2
<1>13. ASSUME NEW u \in Objects, NEW q \in Processes, NEW j \in SlotIds
       PROVE  <<q, j>> \in r.copies[u] <=> r.slots[q][j] = u
  <2>1. /\ <<q, j>> \in s.copies[u] <=> s.slots[q][j] = u
        /\ r.slots[q][j] = IF q = p /\ j = i THEN Null ELSE s.slots[q][j]
        /\ r.copies[u] = IF u = o THEN s.copies[u] \ {<<p, i>>} ELSE s.copies[u]
    <3>1. <<q, j>> \in s.copies[u] <=> s.slots[q][j] = u
      BY <1>6
    <3>2. r.slots[q][j] = IF q = p /\ j = i THEN Null ELSE s.slots[q][j]
      BY <1>5, <1>11
    <3>3. r.copies[u] = IF u = o THEN s.copies[u] \ {<<p, i>>} ELSE s.copies[u]
      BY <1>5, <1>11
    <3> QED
      BY <3>1, <3>2, <3>3
  <2>2. CASE q = p /\ j = i
    <3>1. u # Null /\ s.slots[q][j] = o
      BY <2>2, ObjectsHaveOneType DEF Objects, o
    <3> QED
      BY <2>1, <2>2, <3>1
  <2>3. CASE ~(q = p /\ j = i)
    BY <2>1, <2>3
  <2> QED
    BY <2>2, <2>3
<1>14. Counted(r, h)
  BY <1>11, <1>12, <1>13 DEF Counted
<1>15. Cleared(s, r, {<<p, i>>})
  <2>1. ASSUME NEW u \in Objects
        PROVE  r.mem[u] = s.mem[u] \/ (s.mem[u] = "allocated" /\ r.mem[u] = "freed")
    <3>1. s.mem[o] = "allocated"
      BY <1>2, <1>6, <1>10
    <3>2. r.mem[u] = IF u = o /\ s.refcount[o] = 1 THEN "freed" ELSE s.mem[u]
      BY <1>11
    <3> QED
      BY <3>1, <3>2
  <2>2. \A q \in Processes, j \in SlotIds :
           r.slots[q][j] = IF <<q, j>> \in {<<p, i>>} THEN Null ELSE s.slots[q][j]
    BY <1>5, <1>11
  <2> QED
    BY <2>1, <2>2 DEF Cleared
<1> QED
  BY <1>14, <1>15 DEF r

\* The loops of process_exit() and obj_free(): whatever the order of the slots.
LEMMA CapFreeAllKeeps ==
  ASSUME NEW s, NEW h, Counted(s, h),
         NEW cs \in SUBSET (Processes \X SlotIds), IsFiniteSet(cs),
         \A c \in cs : s.slots[c[1]][c[2]] # Null
  PROVE  Counted(CapFreeAll(s, cs), h) /\ Cleared(s, CapFreeAll(s, cs), cs)
<1> DEFINE Pick(T) == CHOOSE x \in T : TRUE
<1>1. PICK g : /\ g = [T \in SUBSET cs |->
                         IF T = {} THEN s
                         ELSE LET c == CHOOSE x \in T : TRUE
                              IN  CapFree(g[T \ {c}], c[1], c[2])]
               /\ CapFreeAll(s, cs) = g[cs]
  BY FoldExists
<1> DEFINE Good(T) == Counted(g[T], h) /\ Cleared(s, g[T], T)
           Bad == {n \in Nat : \E T \in SUBSET cs : Cardinality(T) = n /\ ~Good(T)}
<1>2. \A T \in SUBSET cs : IsFiniteSet(T) /\ Cardinality(T) \in Nat
  BY FS_Subset, FS_CardinalityType
<1>3. Bad = {}
  <2> SUFFICES ASSUME Bad # {} PROVE FALSE
    OBVIOUS
  <2>1. PICK n \in Bad : \A m \in Bad : n <= m
    <3>1. Bad \subseteq Nat
      OBVIOUS
    <3> HIDE DEF Bad
    <3> QED
      BY <3>1, LeastNat
  <2>2. PICK T \in SUBSET cs : Cardinality(T) = n /\ ~Good(T)
    OBVIOUS
  <2>3. CASE T = {}
    <3>1. g[T] = s
      BY <1>1, <2>3
    <3>2. Cleared(s, s, {})
      BY DEF Cleared
    <3> QED
      BY <2>2, <2>3, <3>1, <3>2
  <2>4. CASE T # {}
    <3> DEFINE c == Pick(T)
               U == T \ {c}
    <3>1. c \in T /\ c \in cs
      BY <2>4
    <3>2. g[T] = CapFree(g[U], c[1], c[2])
      BY <1>1, <2>4
    <3> HIDE DEF c
    <3>3. U \in SUBSET cs /\ Cardinality(U) = n - 1 /\ n \in Nat
      BY <1>2, <2>2, <3>1, FS_RemoveElement
    <3> HIDE DEF U
    <3>4. Good(U)
      <4>1. Cardinality(U) \in Nat /\ Cardinality(U) \notin Bad
        <5> HIDE DEF Bad
        <5> QED
          BY <1>2, <2>1, <3>3
      <4> HIDE DEF Good
      <4> QED
        BY <3>3, <4>1
    <3>5. /\ c[1] \in Processes /\ c[2] \in SlotIds /\ c = <<c[1], c[2]>>
          /\ s.slots[c[1]][c[2]] # Null
      BY <3>1
    <3>6. c \notin U
      BY DEF U
    <3>7. g[U].slots[c[1]][c[2]] # Null
      BY <3>4, <3>5, <3>6 DEF Cleared
    <3>8. /\ Counted(g[T], h) /\ Cleared(g[U], g[T], {<<c[1], c[2]>>})
      BY <3>2, <3>4, <3>5, <3>7, CapFreeKeeps
    <3>9. Cleared(s, g[T], T)
      <4>1. T = U \cup {<<c[1], c[2]>>}
        BY <3>1, <3>5 DEF U
      <4>2. ASSUME NEW p \in Processes, NEW i \in SlotIds
            PROVE  g[T].slots[p][i] = IF <<p, i>> \in T THEN Null ELSE s.slots[p][i]
        <5>1. /\ g[U].slots[p][i] = IF <<p, i>> \in U THEN Null ELSE s.slots[p][i]
              /\ g[T].slots[p][i] = IF <<p, i>> \in {<<c[1], c[2]>>} THEN Null
                                                                   ELSE g[U].slots[p][i]
          BY <3>4, <3>8 DEF Cleared
        <5> QED
          BY <4>1, <5>1
      <4>3. \A o \in Objects : \/ g[T].mem[o] = s.mem[o]
                               \/ s.mem[o] = "allocated" /\ g[T].mem[o] = "freed"
        BY <3>4, <3>8 DEF Cleared
      <4> QED
        BY <4>2, <4>3 DEF Cleared
    <3> QED
      BY <2>2, <3>8, <3>9
  <2> QED
    BY <2>3, <2>4
<1>4. Good(cs)
  BY <1>2, <1>3
<1> QED
  BY <1>1, <1>4

\* An object that a slot names is allocated, and one that is not allocated is not named.
LEMMA NamedIsAllocated ==
  ASSUME NEW s, Counted(s, Null), NEW o \in Objects
  PROVE  /\ s.mem[o] = "allocated" <=> \E p \in Processes, i \in SlotIds : s.slots[p][i] = o
         /\ s.mem[o] # "allocated" => s.refcount[o] = 0 /\ s.copies[o] = {}
         /\ o # Null
<1>1. o # Null
  BY ObjectsHaveOneType DEF Objects
<1>2. /\ IsFiniteSet(s.copies[o]) /\ s.copies[o] \subseteq Processes \X SlotIds
      /\ s.refcount[o] = Cardinality(s.copies[o])
      /\ s.mem[o] = "allocated" <=> s.refcount[o] > 0
  <2>1. s.copies[o] \subseteq Processes \X SlotIds
    BY DEF Counted, Shapes
  <2>2. Cardinality(s.copies[o]) \in Nat
    BY FS_CardinalityType DEF Counted
  <2>3. s.refcount[o] = Cardinality(s.copies[o]) + 0
    BY <1>1 DEF Counted
  <2> QED
    BY <2>1, <2>2, <2>3 DEF Counted
<1>3. \A p \in Processes, i \in SlotIds : <<p, i>> \in s.copies[o] <=> s.slots[p][i] = o
  BY DEF Counted
<1>4. Cardinality(s.copies[o]) \in Nat /\ (Cardinality(s.copies[o]) = 0 <=> s.copies[o] = {})
  BY <1>2, FS_CardinalityType, FS_EmptySet
<1>5. s.mem[o] = "allocated" <=> s.copies[o] # {}
  BY <1>2, <1>4
<1>6. s.copies[o] # {} <=> \E p \in Processes, i \in SlotIds : s.slots[p][i] = o
  <2>1. ASSUME NEW c \in s.copies[o]
        PROVE  \E p \in Processes, i \in SlotIds : s.slots[p][i] = o
    <3>1. c[1] \in Processes /\ c[2] \in SlotIds /\ c = <<c[1], c[2]>>
      BY <1>2
    <3>2. s.slots[c[1]][c[2]] = o
      BY <3>1, <1>3, <2>1
    <3> QED
      BY <3>1, <3>2
  <2> QED
    BY <2>1, <1>3
<1> QED
  BY <1>1, <1>2, <1>4, <1>5, <1>6

\* process_exit()
LEMMA ProcessExitKeeps ==
  ASSUME NEW s, Counted(s, Null), NEW p \in Processes
  PROVE  LET r == ProcessExit(s, p)
         IN  /\ Counted(r, Null)
             /\ Cleared(s, r, IF s.slots[p][PROCESS_OBJ_ID] = p THEN {p} \X SlotIds ELSE {})
<1> DEFINE used == {i \in SlotIds : s.slots[p][i] # Null}
           held == ObjGet(s, p)
           freed == CapFreeAll(held, {p} \X used)
           r == ProcessExit(s, p)
<1>1. CASE s.slots[p][PROCESS_OBJ_ID] # p
  <2>1. r = s
    BY <1>1 DEF ProcessExit
  <2> HIDE DEF r
  <2> QED
    BY <1>1, <2>1 DEF Cleared, r
<1>2. CASE s.slots[p][PROCESS_OBJ_ID] = p
  <2>1. r = ObjPut(freed, p)
    BY <1>2 DEF ProcessExit
  <2>2. p \in Objects /\ s \in Shapes /\ PROCESS_OBJ_ID \in SlotIds
    BY CapAssumption DEF Objects, Counted, PROCESS_OBJ_ID, SlotIds
  <2>3. /\ held \in Shapes /\ held.slots = s.slots /\ held.copies = s.copies
        /\ held.mem = s.mem
        /\ \A o \in Objects :
              held.refcount[o] = IF o = p THEN s.refcount[o] + 1 ELSE s.refcount[o]
    <3>1. held \in Shapes /\ held.slots = s.slots /\ held.copies = s.copies /\ held.mem = s.mem
      BY <2>2 DEF ObjGet, Shapes
    <3>2. held.refcount = [s.refcount EXCEPT ![p] = @ + 1] /\ s.refcount \in [Objects -> Nat]
      BY <2>2 DEF ObjGet, Shapes
    <3> HIDE DEF held
    <3> QED
      BY <3>1, <3>2
  <2> HIDE DEF held, freed, r
  <2>4. s.mem[p] = "allocated" /\ p # Null
    BY <1>2, <2>2, NamedIsAllocated
  <2>5. Counted(held, p)
    <3>1. ASSUME NEW o \in Objects
          PROVE  /\ IsFiniteSet(held.copies[o])
                 /\ held.refcount[o] = Cardinality(held.copies[o]) + (IF o = p THEN 1 ELSE 0)
                 /\ held.mem[o] = "allocated" <=> held.refcount[o] > 0
                 /\ \A q \in Processes, i \in SlotIds :
                       <<q, i>> \in held.copies[o] <=> held.slots[q][i] = o
      <4>1. o # Null /\ s.refcount[o] \in Nat
        BY <2>2, NamedIsAllocated DEF Shapes
      <4>2. /\ IsFiniteSet(s.copies[o]) /\ Cardinality(s.copies[o]) \in Nat
            /\ s.refcount[o] = Cardinality(s.copies[o])
            /\ s.mem[o] = "allocated" <=> s.refcount[o] > 0
        BY <4>1, FS_CardinalityType DEF Counted
      <4>3. \A q \in Processes, i \in SlotIds :
               <<q, i>> \in held.copies[o] <=> held.slots[q][i] = o
        <5>1. \A q \in Processes, i \in SlotIds :
                 <<q, i>> \in s.copies[o] <=> s.slots[q][i] = o
          BY DEF Counted
        <5> QED
          BY <2>3, <5>1
      <4>4. held.refcount[o] = IF o = p THEN s.refcount[o] + 1 ELSE s.refcount[o]
        BY <2>3
      <4>5. held.mem[o] = "allocated" <=> held.refcount[o] > 0
        BY <2>3, <2>4, <4>1, <4>2, <4>4
      <4>6. held.refcount[o] = Cardinality(held.copies[o]) + (IF o = p THEN 1 ELSE 0)
        BY <2>3, <4>2, <4>4
      <4> QED
        BY <2>3, <4>2, <4>3, <4>5, <4>6
    <3> QED
      BY <2>3, <3>1 DEF Counted
  <2>6. Counted(freed, p) /\ Cleared(held, freed, {p} \X used)
    <3>1. IsFiniteSet({p} \X used)
      <4>1. IsFiniteSet(SlotIds)
        BY CapAssumption, FS_Interval DEF SlotIds
      <4>2. IsFiniteSet(used) /\ IsFiniteSet({p})
        BY <4>1, FS_Subset, FS_Singleton
      <4> QED
        BY <4>2, FS_Product
    <3>2. {p} \X used \in SUBSET (Processes \X SlotIds)
      OBVIOUS
    <3>3. \A c \in {p} \X used : held.slots[c[1]][c[2]] # Null
      BY <2>3
    <3> HIDE DEF used
    <3> QED
      BY <2>5, <3>1, <3>2, <3>3, CapFreeAllKeeps DEF freed
  <2>7. /\ freed \in Shapes /\ freed.refcount[p] > 0
        /\ \A o \in Objects :
              /\ IsFiniteSet(freed.copies[o]) /\ Cardinality(freed.copies[o]) \in Nat
              /\ freed.refcount[o] = IF o = p THEN Cardinality(freed.copies[o]) + 1
                                              ELSE Cardinality(freed.copies[o])
              /\ freed.mem[o] = "allocated" <=> freed.refcount[o] > 0
              /\ \A q \in Processes, i \in SlotIds :
                    <<q, i>> \in freed.copies[o] <=> freed.slots[q][i] = o
    <3>1. ASSUME NEW o \in Objects
          PROVE  /\ IsFiniteSet(freed.copies[o]) /\ Cardinality(freed.copies[o]) \in Nat
                 /\ freed.refcount[o] = IF o = p THEN Cardinality(freed.copies[o]) + 1
                                                 ELSE Cardinality(freed.copies[o])
                 /\ freed.mem[o] = "allocated" <=> freed.refcount[o] > 0
                 /\ \A q \in Processes, i \in SlotIds :
                       <<q, i>> \in freed.copies[o] <=> freed.slots[q][i] = o
      BY <2>6, FS_CardinalityType DEF Counted
    <3> QED
      BY <2>2, <2>6, <3>1 DEF Counted
  <2>8. /\ r \in Shapes /\ r.slots = freed.slots /\ r.copies = freed.copies
        /\ \A o \in Objects :
              /\ r.refcount[o] = IF o = p THEN freed.refcount[o] - 1 ELSE freed.refcount[o]
              /\ r.mem[o] = IF o = p /\ freed.refcount[p] = 1 THEN "freed" ELSE freed.mem[o]
    BY <2>1, <2>2, <2>7, PutIs
  <2>9. Counted(r, Null)
    <3>1. ASSUME NEW o \in Objects
          PROVE  /\ IsFiniteSet(r.copies[o])
                 /\ r.refcount[o] = Cardinality(r.copies[o]) + (IF o = Null THEN 1 ELSE 0)
                 /\ r.mem[o] = "allocated" <=> r.refcount[o] > 0
      <4>1. o # Null
        BY NamedIsAllocated
      <4>2. /\ IsFiniteSet(freed.copies[o]) /\ Cardinality(freed.copies[o]) \in Nat
            /\ freed.refcount[o] = IF o = p THEN Cardinality(freed.copies[o]) + 1
                                            ELSE Cardinality(freed.copies[o])
            /\ freed.mem[o] = "allocated" <=> freed.refcount[o] > 0
        BY <2>7
      <4>3. /\ r.copies[o] = freed.copies[o]
            /\ r.refcount[o] = IF o = p THEN freed.refcount[o] - 1 ELSE freed.refcount[o]
            /\ r.mem[o] = IF o = p /\ freed.refcount[p] = 1 THEN "freed" ELSE freed.mem[o]
        BY <2>8
      <4>4. r.refcount[o] = Cardinality(freed.copies[o])
        BY <4>2, <4>3
      <4>5. CASE o = p
        <5>1. freed.mem[o] = "allocated" /\ freed.refcount[o] = Cardinality(freed.copies[o]) + 1
          BY <4>2, <4>5
        <5> QED
          BY <4>1, <4>2, <4>3, <4>4, <4>5, <5>1
      <4>6. CASE o # p
        BY <4>1, <4>2, <4>3, <4>4, <4>6
      <4> QED
        BY <4>5, <4>6
    <3>2. ASSUME NEW o \in Objects, NEW q \in Processes, NEW i \in SlotIds
          PROVE  <<q, i>> \in r.copies[o] <=> r.slots[q][i] = o
      <4>1. <<q, i>> \in freed.copies[o] <=> freed.slots[q][i] = o
        BY <2>7
      <4>2. r.copies = freed.copies /\ r.slots = freed.slots
        BY <2>8
      <4> QED
        BY <4>1, <4>2
    <3> QED
      BY <2>8, <3>1, <3>2 DEF Counted
  <2>10. Cleared(s, r, {p} \X SlotIds)
    <3>1. ASSUME NEW q \in Processes, NEW i \in SlotIds
          PROVE  r.slots[q][i] = IF <<q, i>> \in {p} \X SlotIds THEN Null ELSE s.slots[q][i]
      <4>1. freed.slots[q][i] = IF <<q, i>> \in {p} \X used THEN Null ELSE held.slots[q][i]
        BY <2>6 DEF Cleared
      <4> QED
        BY <4>1, <2>3, <2>8
    <3>2. ASSUME NEW o \in Objects
          PROVE  r.mem[o] = s.mem[o] \/ (s.mem[o] = "allocated" /\ r.mem[o] = "freed")
      <4>1. freed.mem[o] = held.mem[o] \/ (held.mem[o] = "allocated" /\ freed.mem[o] = "freed")
        BY <2>6 DEF Cleared
      <4>2. r.mem[o] = IF o = p /\ freed.refcount[p] = 1 THEN "freed" ELSE freed.mem[o]
        BY <2>8
      <4> QED
        BY <4>1, <4>2, <2>3, <2>4
    <3> QED
      BY <3>1, <3>2 DEF Cleared
  <2> QED
    BY <1>2, <2>9, <2>10 DEF r
<1> QED
  BY <1>1, <1>2

\* One more slot that names an object, with the count that cap_alloc() and cap_copy() give it.
Added(s, r, p, i, o) ==
    /\ r \in Shapes
    /\ r.slots = [s.slots EXCEPT ![p][i] = o]
    /\ r.copies = [s.copies EXCEPT ![o] = s.copies[o] \cup {<<p, i>>}]
    /\ r.refcount = [s.refcount EXCEPT ![o] = s.refcount[o] + 1]
    /\ r.mem = [s.mem EXCEPT ![o] = "allocated"]

\* A slot filled and counted keeps the counts right.
LEMMA AddedKeeps ==
  ASSUME NEW s, Counted(s, Null), NEW p \in Processes, NEW i \in SlotIds,
         s.slots[p][i] = Null, NEW o \in Objects, NEW r, Added(s, r, p, i, o)
  PROVE  Counted(r, Null)
<1> USE DEF Added
<1>1. /\ s.slots \in [Processes -> [SlotIds -> Objects \cup {Null}]]
      /\ s.copies \in [Objects -> SUBSET (Processes \X SlotIds)]
      /\ s.refcount \in [Objects -> Nat] /\ s.mem \in [Objects -> MemStates]
  BY DEF Counted, Shapes
<1>2. ASSUME NEW u \in Objects
      PROVE  /\ u # Null /\ IsFiniteSet(s.copies[u]) /\ Cardinality(s.copies[u]) \in Nat
             /\ s.refcount[u] = Cardinality(s.copies[u])
             /\ s.mem[u] = "allocated" <=> s.refcount[u] > 0
             /\ \A q \in Processes, j \in SlotIds : <<q, j>> \in s.copies[u] <=> s.slots[q][j] = u
  <2>1. u # Null
    BY NamedIsAllocated
  <2> QED
    BY <2>1, FS_CardinalityType DEF Counted
<1>3. <<p, i>> \notin s.copies[o]
  BY <1>2
<1>4. /\ IsFiniteSet(s.copies[o] \cup {<<p, i>>})
      /\ Cardinality(s.copies[o] \cup {<<p, i>>}) = Cardinality(s.copies[o]) + 1
  BY <1>2, <1>3, FS_AddElement
<1>5. ASSUME NEW u \in Objects
      PROVE  /\ IsFiniteSet(r.copies[u])
             /\ r.refcount[u] = Cardinality(r.copies[u]) + (IF u = Null THEN 1 ELSE 0)
             /\ r.mem[u] = "allocated" <=> r.refcount[u] > 0
  <2>1. CASE u = o
    <3>1. /\ r.copies[o] = s.copies[o] \cup {<<p, i>>} /\ r.refcount[o] = s.refcount[o] + 1
          /\ r.mem[o] = "allocated"
      BY <1>1
    <3>2. /\ o # Null /\ Cardinality(s.copies[o]) \in Nat
          /\ s.refcount[o] = Cardinality(s.copies[o])
      BY <1>2
    <3>3. r.refcount[o] = Cardinality(r.copies[o]) + (IF o = Null THEN 1 ELSE 0)
      <4>1. Cardinality(r.copies[o]) = Cardinality(s.copies[o]) + 1
        BY <3>1, <1>4
      <4>2. r.refcount[o] = Cardinality(s.copies[o]) + 1
        BY <3>1, <3>2
      <4> QED
        BY <4>1, <4>2, <3>2
    <3>4. r.mem[o] = "allocated" <=> r.refcount[o] > 0
      BY <3>1, <3>2
    <3> QED
      BY <2>1, <3>1, <3>3, <3>4, <1>4
  <2>2. CASE u # o
    <3>1. r.copies[u] = s.copies[u] /\ r.refcount[u] = s.refcount[u] /\ r.mem[u] = s.mem[u]
      BY <2>2, <1>1
    <3> QED
      BY <3>1, <1>2
  <2> QED
    BY <2>1, <2>2
<1>6. ASSUME NEW u \in Objects, NEW q \in Processes, NEW j \in SlotIds
      PROVE  <<q, j>> \in r.copies[u] <=> r.slots[q][j] = u
  <2>1. <<q, j>> \in s.copies[u] <=> s.slots[q][j] = u
    BY <1>2
  <2>2. r.slots[q][j] = IF q = p /\ j = i THEN o ELSE s.slots[q][j]
    BY <1>1
  <2>3. r.copies[u] = IF u = o THEN s.copies[u] \cup {<<p, i>>} ELSE s.copies[u]
    BY <1>1
  <2>4. u # Null
    BY <1>2
  <2> QED
    BY <2>1, <2>2, <2>3, <2>4
<1> QED
  BY <1>5, <1>6 DEF Counted

\* install_slot() and list_add()
Linked(s, r, p, i, o) ==
    /\ r \in Shapes
    /\ r.slots = [s.slots EXCEPT ![p][i] = o]
    /\ r.copies = [s.copies EXCEPT ![o] = s.copies[o] \cup {<<p, i>>}]
    /\ r.refcount = s.refcount /\ r.mem = s.mem

\* Install puts an object in a slot, and the slot in the copies of the object.
LEMMA InstallIs ==
  ASSUME NEW s \in Shapes, NEW p \in Processes, NEW i \in SlotIds, NEW o \in Objects
  PROVE  Linked(s, Install(s, p, i, o), p, i, o)
<1>1. /\ s.slots \in [Processes -> [SlotIds -> Objects \cup {Null}]]
      /\ s.copies \in [Objects -> SUBSET (Processes \X SlotIds)]
  BY DEF Shapes
<1>2. [s.slots EXCEPT ![p][i] = o] \in [Processes -> [SlotIds -> Objects \cup {Null}]]
  BY <1>1
<1>3. [s.copies EXCEPT ![o] = @ \cup {<<p, i>>}] \in [Objects -> SUBSET (Processes \X SlotIds)]
  <2>1. s.copies[o] \cup {<<p, i>>} \in SUBSET (Processes \X SlotIds)
    BY <1>1
  <2> QED
    BY <1>1, <2>1
<1>4. Install(s, p, i, o) \in Shapes
  BY <1>2, <1>3 DEF Install, Shapes
<1>5. Install(s, p, i, o).slots = [s.slots EXCEPT ![p][i] = o]
  BY DEF Install, Shapes
<1>6. Install(s, p, i, o).copies = [s.copies EXCEPT ![o] = @ \cup {<<p, i>>}]
  BY DEF Install, Shapes
<1>7. Install(s, p, i, o).refcount = s.refcount /\ Install(s, p, i, o).mem = s.mem
  BY DEF Install, Shapes
<1> QED
  BY <1>4, <1>5, <1>6, <1>7 DEF Linked

\* cap_alloc() of an object that obj_alloc() has just made
LEMMA AllocIs ==
  ASSUME NEW s, Counted(s, Null), NEW p \in Processes, NEW o \in Objects,
         s.mem[o] = "unused", \E i \in SlotIds : s.slots[p][i] = Null
  PROVE  LET r == CapAlloc(ObjAlloc(s, o), p, o)
         IN  /\ Counted(r, Null)
             /\ r.slots = [s.slots EXCEPT ![p][FreeSlot(s, p)] = o]
             /\ r.mem = [s.mem EXCEPT ![o] = "allocated"]
<1> DEFINE s1 == ObjAlloc(s, o)
           i == FreeSlot(s, p)
           s2 == Install(s1, p, i, o)
           r == CapAlloc(s1, p, o)
<1>1. s \in Shapes /\ s.refcount[o] = 0
  BY NamedIsAllocated DEF Counted
<1>2. i \in SlotIds /\ s.slots[p][i] = Null
  BY FreeSlotIs
<1>3. s1 \in Shapes
  BY <1>1 DEF ObjAlloc, Shapes, MemStates
<1>4. /\ s1.slots = s.slots /\ s1.copies = s.copies
      /\ s1.mem = [s.mem EXCEPT ![o] = "allocated"]
      /\ s1.refcount = [s.refcount EXCEPT ![o] = 0]
  BY <1>1 DEF ObjAlloc, Shapes
<1> HIDE DEF s1
<1>5. FreeSlot(s1, p) = i
  BY <1>4 DEF FreeSlot
<1>6. r = [s2 EXCEPT !.refcount[o] = 1]
  BY <1>5 DEF CapAlloc
<1> HIDE DEF i, r
<1>7. Linked(s1, s2, p, i, o)
  BY <1>2, <1>3, InstallIs
<1>8. /\ s2.slots = [s.slots EXCEPT ![p][i] = o]
      /\ s2.copies = [s.copies EXCEPT ![o] = @ \cup {<<p, i>>}]
      /\ s2.refcount = s1.refcount /\ s2.mem = s1.mem
  <2>1. /\ s2.slots = [s1.slots EXCEPT ![p][i] = o]
        /\ s2.copies = [s1.copies EXCEPT ![o] = @ \cup {<<p, i>>}]
        /\ s2.refcount = s1.refcount /\ s2.mem = s1.mem
    BY <1>7 DEF Linked
  <2> HIDE DEF s2
  <2> QED
    BY <1>4, <2>1
<1> HIDE DEF s2
<1>9. r \in Shapes
  BY <1>6, <1>7 DEF Shapes, Linked
<1>10. /\ r.slots = s2.slots /\ r.copies = s2.copies /\ r.mem = s2.mem
       /\ r.refcount = [s2.refcount EXCEPT ![o] = 1]
  BY <1>6, <1>7 DEF Shapes, Linked
<1>11. r.refcount = [s.refcount EXCEPT ![o] = s.refcount[o] + 1]
  <2>1. s.refcount \in [Objects -> Nat]
    BY <1>1 DEF Shapes
  <2>2. r.refcount = [[s.refcount EXCEPT ![o] = 0] EXCEPT ![o] = 1]
    BY <1>4, <1>8, <1>10
  <2> QED
    BY <1>1, <2>1, <2>2
<1>12. Counted(r, Null)
  <2>1. Added(s, r, p, i, o)
    BY <1>4, <1>8, <1>9, <1>10, <1>11 DEF Added
  <2> QED
    BY <1>2, <2>1, AddedKeeps
<1> QED
  BY <1>4, <1>8, <1>10, <1>12 DEF r, i, s1

\* cap_copy()
LEMMA CopyIs ==
  ASSUME NEW s, Counted(s, Null), NEW p \in Processes, NEW i \in SlotIds,
         NEW q \in Processes, s.slots[p][i] # Null, \E j \in SlotIds : s.slots[q][j] = Null
  PROVE  LET r == CapCopy(s, p, i, q)
         IN  /\ Counted(r, Null)
             /\ r.slots = [s.slots EXCEPT ![q][FreeSlot(s, q)] = s.slots[p][i]]
             /\ r.mem = s.mem
<1> DEFINE j == FreeSlot(s, q)
           o == s.slots[p][i]
           s2 == Install(s, q, j, o)
           r == CapCopy(s, p, i, q)
<1>1. s \in Shapes
  BY DEF Counted
<1>2. j \in SlotIds /\ s.slots[q][j] = Null
  BY FreeSlotIs
<1>3. o \in Objects
  BY <1>1 DEF Shapes
<1>4. s.mem[o] = "allocated"
  BY <1>3, NamedIsAllocated
<1>5. r = [s2 EXCEPT !.refcount[o] = @ + 1]
  BY DEF CapCopy
<1> HIDE DEF j, o, r
<1>6. Linked(s, s2, q, j, o)
  BY <1>1, <1>2, <1>3, InstallIs
<1> HIDE DEF s2
<1>7. /\ s2.slots = [s.slots EXCEPT ![q][j] = o]
      /\ s2.copies = [s.copies EXCEPT ![o] = @ \cup {<<q, j>>}]
      /\ s2.refcount = s.refcount /\ s2.mem = s.mem
  BY <1>6 DEF Linked
<1>8. r \in Shapes
  <2>1. s2 \in Shapes /\ s2.refcount \in [Objects -> Nat]
    BY <1>6 DEF Shapes, Linked
  <2>2. [s2.refcount EXCEPT ![o] = @ + 1] \in [Objects -> Nat]
    BY <1>3, <2>1
  <2> QED
    BY <1>5, <2>1, <2>2 DEF Shapes
<1>9. /\ r.slots = s2.slots /\ r.copies = s2.copies /\ r.mem = s2.mem
      /\ r.refcount = [s2.refcount EXCEPT ![o] = @ + 1]
  BY <1>5, <1>6 DEF Shapes, Linked
<1>10. /\ r.refcount = [s.refcount EXCEPT ![o] = s.refcount[o] + 1]
       /\ r.mem = [s.mem EXCEPT ![o] = "allocated"]
  <2>1. s.refcount \in [Objects -> Nat] /\ s.mem \in [Objects -> MemStates]
    BY <1>1 DEF Shapes
  <2>2. r.refcount = [s.refcount EXCEPT ![o] = @ + 1] /\ r.mem = s.mem
    BY <1>7, <1>9
  <2>3. s.mem = [s.mem EXCEPT ![o] = "allocated"]
    BY <1>3, <1>4, <2>1
  <2>4. [s.refcount EXCEPT ![o] = @ + 1] = [s.refcount EXCEPT ![o] = s.refcount[o] + 1]
    BY <1>3, <2>1
  <2> QED
    BY <2>2, <2>3, <2>4
<1>11. Counted(r, Null)
  <2>1. Added(s, r, q, j, o)
    BY <1>7, <1>8, <1>9, <1>10 DEF Added
  <2> QED
    BY <1>2, <1>3, <2>1, AddedKeeps
<1> QED
  BY <1>7, <1>9, <1>11 DEF r, j, o

-----------------------------------------------------------------------------
\* What one new name of an object does to the tables and to memory.
Filled(s, r, p, o) ==
    LET i == FreeSlot(s, p)
    IN  /\ Counted(r, Null) /\ i \in SlotIds /\ s.slots[p][i] = Null
        /\ \A q \in Processes, j \in SlotIds :
              r.slots[q][j] = IF q = p /\ j = i THEN o ELSE s.slots[q][j]
        /\ \A u \in Objects : r.mem[u] = IF u = o THEN "allocated" ELSE s.mem[u]

\* cap_alloc() of a new object fills one free slot of the process.
LEMMA AllocFills ==
  ASSUME NEW s, Counted(s, Null), NEW p \in Processes, NEW o \in Objects,
         s.mem[o] = "unused", \E i \in SlotIds : s.slots[p][i] = Null
  PROVE  Filled(s, CapAlloc(ObjAlloc(s, o), p, o), p, o)
<1> DEFINE r == CapAlloc(ObjAlloc(s, o), p, o)
           i == FreeSlot(s, p)
<1>1. /\ Counted(r, Null) /\ r.slots = [s.slots EXCEPT ![p][i] = o]
      /\ r.mem = [s.mem EXCEPT ![o] = "allocated"]
  BY AllocIs
<1>2. i \in SlotIds /\ s.slots[p][i] = Null
  BY FreeSlotIs
<1>3. /\ s.slots \in [Processes -> [SlotIds -> Objects \cup {Null}]]
      /\ s.mem \in [Objects -> MemStates]
  BY DEF Counted, Shapes
<1> HIDE DEF r, i
<1>4. ASSUME NEW q \in Processes, NEW j \in SlotIds
      PROVE  r.slots[q][j] = IF q = p /\ j = i THEN o ELSE s.slots[q][j]
  BY <1>1, <1>3
<1>5. ASSUME NEW u \in Objects
      PROVE  r.mem[u] = IF u = o THEN "allocated" ELSE s.mem[u]
  BY <1>1, <1>3
<1> QED
  BY <1>1, <1>2, <1>4, <1>5 DEF Filled, r, i

\* cap_copy() fills one free slot of the target with the object of the source.
LEMMA CopyFills ==
  ASSUME NEW s, Counted(s, Null), NEW p \in Processes, NEW i \in SlotIds,
         NEW q \in Processes, s.slots[p][i] # Null, \E j \in SlotIds : s.slots[q][j] = Null
  PROVE  Filled(s, CapCopy(s, p, i, q), q, s.slots[p][i])
<1> DEFINE r == CapCopy(s, p, i, q)
           k == FreeSlot(s, q)
           o == s.slots[p][i]
<1>1. /\ Counted(r, Null) /\ r.slots = [s.slots EXCEPT ![q][k] = o] /\ r.mem = s.mem
  BY CopyIs
<1>2. k \in SlotIds /\ s.slots[q][k] = Null
  BY FreeSlotIs
<1>3. /\ s.slots \in [Processes -> [SlotIds -> Objects \cup {Null}]]
      /\ s.mem \in [Objects -> MemStates]
  BY DEF Counted, Shapes
<1>4. o \in Objects
  BY <1>3
<1>5. s.mem[o] = "allocated"
  BY <1>4, NamedIsAllocated
<1> HIDE DEF r, k, o
<1>6. ASSUME NEW u \in Processes, NEW j \in SlotIds
      PROVE  r.slots[u][j] = IF u = q /\ j = k THEN o ELSE s.slots[u][j]
  BY <1>1, <1>3
<1>7. ASSUME NEW u \in Objects
      PROVE  r.mem[u] = IF u = o THEN "allocated" ELSE s.mem[u]
  BY <1>1, <1>3, <1>5
<1> QED
  BY <1>1, <1>2, <1>6, <1>7 DEF Filled, r, k, o

\* A step that only adds: names in the tables of processes that have not exited, objects
\* that were never used, and threads and connections that are named where they belong.
Gains(s, s2, proc, proc2) ==
    /\ Counted(s2, Null)
    /\ \A p \in Processes, i \in SlotIds :
          \/ s2.slots[p][i] = s.slots[p][i]
          \/ /\ s.slots[p][i] = Null
             /\ s2.slots[p][PROCESS_OBJ_ID] = p /\ s2.slots[p][VMSPACE_OBJ_ID] \in Vmspaces
    /\ \A p \in Processes :
          s2.slots[p][PROCESS_OBJ_ID] = s.slots[p][PROCESS_OBJ_ID] \/ s.mem[p] = "unused"
    /\ \A o \in Objects : \/ s2.mem[o] = s.mem[o]
                          \/ s.mem[o] = "unused" /\ s2.mem[o] = "allocated"
    /\ \A a \in Agents :
          /\ proc2[a] = proc[a] \/ s.mem[a] = "unused"
          /\ \/ s2.mem[a] = s.mem[a]
             \/ /\ Named(s2, proc2[a], a)
                /\ a \in Connections => s2.mem[proc2[a]] # "unused"

\* Slots that are only filled leave threads and processes fitting their capabilities.
LEMMA GainsFit ==
  ASSUME NEW s, NEW proc, NEW ex, NEW src, Fits(s, proc, ex, src),
         NEW s2, NEW proc2, Gains(s, s2, proc, proc2)
  PROVE  Fits(s2, proc2, ex, src)
<1>1. /\ 0 \in SlotIds /\ 1 \in SlotIds
      /\ Threads \subseteq Agents /\ Connections \subseteq Agents /\ Agents \subseteq Objects
      /\ Processes \subseteq Objects /\ Null \notin Objects
  BY CapAssumption, ObjectsHaveOneType DEF SlotIds, Agents, Objects
<1>2. ASSUME NEW a \in Agents, s.mem[a] # "unused", Named(s, proc[a], a)
      PROVE  Named(s2, proc2[a], a)
  <2>1. proc2[a] = proc[a]
    BY <1>2 DEF Gains
  <2>2. PICK i \in SlotIds : s.slots[proc[a]][i] = a
    BY <1>2 DEF Named
  <2>3. proc[a] \in Processes /\ a # Null
    BY <1>1, <1>2 DEF Named
  <2>4. s2.slots[proc[a]][i] = a
    BY <2>2, <2>3 DEF Gains
  <2> QED
    BY <2>1, <2>3, <2>4 DEF Named
<1>3. TablesFit(s2)
  <2> SUFFICES ASSUME NEW p \in Processes
               PROVE  \/ s2.slots[p][0] = p /\ s2.slots[p][1] \in Vmspaces
                      \/ \A i \in SlotIds : s2.slots[p][i] = Null
    BY DEF TablesFit, PROCESS_OBJ_ID, VMSPACE_OBJ_ID
  <2>1. \/ s.slots[p][0] = p /\ s.slots[p][1] \in Vmspaces
        \/ \A i \in SlotIds : s.slots[p][i] = Null
    BY DEF Fits, TablesFit, PROCESS_OBJ_ID, VMSPACE_OBJ_ID
  <2>2. \A i \in SlotIds : \/ s2.slots[p][i] = s.slots[p][i]
                           \/ s2.slots[p][0] = p /\ s2.slots[p][1] \in Vmspaces
    BY DEF Gains, PROCESS_OBJ_ID, VMSPACE_OBJ_ID
  <2> QED
    BY <1>1, <2>1, <2>2
<1>4. AgentsFit(s2, proc2, ex)
  <2>1. ASSUME NEW t \in Threads
        PROVE  /\ s2.mem[t] = "allocated" => Named(s2, proc2[t], t)
               /\ s2.mem[t] = "freed" <=> t \in ex
    <3>1. /\ s.mem[t] = "allocated" => Named(s, proc[t], t)
          /\ s.mem[t] = "freed" <=> t \in ex
      BY DEF Fits, AgentsFit
    <3>2. /\ s2.mem[t] = s.mem[t] \/ Named(s2, proc2[t], t)
          /\ s2.mem[t] = s.mem[t] \/ (s.mem[t] = "unused" /\ s2.mem[t] = "allocated")
      BY <1>1 DEF Gains
    <3> QED
      BY <1>1, <1>2, <3>1, <3>2
  <2>2. ASSUME NEW c \in Connections, s2.mem[c] # "unused"
        PROVE  /\ proc2[c] \in Processes /\ s2.mem[proc2[c]] # "unused"
               /\ s2.slots[proc2[c]][PROCESS_OBJ_ID] = proc2[c] => Named(s2, proc2[c], c)
    <3>1. CASE s2.mem[c] = s.mem[c]
      <4>1. /\ proc[c] \in Processes /\ s.mem[proc[c]] # "unused"
            /\ s.slots[proc[c]][PROCESS_OBJ_ID] = proc[c] => Named(s, proc[c], c)
        BY <2>2, <3>1 DEF Fits, AgentsFit
      <4>2. proc2[c] = proc[c]
        BY <1>1, <2>2, <3>1 DEF Gains
      <4>3. /\ s2.mem[proc[c]] # "unused"
            /\ s2.slots[proc[c]][PROCESS_OBJ_ID] = s.slots[proc[c]][PROCESS_OBJ_ID]
        BY <1>1, <4>1 DEF Gains
      <4> QED
        BY <1>1, <1>2, <2>2, <3>1, <4>1, <4>2, <4>3
    <3>2. CASE s2.mem[c] # s.mem[c]
      <4>1. Named(s2, proc2[c], c) /\ s2.mem[proc2[c]] # "unused"
        BY <1>1, <3>2 DEF Gains
      <4> QED
        BY <4>1 DEF Named
    <3> QED
      BY <3>1, <3>2
  <2> QED
    BY <2>1, <2>2 DEF AgentsFit
<1>5. CallsFit(s2, proc2, src)
  <2> SUFFICES ASSUME NEW c \in Connections, src[c] # Null
               PROVE  /\ s2.mem[c] # "unused" /\ s2.slots[proc2[c]][PROCESS_OBJ_ID] = proc2[c]
                      /\ src[c] \in Threads => s2.mem[src[c]] = "allocated"
    BY DEF CallsFit
  <2>1. /\ s.mem[c] # "unused" /\ s.slots[proc[c]][PROCESS_OBJ_ID] = proc[c]
        /\ src[c] \in Threads => s.mem[src[c]] = "allocated"
    BY DEF Fits, CallsFit
  <2>2. proc[c] \in Processes /\ s.mem[proc[c]] # "unused"
    BY <2>1 DEF Fits, AgentsFit
  <2>3. proc2[c] = proc[c]
    BY <1>1, <2>1 DEF Gains
  <2>4. s2.slots[proc[c]][PROCESS_OBJ_ID] = s.slots[proc[c]][PROCESS_OBJ_ID]
    BY <2>2 DEF Gains
  <2>5. s2.mem[c] # "unused"
    BY <1>1, <2>1 DEF Gains
  <2>6. src[c] \in Threads => s2.mem[src[c]] = "allocated"
    BY <1>1, <2>1 DEF Gains
  <2> QED
    BY <2>1, <2>3, <2>4, <2>5, <2>6
<1> QED
  BY <1>3, <1>4, <1>5 DEF Fits, Gains

-----------------------------------------------------------------------------
\* The slots with a name, and the sorts of objects, which are apart.
LEMMA Basics ==
  /\ 0 \in SlotIds /\ 1 \in SlotIds /\ 2 \in SlotIds
  /\ Threads \subseteq Agents /\ Connections \subseteq Agents /\ Agents \subseteq Objects
  /\ Processes \subseteq Objects /\ Vmspaces \subseteq Objects /\ Pmos \subseteq Objects
  /\ Null \notin Objects /\ Agents \cap Processes = {} /\ Agents \cap Vmspaces = {}
  /\ Agents \cap Pmos = {} /\ Processes \cap Vmspaces = {} /\ Processes \cap Pmos = {}
  /\ Threads \cap Connections = {}
BY CapAssumption, ObjectsHaveOneType DEF SlotIds, Agents, Objects

\* The variables become the state that the functions return.
LEMMA BecomesFits ==
  ASSUME NEW s, Becomes(s), Fits(s, process', exited', source')
  PROVE  Fits(State', process', exited', source')
<1>1. /\ State'.slots = s.slots /\ State'.copies = s.copies
      /\ State'.refcount = s.refcount /\ State'.mem = s.mem
  BY DEF Becomes, State
<1>2. State' \in Shapes
  <2>1. s \in Shapes
    BY DEF Fits, Counted
  <2> QED
    BY <2>1 DEF Becomes, State, Shapes
<1>3. Counted(State', Null)
  BY <1>1, <1>2 DEF Fits, Counted
<1>4. TablesFit(State')
  BY <1>1 DEF Fits, TablesFit
<1>5. AgentsFit(State', process', exited')
  BY <1>1 DEF Fits, AgentsFit, Named
<1>6. CallsFit(State', process', source')
  BY <1>1 DEF Fits, CallsFit
<1> QED
  BY <1>3, <1>4, <1>5, <1>6 DEF Fits

\* The state record has the variables as its fields.
LEMMA StateIs ==
  State.slots = slots /\ State.copies = copies /\ State.refcount = refcount /\ State.mem = mem
BY DEF State

\* A thread that is allocated, or a connection that serves a call, has a process with
\* all that it needs.
LEMMA AgentsLive ==
  ASSUME CapInv, NEW a \in Agents,
         IF a \in Threads THEN mem[a] = "allocated" ELSE source[a] # Null
  PROVE  /\ process[a] \in Processes /\ NotExited(process[a])
         /\ slots[process[a]][VMSPACE_OBJ_ID] \in Vmspaces
         /\ mem[process[a]] = "allocated"
         /\ a \in Threads => \E i \in SlotIds : slots[process[a]][i] = a
<1> DEFINE p == process[a]
<1>1. p \in Processes /\ \E i \in SlotIds : slots[p][i] # Null
  <2>1. CASE a \in Threads
    <3>1. Named(State, p, a)
      BY <2>1, StateIs DEF CapInv, Fits, AgentsFit
    <3> QED
      BY <3>1, StateIs, Basics DEF Named
  <2>2. CASE a \notin Threads
    <3>1. a \in Connections /\ source[a] # Null
      BY <2>2 DEF Agents
    <3>2. mem[a] # "unused" /\ slots[p][PROCESS_OBJ_ID] = p
      BY <3>1, StateIs DEF CapInv, Fits, CallsFit
    <3>3. p \in Processes
      BY <3>1, <3>2, StateIs DEF CapInv, Fits, AgentsFit
    <3> QED
      BY <3>2, <3>3, Basics DEF PROCESS_OBJ_ID
  <2> QED
    BY <2>1, <2>2
<1>2. slots[p][PROCESS_OBJ_ID] = p /\ slots[p][VMSPACE_OBJ_ID] \in Vmspaces
  BY <1>1, StateIs DEF CapInv, Fits, TablesFit
<1>3. mem[p] = "allocated"
  <2>1. Counted(State, Null)
    BY DEF CapInv, Fits
  <2> QED
    BY <1>1, <1>2, <2>1, NamedIsAllocated, StateIs, Basics DEF PROCESS_OBJ_ID
<1>4. a \in Threads => \E i \in SlotIds : slots[p][i] = a
  BY StateIs DEF CapInv, Fits, AgentsFit, Named
<1> QED
  BY <1>1, <1>2, <1>3, <1>4 DEF NotExited

\* So does whoever makes a system call.
LEMMA CurrentLives ==
  ASSUME CapInv, NEW p \in Processes, Current(p)
  PROVE  slots[p][PROCESS_OBJ_ID] = p /\ slots[p][VMSPACE_OBJ_ID] \in Vmspaces
BY AgentsLive DEF Current, Runs, Allocated, NotExited

\* A name is only added in the table of a process that has not exited.
LEMMA CopyGains ==
  ASSUME NEW s, NEW proc, Counted(s, Null),
         NEW q \in Processes, NEW r, NEW o \in Objects, Filled(s, r, q, o),
         s.mem[o] = "allocated", s.slots[q][PROCESS_OBJ_ID] = q,
         s.slots[q][VMSPACE_OBJ_ID] \in Vmspaces
  PROVE  Gains(s, r, proc, proc)
<1> DEFINE i == FreeSlot(s, q)
<1>1. /\ i \in SlotIds /\ s.slots[q][i] = Null /\ Counted(r, Null)
      /\ \A p \in Processes, j \in SlotIds :
            r.slots[p][j] = IF p = q /\ j = i THEN o ELSE s.slots[p][j]
      /\ \A u \in Objects : r.mem[u] = IF u = o THEN "allocated" ELSE s.mem[u]
  BY DEF Filled
<1> HIDE DEF i
<1>2. /\ r.slots[q][0] = q /\ r.slots[q][1] \in Vmspaces
      /\ s.slots[q][0] = q /\ s.slots[q][1] \in Vmspaces /\ i # 0
  BY <1>1, Basics DEF PROCESS_OBJ_ID, VMSPACE_OBJ_ID
<1>3. ASSUME NEW p \in Processes, NEW j \in SlotIds
      PROVE  \/ r.slots[p][j] = s.slots[p][j]
             \/ s.slots[p][j] = Null /\ r.slots[p][0] = p /\ r.slots[p][1] \in Vmspaces
  BY <1>1, <1>2
<1>4. ASSUME NEW p \in Processes PROVE r.slots[p][0] = s.slots[p][0]
  BY <1>1, <1>2, Basics
<1>5. \A u \in Objects : r.mem[u] = s.mem[u]
  BY <1>1
<1> QED
  BY <1>1, <1>3, <1>4, <1>5, Basics DEF Gains, PROCESS_OBJ_ID, VMSPACE_OBJ_ID

-----------------------------------------------------------------------------
\* The step of every system call below has this shape.
LEMMA GainsKeep ==
  ASSUME CapInv, NEW s, Becomes(s), Gains(State, s, process, process'),
         UNCHANGED <<exited, source>>, process' \in [Agents -> Processes \cup {Null}]
  PROVE  CapInv'
<1>1. Fits(s, process', exited, source)
  BY GainsFit DEF CapInv
<1>2. Fits(s, process', exited', source')
  BY <1>1
<1>3. Fits(State', process', exited', source')
  BY <1>2, BecomesFits
<1> QED
  BY <1>3 DEF CapInv

\* sys_create_pmo() keeps the invariant.
LEMMA CreatePmoKeeps ==
  ASSUME CapInv, NEW p \in Processes, NEW o \in Pmos, CreatePmo(p, o)
  PROVE  CapInv'
<1> DEFINE s == CapAlloc(ObjAlloc(State, o), p, o)
           i == FreeSlot(State, p)
<1>1. Counted(State, Null) /\ o \in Objects /\ o \notin Agents /\ o \notin Processes
  BY Basics DEF CapInv, Fits
<1>2. \E j \in SlotIds : slots[p][j] = Null
  BY RoomIs DEF CreatePmo
<1>3. Filled(State, s, p, o)
  BY <1>1, <1>2, StateIs, AllocFills DEF CreatePmo
<1>4. /\ slots[p][0] = p /\ slots[p][1] \in Vmspaces
  BY CurrentLives DEF CreatePmo, PROCESS_OBJ_ID, VMSPACE_OBJ_ID
<1> HIDE DEF s
<1>5. /\ i \in SlotIds /\ slots[p][i] = Null /\ Counted(s, Null)
      /\ \A q \in Processes, j \in SlotIds :
            s.slots[q][j] = IF q = p /\ j = i THEN o ELSE slots[q][j]
      /\ \A u \in Objects : s.mem[u] = IF u = o THEN "allocated" ELSE mem[u]
  BY <1>3, StateIs DEF Filled
<1>6. /\ i # 0 /\ i # 1
  BY <1>4, <1>5, Basics
<1> HIDE DEF i
<1>7. Gains(State, s, process, process')
  <2>1. s.slots[p][0] = p /\ s.slots[p][1] \in Vmspaces
    BY <1>4, <1>5, <1>6, Basics
  <2>2. ASSUME NEW q \in Processes, NEW j \in SlotIds
        PROVE  \/ s.slots[q][j] = slots[q][j]
               \/ slots[q][j] = Null /\ s.slots[q][0] = q /\ s.slots[q][1] \in Vmspaces
    BY <1>5, <2>1
  <2>3. ASSUME NEW q \in Processes PROVE s.slots[q][0] = slots[q][0]
    BY <1>5, <1>6, Basics
  <2>4. ASSUME NEW u \in Objects
        PROVE  s.mem[u] = mem[u] \/ (mem[u] = "unused" /\ s.mem[u] = "allocated")
    BY <1>5 DEF CreatePmo
  <2>5. ASSUME NEW a \in Agents PROVE process'[a] = process[a] /\ s.mem[a] = mem[a]
    BY <1>1, <1>5, Basics DEF CreatePmo
  <2> QED
    BY <1>5, <2>2, <2>3, <2>4, <2>5, StateIs DEF Gains, PROCESS_OBJ_ID, VMSPACE_OBJ_ID
<1> QED
  BY <1>7, GainsKeep DEF CreatePmo, CapInv, s

\* sys_create_process() keeps the invariant.
LEMMA CreateProcessKeeps ==
  ASSUME CapInv, NEW p \in Processes, NEW q \in Processes, NEW v \in Vmspaces,
         CreateProcess(p, q, v)
  PROVE  CapInv'
<1> DEFINE i == FreeSlot(State, p)
           s1 == CapAlloc(ObjAlloc(State, q), p, q)
           s2 == CapCopy(s1, p, i, q)
           s3 == CapAlloc(ObjAlloc(s2, v), q, v)
<1>1. /\ Counted(State, Null) /\ mem[q] = "unused" /\ mem[v] = "unused"
      /\ q \in Objects /\ v \in Objects /\ v \notin Agents /\ q \notin Agents
      /\ v # q /\ v # Null /\ q # Null
  BY Basics DEF CapInv, Fits, CreateProcess
<1>2. slots[p][0] = p /\ slots[p][1] \in Vmspaces
  BY CurrentLives DEF CreateProcess, PROCESS_OBJ_ID, VMSPACE_OBJ_ID
<1>3. p # q
  BY <1>1, <1>2, NamedIsAllocated, StateIs, Basics
<1>4. \A j \in SlotIds : slots[q][j] = Null
  <2>1. slots[q][0] # q
    BY <1>1, NamedIsAllocated, StateIs, Basics
  <2> QED
    BY <2>1, StateIs DEF CapInv, Fits, TablesFit, PROCESS_OBJ_ID
<1>5. \E j \in SlotIds : slots[p][j] = Null
  BY RoomIs DEF CreateProcess
<1>6. Filled(State, s1, p, q)
  BY <1>1, <1>5, StateIs, AllocFills
<1>7. Becomes(s3)
  BY DEF CreateProcess
<1> HIDE DEF s1
<1>8. /\ i \in SlotIds /\ slots[p][i] = Null /\ Counted(s1, Null)
      /\ \A u \in Processes, j \in SlotIds :
            s1.slots[u][j] = IF u = p /\ j = i THEN q ELSE slots[u][j]
      /\ \A u \in Objects : s1.mem[u] = IF u = q THEN "allocated" ELSE mem[u]
  BY <1>6, StateIs DEF Filled
<1> HIDE DEF i
<1>9. i # 0 /\ i # 1
  BY <1>2, <1>8, Basics
<1>10. Filled(s1, s2, q, q) /\ FreeSlot(s1, q) = 0
  <2>1. s1.slots[p][i] = q /\ \A j \in SlotIds : s1.slots[q][j] = Null
    BY <1>3, <1>4, <1>8
  <2>2. Filled(s1, s2, q, q)
    <3>1. s1.slots[p][i] # Null /\ \E j \in SlotIds : s1.slots[q][j] = Null
      BY <1>1, <2>1, Basics
    <3>2. Filled(s1, s2, q, s1.slots[p][i])
      BY <1>8, <3>1, CopyFills
    <3> QED
      BY <2>1, <3>2
  <2>3. FreeSlot(s1, q) \in SlotIds /\ \A j \in SlotIds : ~(j < FreeSlot(s1, q))
    <3>1. \E j \in SlotIds : s1.slots[q][j] = Null
      BY <2>1, Basics
    <3>2. /\ FreeSlot(s1, q) \in SlotIds
          /\ \A j \in SlotIds : j < FreeSlot(s1, q) => s1.slots[q][j] # Null
      BY <3>1, FreeSlotIs
    <3> QED
      BY <2>1, <3>2
  <2>4. ~(0 < FreeSlot(s1, q)) /\ FreeSlot(s1, q) \in Nat
    BY <2>3, Basics, CapAssumption DEF SlotIds
  <2> QED
    BY <2>2, <2>4
<1> HIDE DEF s2
<1>11. /\ Counted(s2, Null)
       /\ \A u \in Processes, j \in SlotIds :
             s2.slots[u][j] = IF u = q /\ j = 0 THEN q ELSE s1.slots[u][j]
       /\ \A u \in Objects : s2.mem[u] = IF u = q THEN "allocated" ELSE s1.mem[u]
  BY <1>10 DEF Filled
<1>12. Filled(s2, s3, q, v) /\ FreeSlot(s2, q) = 1
  <2>1. s2.slots[q][0] = q /\ \A j \in SlotIds : j # 0 => s2.slots[q][j] = Null
    BY <1>3, <1>4, <1>8, <1>11, Basics
  <2>2. s2.mem[v] = "unused"
    BY <1>1, <1>8, <1>11
  <2>3. s2.slots[q][1] = Null
    BY <2>1, Basics
  <2>4. Filled(s2, s3, q, v)
    BY <1>1, <1>11, <2>2, <2>3, Basics, AllocFills
  <2>5. /\ FreeSlot(s2, q) \in SlotIds /\ s2.slots[q][FreeSlot(s2, q)] = Null
        /\ ~(1 < FreeSlot(s2, q))
    BY <2>3, FreeSlotIs, Basics
  <2>6. FreeSlot(s2, q) # 0 /\ FreeSlot(s2, q) \in Nat
    BY <1>1, <2>1, <2>5, CapAssumption DEF SlotIds
  <2> QED
    BY <2>4, <2>5, <2>6
<1>13. /\ Counted(s3, Null)
       /\ \A u \in Processes, j \in SlotIds :
             s3.slots[u][j] = IF u = q /\ j = 1 THEN v ELSE s2.slots[u][j]
       /\ \A u \in Objects : s3.mem[u] = IF u = v THEN "allocated" ELSE s2.mem[u]
  BY <1>12 DEF Filled
<1> HIDE DEF s3
<1>14. Gains(State, s3, process, process')
  <2>1. ASSUME NEW u \in Processes, NEW j \in SlotIds
        PROVE  s3.slots[u][j] = CASE u = p /\ j = i -> q
                                  [] u = q /\ j = 0 -> q
                                  [] u = q /\ j = 1 -> v
                                  [] OTHER -> slots[u][j]
    BY <1>3, <1>8, <1>11, <1>13
  <2>2. /\ s3.slots[p][0] = p /\ s3.slots[p][1] \in Vmspaces
        /\ s3.slots[q][0] = q /\ s3.slots[q][1] \in Vmspaces
    BY <1>2, <1>3, <1>9, <2>1, Basics
  <2>3. ASSUME NEW u \in Processes, NEW j \in SlotIds
        PROVE  \/ s3.slots[u][j] = slots[u][j]
               \/ slots[u][j] = Null /\ s3.slots[u][0] = u /\ s3.slots[u][1] \in Vmspaces
    <3>1. u # p /\ u # q => s3.slots[u][j] = slots[u][j]
      BY <2>1
    <3>2. u = p => s3.slots[u][j] = slots[u][j] \/ slots[u][j] = Null
      BY <1>3, <1>8, <2>1
    <3>3. u = q => slots[u][j] = Null
      BY <1>4
    <3> QED
      BY <2>2, <3>1, <3>2, <3>3
  <2>4. ASSUME NEW u \in Processes PROVE s3.slots[u][0] = slots[u][0] \/ mem[u] = "unused"
    <3>1. u # q => s3.slots[u][0] = slots[u][0]
      BY <1>9, <2>1, Basics
    <3> QED
      BY <3>1, <1>1
  <2>5. ASSUME NEW u \in Objects
        PROVE  s3.mem[u] = mem[u] \/ (mem[u] = "unused" /\ s3.mem[u] = "allocated")
    BY <1>1, <1>8, <1>11, <1>13
  <2>6. ASSUME NEW a \in Agents PROVE process'[a] = process[a] /\ s3.mem[a] = mem[a]
    <3>1. a # q /\ a # v /\ a \in Objects
      BY <1>1, Basics
    <3> QED
      BY <3>1, <1>8, <1>11, <1>13 DEF CreateProcess
  <2> QED
    BY <1>13, <2>3, <2>4, <2>5, <2>6, StateIs DEF Gains, PROCESS_OBJ_ID, VMSPACE_OBJ_ID
<1> QED
  BY <1>7, <1>14, GainsKeep DEF CreateProcess, CapInv

-----------------------------------------------------------------------------
\* A fresh thread or connection that is put in a table of a process that has not exited.
LEMMA AllocGains ==
  ASSUME NEW s, NEW proc, NEW proc2, Counted(s, Null),
         NEW q \in Processes, NEW r, NEW a \in Agents, Filled(s, r, q, a),
         s.mem[a] = "unused", s.mem[q] = "allocated", s.slots[q][PROCESS_OBJ_ID] = q,
         s.slots[q][VMSPACE_OBJ_ID] \in Vmspaces,
         proc2[a] = q, \A b \in Agents : b # a => proc2[b] = proc[b]
  PROVE  Gains(s, r, proc, proc2)
<1> DEFINE i == FreeSlot(s, q)
<1>1. /\ i \in SlotIds /\ s.slots[q][i] = Null /\ Counted(r, Null)
      /\ \A p \in Processes, j \in SlotIds :
            r.slots[p][j] = IF p = q /\ j = i THEN a ELSE s.slots[p][j]
      /\ \A u \in Objects : r.mem[u] = IF u = a THEN "allocated" ELSE s.mem[u]
  BY DEF Filled
<1> HIDE DEF i
<1>2. /\ r.slots[q][0] = q /\ r.slots[q][1] \in Vmspaces
      /\ s.slots[q][0] = q /\ s.slots[q][1] \in Vmspaces /\ i # 0
  BY <1>1, Basics DEF PROCESS_OBJ_ID, VMSPACE_OBJ_ID
<1>3. ASSUME NEW p \in Processes, NEW j \in SlotIds
      PROVE  \/ r.slots[p][j] = s.slots[p][j]
             \/ s.slots[p][j] = Null /\ r.slots[p][0] = p /\ r.slots[p][1] \in Vmspaces
  BY <1>1, <1>2
<1>4. ASSUME NEW p \in Processes PROVE r.slots[p][0] = s.slots[p][0]
  BY <1>1, <1>2, Basics
<1>5. ASSUME NEW u \in Objects
      PROVE  r.mem[u] = s.mem[u] \/ (s.mem[u] = "unused" /\ r.mem[u] = "allocated")
  BY <1>1
<1>6. ASSUME NEW b \in Agents
      PROVE  /\ proc2[b] = proc[b] \/ s.mem[b] = "unused"
             /\ \/ r.mem[b] = s.mem[b]
                \/ Named(r, proc2[b], b) /\ (b \in Connections => r.mem[proc2[b]] # "unused")
  <2>1. CASE b = a
    <3>1. r.slots[q][i] = a
      BY <1>1
    <3>2. r.mem[q] # "unused"
      BY <1>1, Basics
    <3> QED
      BY <1>1, <2>1, <3>1, <3>2 DEF Named
  <2>2. CASE b # a
    BY <1>1, <2>2, Basics
  <2> QED
    BY <2>1, <2>2
<1> QED
  BY <1>1, <1>3, <1>4, <1>5, <1>6 DEF Gains, PROCESS_OBJ_ID, VMSPACE_OBJ_ID

\* sys_create_thread() keeps the invariant.
LEMMA CreateThreadKeeps ==
  ASSUME CapInv, NEW p \in Processes, NEW i \in SlotIds, NEW t \in Threads,
         CreateThread(p, i, t)
  PROVE  CapInv'
<1> DEFINE q == slots[p][i]
           k == FreeSlot(State, q)
           s1 == CapAlloc(ObjAlloc(State, t), q, t)
           s2 == CapCopy(s1, q, k, p)
<1>1. /\ q \in Processes /\ slots[q][0] = q /\ Becomes(s2) /\ mem[t] = "unused"
      /\ process' = [process EXCEPT ![t] = q] /\ exited' = exited /\ source' = source
      /\ HasRoom(q, 1) /\ HasRoom(p, IF p = q THEN 2 ELSE 1)
  BY DEF CreateThread, NotExited, PROCESS_OBJ_ID
<1>2. slots[p][0] = p /\ slots[p][1] \in Vmspaces
  BY CurrentLives DEF CreateThread, PROCESS_OBJ_ID, VMSPACE_OBJ_ID
<1> HIDE DEF q
<1>3. slots[q][1] \in Vmspaces
  BY <1>1, StateIs, Basics DEF CapInv, Fits, TablesFit, PROCESS_OBJ_ID, VMSPACE_OBJ_ID
<1>4. Counted(State, Null) /\ t \in Objects /\ t \in Agents /\ t # Null
  BY Basics DEF CapInv, Fits
<1>5. mem[q] = "allocated"
  BY <1>1, <1>4, NamedIsAllocated, StateIs, Basics
<1>6. Filled(State, s1, q, t)
  <2>1. \E j \in SlotIds : slots[q][j] = Null
    BY <1>1, RoomIs
  <2> QED
    BY <1>1, <1>4, <2>1, StateIs, AllocFills
<1> HIDE DEF s1
<1>7. /\ k \in SlotIds /\ slots[q][k] = Null /\ Counted(s1, Null)
      /\ \A u \in Processes, j \in SlotIds :
            s1.slots[u][j] = IF u = q /\ j = k THEN t ELSE slots[u][j]
      /\ \A u \in Objects : s1.mem[u] = IF u = t THEN "allocated" ELSE mem[u]
  BY <1>6, StateIs DEF Filled
<1> HIDE DEF k
<1>8. process \in [Agents -> Processes \cup {Null}] /\ process' \in [Agents -> Processes \cup {Null}]
  BY <1>1 DEF CapInv
<1>9. process'[t] = q /\ \A b \in Agents : b # t => process'[b] = process[b]
  BY <1>1, <1>4, <1>8
<1>10. Gains(State, s1, process, process')
  BY <1>1, <1>3, <1>4, <1>5, <1>6, <1>9, StateIs, AllocGains DEF PROCESS_OBJ_ID, VMSPACE_OBJ_ID
<1>11. Fits(s1, process', exited, source)
  BY <1>10, GainsFit DEF CapInv
<1>12. Filled(s1, s2, p, t)
  <2>1. \E j \in SlotIds : s1.slots[p][j] = Null
    <3>1. CASE p = q
      <4>1. \E j \in SlotIds : j # k /\ slots[p][j] = Null
        BY <1>1, <1>7, <3>1, RoomIs
      <4> QED
        BY <1>7, <4>1
    <3>2. CASE p # q
      <4>1. \E j \in SlotIds : slots[p][j] = Null
        BY <1>1, <3>2, RoomIs
      <4> QED
        BY <1>7, <3>2, <4>1
    <3> QED
      BY <3>1, <3>2
  <2>2. s1.slots[q][k] = t
    BY <1>1, <1>7
  <2>3. Filled(s1, s2, p, s1.slots[q][k])
    BY <1>1, <1>4, <1>7, <2>1, <2>2, CopyFills
  <2> QED
    BY <2>2, <2>3
<1> HIDE DEF s2
<1>13. Gains(s1, s2, process', process')
  <2>1. s1.slots[p][0] = p /\ s1.slots[p][1] \in Vmspaces
    <3>1. k # 0 /\ k # 1
      BY <1>1, <1>3, <1>7, Basics
    <3> QED
      BY <1>2, <1>7, <3>1, Basics
  <2>2. s1.mem[t] = "allocated"
    BY <1>4, <1>7
  <2> QED
    BY <1>4, <1>7, <1>12, <2>1, <2>2, CopyGains DEF PROCESS_OBJ_ID, VMSPACE_OBJ_ID
<1>14. Fits(s2, process', exited, source)
  BY <1>11, <1>13, GainsFit
<1>15. Fits(State', process', exited', source')
  BY <1>1, <1>14, BecomesFits
<1> QED
  BY <1>1, <1>8, <1>15 DEF CapInv

\* The three ways to copy a capability: the source slot may be empty.
LEMMA CopyKeeps ==
  ASSUME CapInv, NEW p \in Processes, NEW j \in SlotIds, NEW q \in Processes,
         HasRoom(q, 1), slots[q][PROCESS_OBJ_ID] = q
  PROVE  \A ex, src : Fits(State, process, ex, src)
                        => Fits(CapCopy(State, p, j, q), process, ex, src)
<1> SUFFICES ASSUME NEW ex, NEW src, Fits(State, process, ex, src)
             PROVE  Fits(CapCopy(State, p, j, q), process, ex, src)
  OBVIOUS
<1> DEFINE r == CapCopy(State, p, j, q)
           o == slots[p][j]
<1>1. CASE o = Null
  <2>1. r = State
    BY <1>1, StateIs DEF CapCopy
  <2> QED
    BY <2>1
<1>2. CASE o # Null
  <2>1. Counted(State, Null)
    BY DEF CapInv, Fits
  <2>2. \E k \in SlotIds : slots[q][k] = Null
    BY RoomIs
  <2>3. Filled(State, r, q, o)
    BY <1>2, <2>1, <2>2, StateIs, CopyFills
  <2>4. o \in Objects
    BY <1>2, <2>1, StateIs DEF Counted, Shapes
  <2>5. mem[o] = "allocated"
    BY <2>1, <2>4, StateIs, NamedIsAllocated
  <2>6. slots[q][VMSPACE_OBJ_ID] \in Vmspaces
    BY StateIs, Basics DEF CapInv, Fits, TablesFit, PROCESS_OBJ_ID
  <2> HIDE DEF r, o
  <2>7. Gains(State, r, process, process)
    BY <2>1, <2>3, <2>4, <2>5, <2>6, StateIs, CopyGains
  <2> QED
    BY <2>7, GainsFit DEF r
<1> QED
  BY <1>1, <1>2

\* sys_cap_copy_to() and sys_cap_copy_from() keep the invariant.
LEMMA CopyStepKeeps ==
  ASSUME CapInv, NEW p \in Processes, NEW i \in SlotIds, NEW j \in SlotIds,
         \/ CapCopyTo(p, i, j) /\ NotExited(slots[p][i])
         \/ CapCopyFrom(p, i, j)
  PROVE  CapInv'
<1> DEFINE q == slots[p][i]
<1>0. q \in Processes /\ exited' = exited /\ process' = process /\ source' = source
  BY DEF CapCopyTo, CapCopyFrom
<1>1. CASE CapCopyTo(p, i, j) /\ NotExited(q)
  <2>1. HasRoom(q, 1) /\ slots[q][PROCESS_OBJ_ID] = q /\ Becomes(CapCopy(State, p, j, q))
    BY <1>1 DEF CapCopyTo, NotExited
  <2> HIDE DEF q
  <2>2. Fits(CapCopy(State, p, j, q), process, exited, source)
    BY <1>0, <2>1, CopyKeeps DEF CapInv
  <2>3. Fits(State', process', exited', source')
    BY <1>0, <2>1, <2>2, BecomesFits
  <2> QED
    BY <1>0, <2>3 DEF CapInv
<1>2. CASE CapCopyFrom(p, i, j)
  <2>1. HasRoom(p, 1) /\ Becomes(CapCopy(State, q, j, p))
    BY <1>2 DEF CapCopyFrom
  <2>2. slots[p][PROCESS_OBJ_ID] = p
    BY <1>2, CurrentLives DEF CapCopyFrom
  <2> HIDE DEF q
  <2>3. Fits(CapCopy(State, q, j, p), process, exited, source)
    BY <1>0, <2>1, <2>2, CopyKeeps DEF CapInv
  <2>4. Fits(State', process', exited', source')
    BY <1>0, <2>1, <2>3, BecomesFits
  <2> QED
    BY <1>0, <2>4 DEF CapInv
<1> QED
  BY <1>1, <1>2

-----------------------------------------------------------------------------
\* sys_register_client() keeps the invariant.
LEMMA RegisterClientKeeps ==
  ASSUME CapInv, NEW p \in Processes, NEW i \in SlotIds, NEW c \in Connections,
         RegisterClient(p, i, c)
  PROVE  CapInv'
<1> DEFINE q == process[slots[p][i]]
           k == FreeSlot(State, p)
           s1 == CapAlloc(ObjAlloc(State, c), p, c)
           s2 == CapCopy(s1, p, k, q)
<1>1. /\ slots[p][i] \in Threads /\ Becomes(s2) /\ mem[c] = "unused"
      /\ process' = [process EXCEPT ![c] = q] /\ exited' = exited /\ source' = source
      /\ HasRoom(q, 1) /\ HasRoom(p, IF p = q THEN 2 ELSE 1)
  BY DEF RegisterClient
<1>2. slots[p][0] = p /\ slots[p][1] \in Vmspaces
  BY CurrentLives DEF RegisterClient, PROCESS_OBJ_ID, VMSPACE_OBJ_ID
<1>3. Counted(State, Null) /\ c \in Objects /\ c \in Agents /\ c # Null
  BY Basics DEF CapInv, Fits
<1>4. mem[slots[p][i]] = "allocated"
  BY <1>1, <1>3, NamedIsAllocated, StateIs, Basics
<1>5. /\ q \in Processes /\ slots[q][0] = q /\ slots[q][1] \in Vmspaces /\ mem[q] = "allocated"
  BY <1>1, <1>4, Basics, AgentsLive DEF NotExited, PROCESS_OBJ_ID, VMSPACE_OBJ_ID
<1> HIDE DEF q
<1>6. Filled(State, s1, p, c)
  <2>1. \E j \in SlotIds : slots[p][j] = Null
    BY <1>1, RoomIs
  <2> QED
    BY <1>1, <1>3, <2>1, StateIs, AllocFills
<1> HIDE DEF s1
<1>7. /\ k \in SlotIds /\ slots[p][k] = Null /\ Counted(s1, Null)
      /\ \A u \in Processes, j \in SlotIds :
            s1.slots[u][j] = IF u = p /\ j = k THEN c ELSE slots[u][j]
      /\ \A u \in Objects : s1.mem[u] = IF u = c THEN "allocated" ELSE mem[u]
  BY <1>6, StateIs DEF Filled
<1> HIDE DEF k
<1>8. k # 0 /\ k # 1
  BY <1>2, <1>7, Basics
<1>9. Filled(s1, s2, q, c)
  <2>1. \E j \in SlotIds : s1.slots[q][j] = Null
    <3>1. CASE p = q
      <4>1. \E j \in SlotIds : j # k /\ slots[p][j] = Null
        BY <1>1, <1>7, <3>1, RoomIs
      <4> QED
        BY <1>7, <3>1, <4>1
    <3>2. CASE p # q
      <4>1. \E j \in SlotIds : slots[q][j] = Null
        BY <1>1, <1>5, RoomIs
      <4> QED
        BY <1>5, <1>7, <3>2, <4>1
    <3> QED
      BY <3>1, <3>2
  <2>2. s1.slots[p][k] = c
    BY <1>7
  <2>3. Filled(s1, s2, q, s1.slots[p][k])
    BY <1>3, <1>5, <1>7, <2>1, <2>2, CopyFills
  <2> QED
    BY <2>2, <2>3
<1> HIDE DEF s2
<1>10. PICK l \in SlotIds :
          /\ s1.slots[q][l] = Null /\ Counted(s2, Null)
          /\ \A u \in Processes, j \in SlotIds :
                s2.slots[u][j] = IF u = q /\ j = l THEN c ELSE s1.slots[u][j]
          /\ \A u \in Objects : s2.mem[u] = IF u = c THEN "allocated" ELSE s1.mem[u]
  BY <1>9 DEF Filled
<1>11. l # 0 /\ l # 1
  BY <1>5, <1>7, <1>8, <1>10, Basics
<1>12. process \in [Agents -> Processes \cup {Null}] /\ process' \in [Agents -> Processes \cup {Null}]
  BY <1>1, <1>5 DEF CapInv
<1>13. Gains(State, s2, process, process')
  <2>1. ASSUME NEW u \in Processes
        PROVE  s2.slots[u][0] = slots[u][0] /\ s2.slots[u][1] = slots[u][1]
    BY <1>7, <1>8, <1>10, <1>11, Basics
  <2>2. ASSUME NEW u \in Processes, NEW j \in SlotIds
        PROVE  \/ s2.slots[u][j] = slots[u][j]
               \/ slots[u][j] = Null /\ s2.slots[u][0] = u /\ s2.slots[u][1] \in Vmspaces
    <3>1. CASE u = q /\ j = l
      <4>1. slots[u][j] = Null
        BY <1>3, <1>5, <1>7, <1>10, <3>1
      <4> QED
        BY <1>5, <2>1, <3>1, <4>1
    <3>2. CASE ~(u = q /\ j = l)
      <4>1. s2.slots[u][j] = s1.slots[u][j]
        BY <1>10, <3>2
      <4>2. s1.slots[u][j] = slots[u][j] \/ (u = p /\ slots[u][j] = Null)
        BY <1>7
      <4> QED
        BY <1>2, <2>1, <4>1, <4>2
    <3> QED
      BY <3>1, <3>2
  <2>3. ASSUME NEW u \in Objects
        PROVE  s2.mem[u] = mem[u] \/ (mem[u] = "unused" /\ s2.mem[u] = "allocated")
    BY <1>1, <1>7, <1>10
  <2>4. ASSUME NEW a \in Agents
        PROVE  /\ process'[a] = process[a] \/ mem[a] = "unused"
               /\ \/ s2.mem[a] = mem[a]
                  \/ Named(s2, process'[a], a) /\ (a \in Connections => s2.mem[process'[a]] # "unused")
    <3>1. CASE a = c
      <4>1. process'[a] = q /\ s2.slots[q][l] = a
        BY <1>1, <1>3, <1>5, <1>10, <1>12, <3>1
      <4>2. s2.mem[q] # "unused"
        BY <1>5, <1>7, <1>10, Basics
      <4> QED
        BY <1>1, <1>5, <3>1, <4>1, <4>2 DEF Named
    <3>2. CASE a # c
      <4>1. s2.mem[a] = mem[a]
        BY <1>7, <1>10, <3>2, Basics
      <4> QED
        BY <1>1, <1>12, <3>2, <4>1
    <3> QED
      BY <3>1, <3>2
  <2> QED
    BY <1>10, <2>1, <2>2, <2>3, <2>4, StateIs DEF Gains, PROCESS_OBJ_ID, VMSPACE_OBJ_ID
<1> QED
  BY <1>1, <1>12, <1>13, GainsKeep

-----------------------------------------------------------------------------
\* The capabilities in a message: none, or that of one slot.
LEMMA CopyAllIs ==
  ASSUME NEW s, NEW p, NEW q, NEW j
  PROVE  CapCopyAll(s, p, {}, q) = s /\ CapCopyAll(s, p, {j}, q) = CapCopy(s, p, j, q)
<1> DEFINE Pick(T) == CHOOSE x \in T : TRUE
           Body(g, T) == IF T = {} THEN s ELSE CapCopy(g[T \ {Pick(T)}], p, Pick(T), q)
           iter(S) == CHOOSE g : g = [T \in SUBSET S |-> Body(g, T)]
<1>1. \A S : CapCopyAll(s, p, S, q) = iter(S)[S]
  BY Zenon DEF CapCopyAll, FoldSet, MapThenFoldSet
<1>2. iter({})[{}] = s
  <2> DEFINE g == [T \in SUBSET {} |-> s]
  <2>1. g = [T \in SUBSET {} |-> Body(g, T)]
    OBVIOUS
  <2>2. iter({}) = [T \in SUBSET {} |-> Body(iter({}), T)]
    <3> HIDE DEF Body, g
    <3> QED
      BY <2>1
  <2> HIDE DEF iter
  <2> QED
    BY <2>2
<1>3. iter({j})[{j}] = CapCopy(s, p, j, q)
  <2>0. Pick({j}) = j /\ {j} \ {j} = {} /\ SUBSET {j} = {{}, {j}} /\ {} # {j}
    OBVIOUS
  <2> DEFINE g == [T \in SUBSET {j} |-> IF T = {} THEN s ELSE CapCopy(s, p, j, q)]
  <2>1. g = [T \in SUBSET {j} |-> Body(g, T)]
    <3>1. Body(g, {}) = s
      OBVIOUS
    <3>2. g[{}] = s
      OBVIOUS
    <3> HIDE DEF Pick
    <3>3. Body(g, {j}) = CapCopy(s, p, j, q)
      <4> HIDE DEF g
      <4> QED
        BY <2>0, <3>2
    <3>4. \A T \in SUBSET {j} : Body(g, T) = IF T = {} THEN s ELSE CapCopy(s, p, j, q)
      <4> HIDE DEF g, Body
      <4> QED
        BY <2>0, <3>1, <3>3
    <3> DEFINE B(T) == Body(g, T)
               C(T) == IF T = {} THEN s ELSE CapCopy(s, p, j, q)
    <3>5. \A T \in SUBSET {j} : B(T) = C(T)
      BY <3>4
    <3> HIDE DEF B, C
    <3>6. [T \in SUBSET {j} |-> B(T)] = [T \in SUBSET {j} |-> C(T)]
      BY <3>5
    <3> QED
      BY <3>6, Zenon DEF g, B, C
  <2>2. iter({j}) = [T \in SUBSET {j} |-> Body(iter({j}), T)]
    <3> HIDE DEF Body, g
    <3> QED
      BY <2>1
  <2> HIDE DEF iter, Pick
  <2>3. iter({j})[{}] = s
    BY <2>2
  <2> QED
    BY <2>0, <2>2, <2>3
<1> QED
  BY <1>1, <1>2, <1>3, Zenon

\* sys_ipc_call(), with the capabilities it hands over, keeps the invariant.
LEMMA IpcCallKeeps ==
  ASSUME CapInv, NEW a \in Agents, NEW i \in SlotIds,
         NEW js \in {{}} \cup {{j} : j \in SlotIds},
         process[a] # Null, NotExited(process[slots[process[a]][i]]), IpcCall(a, i, js)
  PROVE  CapInv'
<1> DEFINE p == process[a]
           c == slots[p][i]
           q == process[c]
<1>1. /\ Runs(a) /\ c \in Connections /\ source[c] = Null
      /\ HasRoom(q, Cardinality(js)) /\ Becomes(CapCopyAll(State, p, js, q))
      /\ source' = [source EXCEPT ![c] = a] /\ exited' = exited /\ process' = process
  BY DEF IpcCall
<1>2. /\ process \in [Agents -> Processes \cup {Null}] /\ Counted(State, Null)
      /\ source \in [Connections -> Agents \cup {Null}]
  BY DEF CapInv, Fits
<1>3. p \in Processes /\ slots[q][PROCESS_OBJ_ID] = q
  BY <1>2 DEF NotExited
<1> HIDE DEF p
<1>4. mem[c] = "allocated"
  BY <1>1, <1>2, <1>3, NamedIsAllocated, StateIs, Basics
<1>5. q \in Processes
  BY <1>1, <1>4, StateIs DEF CapInv, Fits, AgentsFit
<1> HIDE DEF c, q
<1>6. Fits(State, process, exited, source')
  <2>1. ASSUME NEW d \in Connections, source'[d] # Null
        PROVE  /\ mem[d] # "unused" /\ slots[process[d]][PROCESS_OBJ_ID] = process[d]
               /\ source'[d] \in Threads => mem[source'[d]] = "allocated"
    <3>1. CASE d = c
      <4>1. source'[d] = a
        BY <1>1, <1>2, <3>1
      <4>2. a \in Threads => mem[a] = "allocated"
        BY <1>1 DEF Runs, Allocated
      <4> QED
        BY <1>3, <1>4, <3>1, <4>1, <4>2 DEF q
    <3>2. CASE d # c
      <4>1. source'[d] = source[d]
        BY <1>1, <1>2, <3>2
      <4> QED
        BY <2>1, <4>1, StateIs DEF CapInv, Fits, CallsFit
    <3> QED
      BY <3>1, <3>2
  <2>2. CallsFit(State, process, source')
    BY <2>1, StateIs DEF CallsFit
  <2> QED
    BY <2>2 DEF CapInv, Fits
<1>7. Fits(CapCopyAll(State, p, js, q), process, exited, source')
  <2>1. CASE js = {}
    BY <1>6, <2>1, CopyAllIs
  <2>2. CASE js # {}
    <3>1. PICK j \in SlotIds : js = {j}
      BY <2>2
    <3>2. Cardinality(js) = 1
      BY <3>1, FS_Singleton
    <3>3. Fits(CapCopy(State, p, j, q), process, exited, source')
      BY <1>1, <1>3, <1>5, <1>6, <3>2, CopyKeeps
    <3> QED
      BY <3>1, <3>3, CopyAllIs
  <2> QED
    BY <2>1, <2>2
<1>8. Fits(State', process', exited', source')
  BY <1>1, <1>7, BecomesFits
<1>9. source' \in [Connections -> Agents \cup {Null}]
  BY <1>1, <1>2
<1> QED
  BY <1>1, <1>2, <1>8, <1>9 DEF CapInv

\* sys_ipc_return() keeps the invariant.
LEMMA IpcReturnKeeps ==
  ASSUME CapInv, NEW c \in Connections, IpcReturn(c)
  PROVE  CapInv'
<1>1. /\ source' = [source EXCEPT ![c] = Null] /\ UNCHANGED <<State, exited, process>>
  BY DEF IpcReturn, State
<1>2. source \in [Connections -> Agents \cup {Null}]
  BY DEF CapInv
<1>3. \A d \in Connections : source'[d] # Null => source'[d] = source[d]
  BY <1>1, <1>2
<1>4. CallsFit(State, process, source')
  BY <1>3 DEF CapInv, Fits, CallsFit
<1>5. Fits(State, process, exited, source')
  BY <1>4 DEF CapInv, Fits
<1>6. Fits(State', process', exited', source')
  BY <1>1, <1>5
<1>7. source' \in [Connections -> Agents \cup {Null}]
  BY <1>1, <1>2
<1> QED
  BY <1>1, <1>6, <1>7 DEF CapInv

-----------------------------------------------------------------------------
\* sys_exit(): the thread loses its names, and its process all of its slots if the
\* thread was the last one.
Lost(r, t, last) ==
    /\ Counted(r, Null)
    /\ \A p \in Processes, i \in SlotIds :
          r.slots[p][i] = IF slots[p][i] = t \/ (last /\ p = process[t]) THEN Null ELSE slots[p][i]
    /\ \A o \in Objects : r.mem[o] = mem[o] \/ (mem[o] = "allocated" /\ r.mem[o] = "freed")

\* Freeing a thread takes away one object, and the slots that named it.
LEMMA ObjFreeIs ==
  ASSUME CapInv, NEW t \in Threads, mem[t] = "allocated"
  PROVE  Lost(ObjFree(State, t), t, ThreadList(process[t]) = {t})
<1> DEFINE p == process[t]
           u == CapFreeAll(State, State.copies[t])
           r == ProcessExit(u, p)
<1>1. Counted(State, Null) /\ t \in Objects /\ t \in Agents /\ t # Null /\ t \notin Processes
  BY Basics DEF CapInv, Fits
<1>2. p \in Processes /\ slots[p][PROCESS_OBJ_ID] = p
  BY <1>1, AgentsLive DEF NotExited
<1> HIDE DEF p
<1>3. /\ IsFiniteSet(State.copies[t]) /\ State.copies[t] \in SUBSET (Processes \X SlotIds)
      /\ \A q \in Processes, i \in SlotIds : <<q, i>> \in State.copies[t] <=> slots[q][i] = t
  <2>1. IsFiniteSet(State.copies[t])
    BY <1>1 DEF Counted
  <2>2. State.copies[t] \in SUBSET (Processes \X SlotIds)
    BY <1>1 DEF Counted, Shapes
  <2>3. \A q \in Processes, i \in SlotIds : <<q, i>> \in State.copies[t] <=> slots[q][i] = t
    BY <1>1, StateIs DEF Counted
  <2> QED
    BY <2>1, <2>2, <2>3
<1>4. \A c \in State.copies[t] : State.slots[c[1]][c[2]] # Null
  <2> SUFFICES ASSUME NEW c \in State.copies[t] PROVE State.slots[c[1]][c[2]] # Null
    OBVIOUS
  <2>1. c = <<c[1], c[2]>> /\ c[1] \in Processes /\ c[2] \in SlotIds
    BY <1>3
  <2>2. slots[c[1]][c[2]] = t
    BY <1>3, <2>1
  <2> QED
    BY <1>1, <2>2, StateIs
<1>5. Counted(u, Null) /\ Cleared(State, u, State.copies[t])
  BY <1>1, <1>3, <1>4, CapFreeAllKeeps
<1> HIDE DEF u
<1>6. /\ \A q \in Processes, i \in SlotIds :
            u.slots[q][i] = IF slots[q][i] = t THEN Null ELSE slots[q][i]
      /\ \A o \in Objects : u.mem[o] = mem[o] \/ (mem[o] = "allocated" /\ u.mem[o] = "freed")
  BY <1>3, <1>5, StateIs DEF Cleared
<1>7. CASE ThreadList(p) # {t}
  <2>1. ObjFree(State, t) = u
    BY <1>7 DEF ObjFree, u, p
  <2> QED
    BY <1>5, <1>6, <1>7, <2>1 DEF Lost, p
<1>8. CASE ThreadList(p) = {t}
  <2>1. ObjFree(State, t) = r
    BY <1>8 DEF ObjFree, u, p
  <2>2. u.slots[p][PROCESS_OBJ_ID] = p
    BY <1>1, <1>2, <1>6, Basics DEF PROCESS_OBJ_ID
  <2>3. Counted(r, Null) /\ Cleared(u, r, {p} \X SlotIds)
    BY <1>2, <1>5, <2>2, ProcessExitKeeps
  <2> HIDE DEF r
  <2>4. ASSUME NEW q \in Processes, NEW i \in SlotIds
        PROVE  r.slots[q][i] = IF slots[q][i] = t \/ q = p THEN Null ELSE slots[q][i]
    <3>1. r.slots[q][i] = IF <<q, i>> \in {p} \X SlotIds THEN Null ELSE u.slots[q][i]
      BY <2>3 DEF Cleared
    <3> QED
      BY <1>6, <3>1
  <2>5. ASSUME NEW o \in Objects
        PROVE  r.mem[o] = mem[o] \/ (mem[o] = "allocated" /\ r.mem[o] = "freed")
    <3>1. r.mem[o] = u.mem[o] \/ (u.mem[o] = "allocated" /\ r.mem[o] = "freed")
      BY <2>3 DEF Cleared
    <3> QED
      BY <1>6, <3>1
  <2> QED
    BY <1>8, <2>1, <2>3, <2>4, <2>5 DEF Lost, p
<1> QED
  BY <1>7, <1>8 DEF p

\* sys_exit() of a thread that serves nobody keeps the invariant.
LEMMA ExitKeeps ==
  ASSUME CapInv, NEW t \in Threads, ServesNobody(t), Exit(t)
  PROVE  CapInv'
<1> DEFINE r == ObjFree(State, t)
           last == ThreadList(process[t]) = {t}
<1>1. /\ mem[t] = "allocated" /\ (\A c \in Connections : source[c] # t)
      /\ exited' = exited \cup {t} /\ Becomes(r) /\ process' = process /\ source' = source
  BY DEF Exit, Runs, Waiting, Allocated
<1>2. Lost(r, t, last)
  BY <1>1, ObjFreeIs
<1> HIDE DEF r
<1>3. /\ Counted(r, Null) /\ Counted(State, Null)
      /\ \A p \in Processes, i \in SlotIds :
            r.slots[p][i] = IF slots[p][i] = t \/ (last /\ p = process[t]) THEN Null ELSE slots[p][i]
      /\ \A o \in Objects : r.mem[o] = mem[o] \/ (mem[o] = "allocated" /\ r.mem[o] = "freed")
  BY <1>2 DEF Lost, CapInv, Fits
<1>4. t \in Objects /\ t \notin Processes /\ t \notin Vmspaces /\ t \notin Connections
  BY Basics
<1>5. TablesFit(r)
  <2> SUFFICES ASSUME NEW p \in Processes
               PROVE  \/ r.slots[p][0] = p /\ r.slots[p][1] \in Vmspaces
                      \/ \A i \in SlotIds : r.slots[p][i] = Null
    BY DEF TablesFit, PROCESS_OBJ_ID, VMSPACE_OBJ_ID
  <2>1. \/ slots[p][0] = p /\ slots[p][1] \in Vmspaces
        \/ \A i \in SlotIds : slots[p][i] = Null
    BY StateIs DEF CapInv, Fits, TablesFit, PROCESS_OBJ_ID, VMSPACE_OBJ_ID
  <2>2. CASE last /\ p = process[t]
    BY <1>3, <2>2
  <2>3. CASE ~(last /\ p = process[t])
    BY <1>3, <1>4, <2>1, <2>3, Basics
  <2> QED
    BY <2>2, <2>3
\* A name of another object stays, unless its process exits.
<1>6. ASSUME NEW p \in Processes, NEW o \in Objects, o # t, Named(State, p, o),
             ~(last /\ p = process[t])
      PROVE  Named(r, p, o) /\ r.mem[o] = "allocated"
  <2>1. PICK i \in SlotIds : slots[p][i] = o
    BY <1>6, StateIs DEF Named
  <2>2. r.slots[p][i] = o
    BY <1>3, <1>6, <2>1
  <2>3. r.mem[o] = "allocated"
    BY <1>3, <2>2, NamedIsAllocated
  <2> QED
    BY <2>2, <2>3 DEF Named
<1>7. ASSUME NEW u \in Threads, u # t, mem[u] = "allocated"
      PROVE  r.mem[u] = "allocated" /\ Named(r, process[u], u)
  <2>1. Named(State, process[u], u) /\ process[u] \in Processes
    BY <1>7, StateIs DEF CapInv, Fits, AgentsFit, Named
  <2>2. ~(last /\ process[u] = process[t])
    BY <1>7 DEF ThreadList, Allocated
  <2> QED
    BY <1>6, <1>7, <2>1, <2>2, Basics
<1>8. r.mem[t] = "freed"
  <2>1. ASSUME NEW p \in Processes, NEW i \in SlotIds PROVE r.slots[p][i] # t
    BY <1>3, <1>4, Basics
  <2>2. r.mem[t] # "allocated"
    BY <1>3, <1>4, <2>1, NamedIsAllocated
  <2> QED
    BY <1>1, <1>3, <1>4, <2>2
<1>9. AgentsFit(r, process, exited')
  <2>1. ASSUME NEW u \in Threads
        PROVE  /\ r.mem[u] = "allocated" => Named(r, process[u], u)
               /\ r.mem[u] = "freed" <=> u \in exited'
    <3>1. CASE u = t
      BY <1>1, <1>8, <3>1
    <3>2. CASE u # t
      <4>1. mem[u] = "freed" <=> u \in exited
        BY StateIs DEF CapInv, Fits, AgentsFit
      <4>2. r.mem[u] = mem[u] \/ (mem[u] = "allocated" /\ r.mem[u] = "freed")
        BY <1>3, Basics
      <4> QED
        BY <1>1, <1>7, <3>2, <4>1, <4>2
    <3> QED
      BY <3>1, <3>2
  <2>2. ASSUME NEW c \in Connections, r.mem[c] # "unused"
        PROVE  /\ process[c] \in Processes /\ r.mem[process[c]] # "unused"
               /\ r.slots[process[c]][PROCESS_OBJ_ID] = process[c] => Named(r, process[c], c)
    <3>1. mem[c] # "unused"
      BY <1>3, <2>2, Basics
    <3>2. /\ process[c] \in Processes /\ mem[process[c]] # "unused"
          /\ slots[process[c]][PROCESS_OBJ_ID] = process[c] => Named(State, process[c], c)
      BY <3>1, StateIs DEF CapInv, Fits, AgentsFit
    <3>3. r.mem[process[c]] # "unused"
      BY <1>3, <3>2, Basics
    <3>4. ASSUME r.slots[process[c]][0] = process[c] PROVE Named(r, process[c], c)
      <4>1. slots[process[c]][0] = process[c] /\ ~(last /\ process[c] = process[t])
        BY <1>3, <3>2, <3>4, Basics
      <4> QED
        BY <1>4, <1>6, <3>2, <4>1, Basics DEF PROCESS_OBJ_ID
    <3> QED
      BY <3>2, <3>3, <3>4 DEF PROCESS_OBJ_ID
  <2> QED
    BY <2>1, <2>2 DEF AgentsFit
<1>10. CallsFit(r, process, source)
  <2> SUFFICES ASSUME NEW c \in Connections, source[c] # Null
               PROVE  /\ r.mem[c] # "unused" /\ r.slots[process[c]][PROCESS_OBJ_ID] = process[c]
                      /\ source[c] \in Threads => r.mem[source[c]] = "allocated"
    BY DEF CallsFit
  <2>1. /\ mem[c] # "unused" /\ slots[process[c]][0] = process[c]
        /\ source[c] \in Threads => mem[source[c]] = "allocated"
    BY StateIs DEF CapInv, Fits, CallsFit, PROCESS_OBJ_ID
  <2>2. process[c] \in Processes
    BY <2>1, StateIs DEF CapInv, Fits, AgentsFit
  <2>3. ~(last /\ process[c] = process[t])
    BY DEF ServesNobody
  <2>4. r.mem[c] # "unused"
    BY <1>3, <2>1, Basics
  <2>5. r.slots[process[c]][0] = process[c]
    BY <1>3, <1>4, <2>1, <2>2, <2>3, Basics
  <2>6. source[c] \in Threads => r.mem[source[c]] = "allocated"
    BY <1>1, <1>7, <2>1
  <2> QED
    BY <2>4, <2>5, <2>6 DEF PROCESS_OBJ_ID
<1>11. Fits(r, process', exited', source')
  BY <1>1, <1>3, <1>5, <1>9, <1>10 DEF Fits
<1>12. Fits(State', process', exited', source')
  BY <1>1, <1>11, BecomesFits
<1> QED
  BY <1>1, <1>12 DEF CapInv

-----------------------------------------------------------------------------
\* The invariant holds when the root process is made.
LEMMA CapBoots ==
  ASSUME Init
  PROVE  CapInv
<1> DEFINE Place(o) == {i \in SlotIds : RootSlots[i] = o}
<1>1. /\ Root \in Objects /\ RootThread \in Objects /\ RootVmspace \in Objects /\ Null \notin Objects
      /\ Root # RootThread /\ Root # RootVmspace /\ RootThread # RootVmspace
      /\ Root \in Processes /\ RootThread \in Threads /\ RootVmspace \in Vmspaces
  BY Basics, CapAssumption
<1>2. /\ \A i \in SlotIds : RootSlots[i] = CASE i = 0 -> Root [] i = 1 -> RootVmspace
                                             [] i = 2 -> RootThread [] OTHER -> Null
      /\ RootSlots \in [SlotIds -> Objects \cup {Null}]
  BY <1>1 DEF RootSlots, PROCESS_OBJ_ID, VMSPACE_OBJ_ID
<1>3. /\ Place(Root) = {0} /\ Place(RootVmspace) = {1} /\ Place(RootThread) = {2}
      /\ \A o \in Objects : o \notin RootObjects => Place(o) = {}
  BY <1>1, <1>2, Basics DEF RootObjects
<1>4. /\ slots = [p \in Processes |-> IF p = Root THEN RootSlots ELSE [i \in SlotIds |-> Null]]
      /\ copies = [o \in Objects |-> {Root} \X Place(o)]
      /\ refcount = [o \in Objects |-> IF o \in RootObjects THEN 1 ELSE 0]
      /\ mem = [o \in Objects |-> IF o \in RootObjects THEN "allocated" ELSE "unused"]
      /\ exited = {}
      /\ process = [a \in Agents |-> IF a = RootThread THEN Root ELSE Null]
      /\ source = [c \in Connections |-> Null]
  BY DEF Init
<1>5. State \in Shapes
  <2>1. slots \in [Processes -> [SlotIds -> Objects \cup {Null}]]
    BY <1>2, <1>4
  <2>2. copies \in [Objects -> SUBSET (Processes \X SlotIds)]
    BY <1>1, <1>4
  <2>3. refcount \in [Objects -> Nat] /\ mem \in [Objects -> MemStates]
    BY <1>4 DEF MemStates
  <2> QED
    BY <2>1, <2>2, <2>3 DEF State, Shapes
<1>6. ASSUME NEW o \in Objects
      PROVE  /\ IsFiniteSet(copies[o])
             /\ refcount[o] = Cardinality(copies[o]) + (IF o = Null THEN 1 ELSE 0)
             /\ mem[o] = "allocated" <=> refcount[o] > 0
  <2>1. copies[o] = {Root} \X Place(o) /\ o # Null
    BY <1>1, <1>4
  <2>2. CASE o \in RootObjects
    <3>1. PICK i : Place(o) = {i}
      BY <1>3, <2>2 DEF RootObjects
    <3> HIDE DEF Place
    <3>2. copies[o] = {<<Root, i>>}
      BY <2>1, <3>1
    <3>3. IsFiniteSet(copies[o]) /\ Cardinality(copies[o]) = 1
      BY <3>2, FS_Singleton
    <3> QED
      BY <1>4, <2>1, <2>2, <3>3
  <2>3. CASE o \notin RootObjects
    <3>1. copies[o] = {}
      BY <1>3, <2>1, <2>3
    <3>2. IsFiniteSet(copies[o]) /\ Cardinality(copies[o]) = 0
      BY <3>1, FS_EmptySet
    <3> QED
      BY <1>4, <2>1, <2>3, <3>2
  <2> QED
    BY <2>2, <2>3
<1>7. ASSUME NEW o \in Objects, NEW p \in Processes, NEW i \in SlotIds
      PROVE  <<p, i>> \in copies[o] <=> slots[p][i] = o
  <2>1. copies[o] = {Root} \X Place(o) /\ o # Null
    BY <1>1, <1>4
  <2>2. slots[p][i] = IF p = Root THEN RootSlots[i] ELSE Null
    BY <1>4
  <2> QED
    BY <2>1, <2>2
<1>8. Counted(State, Null)
  BY <1>5, <1>6, <1>7, StateIs DEF Counted
<1>9. TablesFit(State)
  BY <1>1, <1>2, <1>4, StateIs, Basics DEF TablesFit, PROCESS_OBJ_ID, VMSPACE_OBJ_ID
<1>10. AgentsFit(State, process, exited)
  <2>1. ASSUME NEW t \in Threads
        PROVE  /\ mem[t] = "allocated" => Named(State, process[t], t)
               /\ mem[t] # "freed"
    <3>1. mem[t] = IF t \in RootObjects THEN "allocated" ELSE "unused"
      BY <1>4, Basics
    <3>2. t \in RootObjects => t = RootThread
      BY <1>1, Basics DEF RootObjects
    <3>3. process[RootThread] = Root /\ slots[Root][2] = RootThread
      BY <1>1, <1>2, <1>4, Basics
    <3> QED
      BY <1>1, <3>1, <3>2, <3>3, StateIs, Basics DEF Named
  <2>2. ASSUME NEW c \in Connections PROVE mem[c] = "unused"
    <3>1. c \notin RootObjects /\ c \in Objects
      BY <1>1, Basics DEF RootObjects
    <3> QED
      BY <1>4, <3>1
  <2> QED
    BY <1>4, <2>1, <2>2, StateIs DEF AgentsFit
<1>11. CallsFit(State, process, source)
  BY <1>4 DEF CallsFit
<1>12. /\ process \in [Agents -> Processes \cup {Null}]
       /\ source \in [Connections -> Agents \cup {Null}]
  BY <1>1, <1>4
<1> QED
  BY <1>8, <1>9, <1>10, <1>11, <1>12 DEF CapInv, Fits

\* Counts, tables, threads and calls fit together, whatever the sets and the size of the
\* tables: capability.c, process.c, and the creation of threads and connections.
THEOREM CapabilityInvariant == Spec => []CapInv
<1>1. CapInv /\ [Next]_vars => CapInv'
  <2> SUFFICES ASSUME CapInv, [Next]_vars PROVE CapInv'
    OBVIOUS
  <2>1. CASE Create
    BY <2>1, CreateProcessKeeps, CreateThreadKeeps, CreatePmoKeeps, RegisterClientKeeps DEF Create
  <2>2. CASE Ipc
    BY <2>2, IpcCallKeeps, IpcReturnKeeps DEF Ipc
  <2>3. CASE CopyToUsed
    BY <2>3, CopyStepKeeps DEF CopyToUsed
  <2>4. CASE CopyFrom
    BY <2>4, CopyStepKeeps DEF CopyFrom
  <2>5. CASE Exits
    BY <2>5, ExitKeeps DEF Exits
  <2>6. CASE UNCHANGED vars
    <3>1. /\ UNCHANGED State /\ process' = process /\ exited' = exited /\ source' = source
      BY <2>6 DEF vars, State
    <3>2. Fits(State', process', exited', source')
      BY <3>1 DEF CapInv
    <3> QED
      BY <3>1, <3>2 DEF CapInv
  <2> QED
    BY <2>1, <2>2, <2>3, <2>4, <2>5, <2>6 DEF Next
<1> QED
  BY <1>1, CapBoots, PTL DEF Spec

\* The count of an object is the number of slots that name it, its list of copies links
\* those, and it is freed with the last of them (obj_get(), obj_put() and cap_free()).
THEOREM CountsAreExact == Spec => []RefcountExact
<1>1. CapInv => RefcountExact
  <2> SUFFICES ASSUME CapInv, NEW o \in Objects
               PROVE  /\ copies[o] = Naming(o) /\ refcount[o] = Cardinality(Naming(o))
                      /\ Allocated(o) <=> refcount[o] > 0
    BY DEF RefcountExact
  <2>1. Counted(State, Null) /\ o # Null
    BY Basics DEF CapInv, Fits
  <2>2. copies[o] \in SUBSET (Processes \X SlotIds)
    BY <2>1, StateIs DEF Counted, Shapes
  <2>3. \A p \in Processes, i \in SlotIds : <<p, i>> \in copies[o] <=> slots[p][i] = o
    BY <2>1, StateIs DEF Counted
  <2>4. copies[o] = Naming(o)
    BY <2>2, <2>3 DEF Naming
  <2>5. /\ refcount[o] = Cardinality(copies[o]) + 0 /\ IsFiniteSet(copies[o])
        /\ mem[o] = "allocated" <=> refcount[o] > 0
    BY <2>1, StateIs DEF Counted
  <2>6. Cardinality(copies[o]) \in Nat
    BY <2>5, FS_CardinalityType
  <2> QED
    BY <2>4, <2>5, <2>6 DEF Allocated
<1> QED
  BY <1>1, CapabilityInvariant, PTL

\* process_exit() has emptied the table of a process before it is freed.
THEOREM AllCapsReleased == Spec => []ReleasesAllCaps
<1>1. CapInv => ReleasesAllCaps
  <2> SUFFICES ASSUME CapInv, NEW p \in Processes, mem[p] = "freed"
               PROVE  \A i \in SlotIds : slots[p][i] = Null
    BY DEF ReleasesAllCaps
  <2>1. slots[p][0] # p
    BY NamedIsAllocated, StateIs, Basics DEF CapInv, Fits
  <2> QED
    BY <2>1, StateIs DEF CapInv, Fits, TablesFit, PROCESS_OBJ_ID
<1> QED
  BY <1>1, CapabilityInvariant, PTL

\* The process and the address space that a thread points to without a reference stay as
\* long as the thread (thread_init(), thread_deinit()).
THEOREM ThreadsKeepProcess == Spec => []ThreadsKeepTheirProcess
<1>1. CapInv => ThreadsKeepTheirProcess
  <2> SUFFICES ASSUME CapInv, NEW t \in Threads
               PROVE  /\ Allocated(t) =>
                           /\ NotExited(process[t])
                           /\ slots[process[t]][VMSPACE_OBJ_ID] \in Vmspaces
                           /\ t \in {slots[process[t]][i] : i \in SlotIds}
                      /\ mem[t] = "freed" <=> t \in exited
    BY DEF ThreadsKeepTheirProcess
  <2>1. mem[t] = "freed" <=> t \in exited
    BY StateIs DEF CapInv, Fits, AgentsFit
  <2>2. ASSUME Allocated(t)
        PROVE  /\ NotExited(process[t]) /\ slots[process[t]][VMSPACE_OBJ_ID] \in Vmspaces
               /\ t \in {slots[process[t]][i] : i \in SlotIds}
    BY <2>2, AgentsLive, Basics DEF Allocated
  <2> QED
    BY <2>1, <2>2
<1> QED
  BY <1>1, CapabilityInvariant, PTL

\* While a call is served, all that it uses is allocated, though the kernel has dropped
\* its reference to the connection (thread_migrate_to_server()).
THEOREM CallsAreValid == Spec => []CallsStayValid
<1>1. CapInv => CallsStayValid
  <2> SUFFICES ASSUME CapInv, NEW c \in Connections, source[c] # Null
               PROVE  /\ Allocated(c) /\ NotExited(process[c])
                      /\ slots[process[c]][VMSPACE_OBJ_ID] \in Vmspaces
                      /\ source[c] \in Threads => Allocated(source[c])
    BY DEF CallsStayValid
  <2>1. /\ mem[c] # "unused" /\ slots[process[c]][PROCESS_OBJ_ID] = process[c]
        /\ source[c] \in Threads => mem[source[c]] = "allocated"
    BY StateIs DEF CapInv, Fits, CallsFit
  <2>2. NotExited(process[c]) /\ slots[process[c]][VMSPACE_OBJ_ID] \in Vmspaces
    BY AgentsLive, Basics
  <2>3. Named(State, process[c], c)
    BY <2>1, StateIs DEF CapInv, Fits, AgentsFit
  <2>4. mem[c] = "allocated"
    BY <2>3, NamedIsAllocated, StateIs, Basics DEF Named, CapInv, Fits
  <2> QED
    BY <2>1, <2>2, <2>4 DEF Allocated
<1> QED
  BY <1>1, CapabilityInvariant, PTL
=============================================================================
