--------------------------- MODULE VMSpaceProofs ----------------------------
(***************************************************************************)
(* Address spaces, proved for any number of spaces, memory objects, sizes, *)
(* levels and entries per level: the regions of a space are disjoint, and  *)
(* its page table says what its regions say.  Disjointness is what makes   *)
(* the agreement last: the entries that an unmapping makes invalid belong  *)
(* to no other region, and the region that a fault finds is the only one.  *)
(***************************************************************************)
EXTENDS VMSpace, DataLemmas, TLAPS

AnyRegion == [start : Int, size : Int, pmo : Pmos \cup HeapPmos, perm : Perms]

\* The regions of a space whose heap has size h: V is the list.
Fits(s, V, h) ==
    /\ V \in Seq(AnyRegion) /\ h \in Nat \cup {-1}
    /\ \A i \in 1..Len(V) :
          /\ V[i].pmo \in Pmos => V[i].size = PmoSize[V[i].pmo]
          /\ V[i].pmo \notin Pmos => /\ V[i].pmo = HeapPmo[s] /\ V[i].start = HeapStart
                                     /\ V[i].size = h /\ h # -1
    /\ h # -1 => \E i \in 1..Len(V) : V[i].pmo = HeapPmo[s]
    /\ \A i, j \in 1..Len(V) : i # j => /\ Covered(V[i]) \cap Covered(V[j]) = {}
                                        /\ V[i].pmo = V[j].pmo => V[i].pmo \in Pmos

\* A page table: where it has a valid entry, get_next_ptp() finds its way.
IsTable(t) ==
    /\ t = [ptps |-> t.ptps, ptes |-> t.ptes]
    /\ t.ptes = [page \in Pages |-> t.ptes[page]]
    /\ \A page \in Pages : t.ptes[page].valid => Reaches(t, page)

\* The entries of a table are those of the regions.
Agrees(V, t) ==
    \A page \in Pages :
        /\ \A e \in Query(t, page) : \E i \in 1..Len(V) :
              /\ page \in Covered(V[i]) /\ e.frame = Frame(V[i], page)
              /\ e.perm = V[i].perm /\ Type(V[i].pmo) # "DEVICE"
        /\ \A i \in 1..Len(V) :
              page \in Covered(V[i]) /\ Type(V[i].pmo) = "DATA" => Query(t, page) # {}

Good(s, V, t, h) == Fits(s, V, h) /\ IsTable(t) /\ Agrees(V, t)

SpacesGood ==
    /\ vmrs = [s \in Spaces |-> vmrs[s]]
    /\ pgtbl = [s \in Spaces |-> pgtbl[s]]
    /\ heap = [s \in Spaces |-> heap[s]]
    /\ \A s \in Spaces : Good(s, vmrs[s], pgtbl[s], heap[s])

-----------------------------------------------------------------------------
(* Lists of regions *)

\* list_add() to the head of vmr_list
LEMMA Added ==
  ASSUME NEW V \in Seq(AnyRegion), NEW vmr \in AnyRegion
  PROVE  /\ <<vmr>> \o V \in Seq(AnyRegion)
         /\ Len(<<vmr>> \o V) = Len(V) + 1
         /\ (<<vmr>> \o V)[1] = vmr
         /\ \A i \in 1..(Len(V) + 1) : i # 1 =>
               i - 1 \in 1..Len(V) /\ (<<vmr>> \o V)[i] = V[i - 1]
         /\ \A i \in 1..Len(V) : (<<vmr>> \o V)[i + 1] = V[i]
OBVIOUS

\* One list after another.
LEMMA Concatenated ==
  ASSUME NEW S, NEW a \in Seq(S), NEW b \in Seq(S)
  PROVE  /\ a \o b \in Seq(S) /\ Len(a \o b) = Len(a) + Len(b)
         /\ \A j \in 1..(Len(a) + Len(b)) :
               (a \o b)[j] = IF j <= Len(a) THEN a[j] ELSE b[j - Len(a)]
OBVIOUS

\* list_del(): the others keep their order.
LEMMA Removed ==
  ASSUME NEW V \in Seq(AnyRegion), NEW i \in 1..Len(V)
  PROVE  /\ RemoveAt(V, i) \in Seq(AnyRegion)
         /\ Len(RemoveAt(V, i)) = Len(V) - 1
         /\ \A j \in 1..(Len(V) - 1) :
               RemoveAt(V, i)[j] = V[IF j < i THEN j ELSE j + 1]
<1> DEFINE before == SubSeq(V, 1, i - 1)
           after == SubSeq(V, i + 1, Len(V))
<1>1. /\ before \in Seq(AnyRegion) /\ Len(before) = i - 1
      /\ \A j \in 1..(i - 1) : before[j] = V[j]
  OBVIOUS
<1>2. /\ after \in Seq(AnyRegion) /\ Len(after) = Len(V) - i
      /\ \A j \in 1..(Len(V) - i) : after[j] = V[i + j]
  OBVIOUS
<1> HIDE DEF before, after
<1>3. /\ before \o after \in Seq(AnyRegion) /\ Len(before \o after) = Len(V) - 1
      /\ \A j \in 1..(Len(V) - 1) :
            (before \o after)[j] = IF j < i THEN before[j] ELSE after[j - (i - 1)]
  <2>1. before \o after \in Seq(AnyRegion) /\ Len(before \o after) = Len(before) + Len(after)
    BY <1>1, <1>2, Concatenated
  <2>2. i \in Nat /\ Len(V) \in Nat
    OBVIOUS
  <2>3. ASSUME NEW j \in 1..(Len(V) - 1)
        PROVE  (before \o after)[j] = IF j < i THEN before[j] ELSE after[j - (i - 1)]
    <3>1. j \in 1..(Len(before) + Len(after)) /\ (j <= Len(before) <=> j < i)
      BY <1>1, <1>2
    <3>2. (before \o after)[j] = IF j <= Len(before) THEN before[j]
                                 ELSE after[j - Len(before)]
      BY <1>1, <1>2, <3>1, Concatenated
    <3> QED
      BY <1>1, <3>1, <3>2
  <2> QED
    BY <1>1, <1>2, <2>1, <2>2, <2>3
<1>4. ASSUME NEW j \in 1..(Len(V) - 1)
      PROVE  (before \o after)[j] = V[IF j < i THEN j ELSE j + 1]
  <2>1. CASE j < i
    BY <1>1, <1>3, <2>1
  <2>2. CASE ~(j < i)
    <3>1. j - (i - 1) \in 1..(Len(V) - i) /\ i + (j - (i - 1)) = j + 1
      BY <2>2
    <3> QED
      BY <1>2, <1>3, <2>2, <3>1
  <2> QED
    BY <2>1, <2>2
<1>5. RemoveAt(V, i) = before \o after
  BY DEF RemoveAt, before, after
<1> QED
  BY <1>3, <1>4, <1>5

-----------------------------------------------------------------------------
(* Page tables *)

\* What a table shows does not depend on the way to its entries.
LEMMA QueryOf ==
  ASSUME NEW t, IsTable(t), NEW page \in Pages
  PROVE  /\ \A e : e \in Query(t, page) <=> t.ptes[page].valid /\ e = t.ptes[page]
BY DEF IsTable, Query

\* Page table pages are only added.
LEMMA WalkedReaches ==
  ASSUME NEW t, t = [ptps |-> t.ptps, ptes |-> t.ptes], NEW pages \in SUBSET Pages
  PROVE  /\ Walked(t, pages) = [ptps |-> Walked(t, pages).ptps, ptes |-> t.ptes]
         /\ \A page \in pages : Reaches(Walked(t, pages), page)
         /\ \A page \in Pages : Reaches(t, page) => Reaches(Walked(t, pages), page)
<1>1. /\ Walked(t, pages).ptes = t.ptes
      /\ Walked(t, pages).ptps = t.ptps \cup {Ptp(level, page) :
                                      level \in 0..(Levels - 1), page \in pages}
      /\ Walked(t, pages) = [ptps |-> Walked(t, pages).ptps, ptes |-> t.ptes]
  BY DEF Walked
<1> QED
  BY <1>1 DEF Reaches

\* t2 is t with entries for the pages.
Maps(t, t2, pages, frame, perm) ==
    /\ IsTable(t2)
    /\ \A page \in pages :
          Query(t2, page) = {[valid |-> TRUE, frame |-> frame[page], perm |-> perm]}
    /\ \A page \in Pages \ pages : Query(t2, page) = Query(t, page)

\* map_range_in_pgtbl() makes the entries of its pages and touches no others.
LEMMA MapRangeExact ==
  ASSUME NEW t, IsTable(t), NEW pages \in SUBSET Pages, NEW frame, NEW perm
  PROVE  Maps(t, MapRange(t, pages, frame, perm), pages, frame, perm)
<1> DEFINE w == Walked(t, pages)
           u == MapRange(t, pages, frame, perm)
<1>1. /\ w = [ptps |-> w.ptps, ptes |-> t.ptes]
      /\ \A page \in pages : Reaches(w, page)
      /\ \A page \in Pages : Reaches(t, page) => Reaches(w, page)
  BY WalkedReaches DEF IsTable
<1>2. /\ u.ptps = w.ptps
      /\ u.ptes = [page \in Pages |-> IF page \in pages
                      THEN [valid |-> TRUE, frame |-> frame[page], perm |-> perm]
                      ELSE t.ptes[page]]
      /\ u = [ptps |-> u.ptps, ptes |-> u.ptes]
  <2> HIDE DEF w
  <2>1. u = [w EXCEPT !.ptes = [page \in Pages |-> IF page \in pages
                      THEN [valid |-> TRUE, frame |-> frame[page], perm |-> perm]
                      ELSE w.ptes[page]]]
    BY DEF MapRange, w
  <2>2. w.ptes = t.ptes
    BY <1>1
  <2> QED
    BY <1>1, <2>1, <2>2
<1> HIDE DEF w, u
<1>3. \A page \in Pages : Reaches(u, page) <=> Reaches(w, page)
  BY <1>2 DEF Reaches
<1>4. /\ \A page \in pages : u.ptes[page]
               = [valid |-> TRUE, frame |-> frame[page], perm |-> perm]
      /\ \A page \in Pages \ pages : u.ptes[page] = t.ptes[page]
  BY <1>2
<1>5. IsTable(u)
  <2>1. u.ptes = [page \in Pages |-> u.ptes[page]]
    BY <1>2
  <2>2. \A page \in Pages : u.ptes[page].valid => Reaches(u, page)
    BY <1>1, <1>3, <1>4 DEF IsTable
  <2> QED
    BY <1>2, <2>1, <2>2 DEF IsTable
<1>6. \A page \in pages :
         Query(u, page) = {[valid |-> TRUE, frame |-> frame[page], perm |-> perm]}
  <2> SUFFICES ASSUME NEW page \in pages
               PROVE  Query(u, page) = {[valid |-> TRUE, frame |-> frame[page], perm |-> perm]}
    OBVIOUS
  <2>1. /\ page \in Pages
        /\ u.ptes[page] = [valid |-> TRUE, frame |-> frame[page], perm |-> perm]
    BY <1>4
  <2>2. u.ptes[page].valid
    BY <2>1
  <2>3. \A e : e \in Query(u, page) <=> e = u.ptes[page]
    BY <1>5, <2>1, <2>2, QueryOf
  <2> QED
    BY <2>1, <2>3
<1>7. \A page \in Pages \ pages : Query(u, page) = Query(t, page)
  <2> SUFFICES ASSUME NEW page \in Pages \ pages PROVE Query(u, page) = Query(t, page)
    OBVIOUS
  <2>1. \A e : e \in Query(u, page) <=> e \in Query(t, page)
    BY <1>4, <1>5, QueryOf
  <2> QED
    BY <2>1
<1> QED
  BY <1>5, <1>6, <1>7 DEF Maps, u

\* unmap_range_in_pgtbl() makes the entries of its pages invalid and touches no others.
LEMMA UnmapRangeExact ==
  ASSUME NEW t, IsTable(t), NEW pages \in SUBSET Pages
  PROVE  /\ IsTable(UnmapRange(t, pages))
         /\ \A page \in pages : Query(UnmapRange(t, pages), page) = {}
         /\ \A page \in Pages \ pages : Query(UnmapRange(t, pages), page) = Query(t, page)
<1> DEFINE w == Walked(t, pages)
           u == UnmapRange(t, pages)
<1>1. /\ w = [ptps |-> w.ptps, ptes |-> t.ptes]
      /\ \A page \in Pages : Reaches(t, page) => Reaches(w, page)
  BY WalkedReaches DEF IsTable
<1>2. /\ u.ptps = w.ptps
      /\ u.ptes = [page \in Pages |-> IF page \in pages THEN [valid |-> FALSE]
                                      ELSE t.ptes[page]]
      /\ u = [ptps |-> u.ptps, ptes |-> u.ptes]
  <2> HIDE DEF w
  <2>1. u = [w EXCEPT !.ptes = [page \in Pages |-> IF page \in pages
                      THEN [valid |-> FALSE] ELSE w.ptes[page]]]
    BY DEF UnmapRange, w
  <2>2. w.ptes = t.ptes
    BY <1>1
  <2> QED
    BY <1>1, <2>1, <2>2
<1> HIDE DEF w, u
<1>3. \A page \in Pages : Reaches(u, page) <=> Reaches(w, page)
  BY <1>2 DEF Reaches
<1>4. /\ \A page \in pages : u.ptes[page] = [valid |-> FALSE]
      /\ \A page \in Pages \ pages : u.ptes[page] = t.ptes[page]
  BY <1>2
<1>5. IsTable(u)
  <2>1. u.ptes = [page \in Pages |-> u.ptes[page]]
    BY <1>2
  <2>2. \A page \in Pages : u.ptes[page].valid => Reaches(u, page)
    BY <1>1, <1>3, <1>4 DEF IsTable
  <2> QED
    BY <1>2, <2>1, <2>2 DEF IsTable
<1>6. \A page \in pages : Query(u, page) = {}
  BY <1>4, <1>5, QueryOf
<1>7. \A page \in Pages \ pages : Query(u, page) = Query(t, page)
  <2> SUFFICES ASSUME NEW page \in Pages \ pages PROVE Query(u, page) = Query(t, page)
    OBVIOUS
  <2>1. \A e : e \in Query(u, page) <=> e \in Query(t, page)
    BY <1>4, <1>5, QueryOf
  <2> QED
    BY <2>1
<1> QED
  BY <1>5, <1>6, <1>7 DEF u

-----------------------------------------------------------------------------
(* Spaces *)

\* A step changes one space.
LEMMA OneSpace ==
  ASSUME SpacesGood, NEW s \in Spaces, NEW V, NEW t, NEW h, Good(s, V, t, h),
         vmrs' = [vmrs EXCEPT ![s] = V], pgtbl' = [pgtbl EXCEPT ![s] = t],
         heap' = [heap EXCEPT ![s] = h]
  PROVE  SpacesGood'
<1>1. /\ vmrs' = [r \in Spaces |-> vmrs'[r]]
      /\ pgtbl' = [r \in Spaces |-> pgtbl'[r]]
      /\ heap' = [r \in Spaces |-> heap'[r]]
      /\ \A r \in Spaces : /\ vmrs'[r] = IF r = s THEN V ELSE vmrs[r]
                           /\ pgtbl'[r] = IF r = s THEN t ELSE pgtbl[r]
                           /\ heap'[r] = IF r = s THEN h ELSE heap[r]
  BY DEF SpacesGood
<1>2. \A r \in Spaces : Good(r, vmrs'[r], pgtbl'[r], heap'[r])
  BY <1>1 DEF SpacesGood
<1> QED
  BY <1>1, <1>2 DEF SpacesGood

\* The heap of a space is none of the objects that programs create.
LEMMA HeapApart ==
  ASSUME NEW s \in Spaces
  PROVE  HeapPmo[s] \in HeapPmos /\ HeapPmo[s] \notin Pmos /\ Type(HeapPmo[s]) = "ANONYM"
BY VMSpaceAssumption DEF HeapPmos, Type

\* A region that is disjoint from the others joins them: a mapping, or the empty heap.
LEMMA AddedFits ==
  ASSUME NEW s \in Spaces, NEW V, NEW h, Fits(s, V, h), NEW vmr \in AnyRegion, NEW h2,
         \A i \in 1..Len(V) : Covered(vmr) \cap Covered(V[i]) = {},
         \/ vmr.pmo \in Pmos /\ vmr.size = PmoSize[vmr.pmo] /\ h2 = h
         \/ /\ vmr.pmo = HeapPmo[s] /\ vmr.start = HeapStart /\ vmr.size = h2 /\ h2 = 0
            /\ h = -1
  PROVE  Fits(s, <<vmr>> \o V, h2)
<1> DEFINE W == <<vmr>> \o V
<1>1. V \in Seq(AnyRegion) /\ HeapPmo[s] \notin Pmos
  BY HeapApart DEF Fits
<1>2. /\ W \in Seq(AnyRegion) /\ Len(W) = Len(V) + 1 /\ W[1] = vmr /\ Len(V) \in Nat
      /\ \A i \in 1..Len(W) : i # 1 => i - 1 \in 1..Len(V) /\ W[i] = V[i - 1]
      /\ \A i \in 1..Len(V) : W[i + 1] = V[i]
  BY <1>1, Added
<1> HIDE DEF W
<1>3. ASSUME NEW i \in 1..Len(W)
      PROVE  /\ W[i].pmo \in Pmos => W[i].size = PmoSize[W[i].pmo]
             /\ W[i].pmo \notin Pmos => /\ W[i].pmo = HeapPmo[s] /\ W[i].start = HeapStart
                                        /\ W[i].size = h2 /\ h2 # -1
  <2>1. CASE i = 1
    BY <1>1, <1>2, <2>1
  <2>2. CASE i # 1
    BY <1>2, <2>2 DEF Fits
  <2> QED
    BY <2>1, <2>2
<1>4. h2 # -1 => \E i \in 1..Len(W) : W[i].pmo = HeapPmo[s]
  <2>1. CASE vmr.pmo = HeapPmo[s]
    BY <1>2, <2>1
  <2>2. CASE vmr.pmo # HeapPmo[s] /\ h2 # -1
    <3>1. PICK i \in 1..Len(V) : V[i].pmo = HeapPmo[s]
      BY <2>2 DEF Fits
    <3>2. i + 1 \in 1..Len(W) /\ W[i + 1].pmo = HeapPmo[s]
      BY <1>2, <3>1
    <3> QED
      BY <3>2
  <2> QED
    BY <2>1, <2>2
<1>5. ASSUME NEW i \in 1..Len(V)
      PROVE  Covered(vmr) \cap Covered(V[i]) = {} /\ (vmr.pmo = V[i].pmo => vmr.pmo \in Pmos)
  BY <1>1 DEF Fits
<1>6. ASSUME NEW i \in 1..Len(W), NEW j \in 1..Len(W), i # j
      PROVE  /\ Covered(W[i]) \cap Covered(W[j]) = {}
             /\ W[i].pmo = W[j].pmo => W[i].pmo \in Pmos
  <2>1. CASE i = 1
    BY <1>2, <1>5, <1>6, <2>1
  <2>2. CASE j = 1
    BY <1>2, <1>5, <1>6, <2>2
  <2>3. CASE i # 1 /\ j # 1
    <3>1. /\ i - 1 \in 1..Len(V) /\ j - 1 \in 1..Len(V) /\ i - 1 # j - 1
          /\ W[i] = V[i - 1] /\ W[j] = V[j - 1]
      BY <1>2, <1>6, <2>3
    <3>2. /\ Covered(V[i - 1]) \cap Covered(V[j - 1]) = {}
          /\ V[i - 1].pmo = V[j - 1].pmo => V[i - 1].pmo \in Pmos
      BY <3>1 DEF Fits
    <3>3. Covered(W[i]) = Covered(V[i - 1]) /\ Covered(W[j]) = Covered(V[j - 1])
      BY <3>1
    <3> QED
      BY <3>1, <3>2, <3>3
  <2> QED
    BY <2>1, <2>2, <2>3
<1>7. h2 \in Nat \cup {-1}
  BY DEF Fits
<1> QED
  BY <1>2, <1>3, <1>4, <1>6, <1>7 DEF Fits, W

\* A region that is not mapped at once leaves the table as it is.
LEMMA AddedAgrees ==
  ASSUME NEW V \in Seq(AnyRegion), NEW t, Agrees(V, t), NEW vmr \in AnyRegion, NEW t2,
         \A page \in Pages \ Covered(vmr) : Query(t2, page) = Query(t, page),
         \/ t2 = t /\ Type(vmr.pmo) # "DATA"
         \/ /\ Type(vmr.pmo) # "DEVICE"
            /\ \A page \in Covered(vmr) : Query(t2, page)
                  = {[valid |-> TRUE, frame |-> Frame(vmr, page), perm |-> vmr.perm]}
  PROVE  Agrees(<<vmr>> \o V, t2)
<1> DEFINE W == <<vmr>> \o V
<1>1. /\ Len(W) = Len(V) + 1 /\ W[1] = vmr /\ Len(V) \in Nat
      /\ \A i \in 1..Len(W) : i # 1 => i - 1 \in 1..Len(V) /\ W[i] = V[i - 1]
      /\ \A i \in 1..Len(V) : i + 1 \in 1..Len(W) /\ W[i + 1] = V[i]
  BY Added
<1> HIDE DEF W
<1>2. ASSUME NEW page \in Pages, NEW e \in Query(t2, page)
      PROVE  \E i \in 1..Len(W) :
                /\ page \in Covered(W[i]) /\ e.frame = Frame(W[i], page)
                /\ e.perm = W[i].perm /\ Type(W[i].pmo) # "DEVICE"
  <2>1. CASE e \in Query(t, page)
    <3>1. PICK i \in 1..Len(V) :
              /\ page \in Covered(V[i]) /\ e.frame = Frame(V[i], page)
              /\ e.perm = V[i].perm /\ Type(V[i].pmo) # "DEVICE"
      BY <2>1 DEF Agrees
    <3> QED
      BY <1>1, <3>1
  <2>2. CASE e \notin Query(t, page)
    <3>1. /\ page \in Covered(vmr)
          /\ e = [valid |-> TRUE, frame |-> Frame(vmr, page), perm |-> vmr.perm]
          /\ Type(vmr.pmo) # "DEVICE"
      BY <1>2, <2>2
    <3>2. e.frame = Frame(vmr, page) /\ e.perm = vmr.perm
      BY <3>1
    <3> QED
      BY <1>1, <3>1, <3>2
  <2> QED
    BY <2>1, <2>2
<1>3. ASSUME NEW page \in Pages, NEW i \in 1..Len(W),
             page \in Covered(W[i]), Type(W[i].pmo) = "DATA"
      PROVE  Query(t2, page) # {}
  <2>1. CASE page \in Covered(vmr) /\ t2 # t
    BY <2>1
  <2>2. CASE page \in Covered(vmr) /\ i = 1
    BY <1>1, <1>3, <2>2
  <2>3. CASE i # 1 /\ (page \notin Covered(vmr) \/ t2 = t)
    <3>1. i - 1 \in 1..Len(V) /\ W[i] = V[i - 1]
      BY <1>1, <2>3
    <3>2. page \in Covered(V[i - 1]) /\ Type(V[i - 1].pmo) = "DATA"
      BY <1>3, <3>1
    <3>3. Query(t, page) # {}
      BY <3>1, <3>2 DEF Agrees
    <3> QED
      BY <2>3, <3>3
  <2> QED
    BY <1>1, <1>3, <2>1, <2>2, <2>3
<1> QED
  BY <1>2, <1>3 DEF Agrees, W

\* sys_map_pmo(): neither end in another region, and none enclosed, is disjoint.
LEMMA MapKeeps ==
  ASSUME SpacesGood, NEW s \in Spaces, NEW first \in Starts, NEW o \in Pmos,
         NEW perm \in Perms, ~Encloses(s, first, PmoSize[o]), MapPmo(s, first, o, perm)
  PROVE  SpacesGood'
<1> DEFINE vmr == [start |-> first, size |-> PmoSize[o], pmo |-> o, perm |-> perm]
           V == vmrs[s]
           t == pgtbl[s]
           frame == [page \in Covered(vmr) |-> Frame(vmr, page)]
           t2 == IF Type(o) = "DATA" THEN MapRange(t, Covered(vmr), frame, perm) ELSE t
<1>1. /\ Good(s, V, t, heap[s]) /\ Fits(s, V, heap[s]) /\ IsTable(t) /\ Agrees(V, t)
      /\ V \in Seq(AnyRegion)
  BY DEF SpacesGood, Good, Fits
<1>2. /\ first \in Int /\ Pages \subseteq Int /\ PmoSize[o] \in Nat \ {0}
      /\ vmr \in AnyRegion
  BY VMSpaceAssumption DEF Pages, AnyRegion
<1>3. /\ ~Intersects(s, first, PmoSize[o])
      /\ vmrs' = [vmrs EXCEPT ![s] = <<vmr>> \o V]
      /\ pgtbl' = [pgtbl EXCEPT ![s] = t2]
      /\ heap' = [heap EXCEPT ![s] = heap[s]]
  BY DEF MapPmo, MapRegion, SpacesGood
<1>4. \A i \in 1..Len(V) : Covered(vmr) \cap Covered(V[i]) = {}
  <2> SUFFICES ASSUME NEW i \in 1..Len(V), NEW page \in Covered(vmr), page \in Covered(V[i])
               PROVE  FALSE
    OBVIOUS
  <2>1. V[i] \in Regions(s) /\ V[i].start \in Int /\ V[i].size \in Int
    <3>1. V[i] \in AnyRegion /\ DOMAIN V = 1..Len(V)
      BY <1>1
    <3> QED
      BY <3>1 DEF Regions, AnyRegion
  <2>2. /\ page \in Int /\ first <= page /\ page < first + PmoSize[o]
        /\ V[i].start <= page /\ page < V[i].start + V[i].size
    BY <1>2 DEF Covered
  <2>3. /\ ~(V[i].start <= first /\ first < V[i].start + V[i].size)
        /\ ~(V[i].start <= first + PmoSize[o] - 1
             /\ first + PmoSize[o] - 1 < V[i].start + V[i].size)
    BY <1>3, <2>1 DEF Intersects
  <2>4. ~(first <= V[i].start /\ V[i].start + V[i].size <= first + PmoSize[o])
    BY <2>1 DEF Encloses
  <2> QED
    BY <1>2, <2>1, <2>2, <2>3, <2>4, SMTT(30)
<1>5. Fits(s, <<vmr>> \o V, heap[s])
  <2>1. vmr.pmo \in Pmos /\ vmr.size = PmoSize[vmr.pmo]
    OBVIOUS
  <2> HIDE DEF vmr, V
  <2> QED
    BY <1>1, <1>2, <1>4, <2>1, AddedFits
<1>6. /\ IsTable(t2)
      /\ \A page \in Pages \ Covered(vmr) : Query(t2, page) = Query(t, page)
      /\ \/ t2 = t /\ Type(vmr.pmo) # "DATA"
         \/ /\ Type(vmr.pmo) # "DEVICE"
            /\ \A page \in Covered(vmr) : Query(t2, page)
                  = {[valid |-> TRUE, frame |-> Frame(vmr, page), perm |-> vmr.perm]}
  <2>1. CASE Type(o) = "DATA"
    <3>1. /\ Covered(vmr) \in SUBSET Pages /\ vmr.perm = perm /\ Type(vmr.pmo) = "DATA"
          /\ \A page \in Covered(vmr) : frame[page] = Frame(vmr, page)
      BY <2>1 DEF Covered
    <3>2. t2 = MapRange(t, Covered(vmr), frame, perm)
      BY <2>1
    <3> HIDE DEF vmr, t2, t, frame
    <3>3. Maps(t, t2, Covered(vmr), frame, perm)
      <4>1. IsTable(t)
        BY <1>1
      <4>2. Covered(vmr) \in SUBSET Pages
        BY <3>1
      <4> QED
        BY <3>2, <4>1, <4>2, MapRangeExact
    <3> QED
      BY <3>1, <3>3 DEF Maps
  <2>2. CASE Type(o) # "DATA"
    BY <1>1, <2>2
  <2> QED
    BY <2>1, <2>2
<1>7. Agrees(<<vmr>> \o V, t2)
  <2> HIDE DEF vmr, V, t, t2
  <2> QED
    BY <1>1, <1>2, <1>6, AddedAgrees
<1> HIDE DEF vmr, V, t, t2
<1>8. Good(s, <<vmr>> \o V, t2, heap[s])
  BY <1>5, <1>6, <1>7 DEF Good
<1> QED
  BY <1>3, <1>8, OneSpace

\* sys_handle_brk(0): the heap region is empty at first.
LEMMA InitHeapKeeps ==
  ASSUME SpacesGood, NEW s \in Spaces, heap[s] = -1, InitHeap(s)
  PROVE  SpacesGood'
<1> DEFINE vmr == [start |-> HeapStart, size |-> 0, pmo |-> HeapPmo[s], perm |-> "rw"]
           V == vmrs[s]
           t == pgtbl[s]
<1>1. /\ Fits(s, V, heap[s]) /\ IsTable(t) /\ Agrees(V, t) /\ V \in Seq(AnyRegion)
  BY DEF SpacesGood, Good, Fits
<1>2. /\ vmr \in AnyRegion /\ Covered(vmr) = {} /\ Type(vmr.pmo) # "DATA"
      /\ vmr.pmo = HeapPmo[s] /\ vmr.start = HeapStart /\ vmr.size = 0
  <2>1. HeapStart \in Int /\ Pages \subseteq Int
    BY VMSpaceAssumption DEF Pages
  <2>2. /\ vmr.pmo = HeapPmo[s] /\ vmr.start = HeapStart /\ vmr.size = 0
        /\ vmr.perm = "rw"
    OBVIOUS
  <2>3. vmr \in AnyRegion
    BY <2>1, VMSpaceAssumption, HeapApart DEF AnyRegion
  <2>4. Covered(vmr) = {}
    <3> SUFFICES ASSUME NEW page \in Covered(vmr) PROVE FALSE
      OBVIOUS
    <3> HIDE DEF vmr
    <3>1. page \in Int /\ HeapStart <= page /\ page < HeapStart + 0 /\ HeapStart \in Int
      BY <2>1, <2>2 DEF Covered
    <3> QED
      BY <3>1
  <2>5. Type(vmr.pmo) # "DATA"
    BY <2>2, HeapApart
  <2> QED
    BY <2>2, <2>3, <2>4, <2>5
<1>3. /\ vmrs' = [vmrs EXCEPT ![s] = <<vmr>> \o V]
      /\ pgtbl' = [pgtbl EXCEPT ![s] = t]
      /\ heap' = [heap EXCEPT ![s] = 0]
  BY DEF InitHeap, SpacesGood
<1> HIDE DEF vmr, V, t
<1>4. Fits(s, <<vmr>> \o V, 0)
  BY <1>1, <1>2, AddedFits
<1>5. Agrees(<<vmr>> \o V, t)
  BY <1>1, <1>2, AddedAgrees
<1>6. Good(s, <<vmr>> \o V, t, 0)
  BY <1>1, <1>4, <1>5 DEF Good
<1> QED
  BY <1>3, <1>6, OneSpace

\* U is V without its element i.
Remains(V, i, U) ==
    /\ U \in Seq(AnyRegion)
    /\ \A j \in 1..Len(U) : \E m \in 1..Len(V) : m # i /\ U[j] = V[m]
    /\ \A m \in 1..Len(V) : m # i => \E j \in 1..Len(U) : U[j] = V[m]

\* What is left of a list is what was on it, each in a place of its own.
LEMMA RemovedFrom ==
  ASSUME NEW V \in Seq(AnyRegion), NEW i \in 1..Len(V), NEW U, U = RemoveAt(V, i)
  PROVE  Remains(V, i, U)
<1> DEFINE from(j) == IF j < i THEN j ELSE j + 1
<1>1. /\ U \in Seq(AnyRegion) /\ Len(U) = Len(V) - 1 /\ Len(V) \in Nat
      /\ \A j \in 1..Len(U) : U[j] = V[from(j)]
  <2>1. /\ U \in Seq(AnyRegion) /\ Len(U) = Len(V) - 1
        /\ \A j \in 1..(Len(V) - 1) : U[j] = V[IF j < i THEN j ELSE j + 1]
    BY Removed
  <2> QED
    BY <2>1
<1>2. ASSUME NEW j \in 1..Len(U)
      PROVE  from(j) \in 1..Len(V) /\ from(j) # i
  BY <1>1
<1>3. ASSUME NEW m \in 1..Len(V), m # i
      PROVE  \E j \in 1..Len(U) : U[j] = V[m]
  <2>1. CASE m < i
    <3>1. m \in 1..Len(U) /\ from(m) = m
      BY <1>1, <2>1
    <3> QED
      BY <1>1, <3>1
  <2>2. CASE m > i
    <3>1. m - 1 \in 1..Len(U) /\ from(m - 1) = m
      BY <1>1, <2>2
    <3> QED
      BY <1>1, <3>1
  <2> QED
    BY <1>3, <2>1, <2>2
<1> HIDE DEF from
<1>4. ASSUME NEW j \in 1..Len(U)
      PROVE  \E m \in 1..Len(V) : m # i /\ U[j] = V[m]
  BY <1>1, <1>2
<1> QED
  BY <1>1, <1>3, <1>4 DEF Remains

\* A region of a program leaves the list: the heap stays.
LEMMA RemovedFits ==
  ASSUME NEW s \in Spaces, NEW V \in Seq(AnyRegion), NEW h, Fits(s, V, h), NEW i \in 1..Len(V),
         V[i].pmo \in Pmos
  PROVE  Fits(s, RemoveAt(V, i), h)
<1> DEFINE U == RemoveAt(V, i)
<1>1. V \in Seq(AnyRegion) /\ HeapPmo[s] \notin Pmos /\ U = RemoveAt(V, i)
  BY HeapApart DEF Fits
<1> HIDE DEF U
<1>2. /\ U \in Seq(AnyRegion)
      /\ \A j \in 1..Len(U) : \E m \in 1..Len(V) : m # i /\ U[j] = V[m]
      /\ \A j, k \in 1..Len(U) : j # k =>
            \E m, n \in 1..Len(V) : m # n /\ U[j] = V[m] /\ U[k] = V[n]
      /\ \A m \in 1..Len(V) : m # i => \E j \in 1..Len(U) : U[j] = V[m]
  <2>1. V \in Seq(AnyRegion) /\ U = RemoveAt(V, i)
    BY <1>1
  <2>2. U \in Seq(AnyRegion)
    BY <2>1, RemovedFrom DEF Remains
  <2>3. \A j \in 1..Len(U) : \E m \in 1..Len(V) : m # i /\ U[j] = V[m]
    BY <2>1, RemovedFrom, SMTT(30) DEF Remains
  <2>4. ASSUME NEW j \in 1..Len(U), NEW k \in 1..Len(U), j # k
        PROVE  \E m, n \in 1..Len(V) : m # n /\ U[j] = V[m] /\ U[k] = V[n]
    <3> DEFINE from(l) == IF l < i THEN l ELSE l + 1
    <3>1. /\ Len(U) = Len(V) - 1 /\ Len(V) \in Nat
          /\ \A l \in 1..(Len(V) - 1) : U[l] = V[IF l < i THEN l ELSE l + 1]
      <4>1. Len(V) \in Nat
        BY <2>1
      <4>2. Len(U) = Len(V) - 1
        BY <2>1, Removed
      <4>3. \A l \in 1..(Len(V) - 1) : U[l] = V[IF l < i THEN l ELSE l + 1]
        BY <2>1, Removed
      <4> QED
        BY <4>1, <4>2, <4>3
    <3>2. U[j] = V[from(j)] /\ U[k] = V[from(k)]
      BY <3>1
    <3>3. from(j) \in 1..Len(V) /\ from(k) \in 1..Len(V) /\ from(j) # from(k)
      BY <2>4, <3>1
    <3> HIDE DEF from
    <3> QED
      BY <3>2, <3>3
  <2>5. \A m \in 1..Len(V) : m # i => \E j \in 1..Len(U) : U[j] = V[m]
    BY <2>1, RemovedFrom DEF Remains
  <2> QED
    BY <2>2, <2>3, <2>4, <2>5
<1>3. ASSUME NEW j \in 1..Len(U)
      PROVE  /\ U[j].pmo \in Pmos => U[j].size = PmoSize[U[j].pmo]
             /\ U[j].pmo \notin Pmos => /\ U[j].pmo = HeapPmo[s] /\ U[j].start = HeapStart
                                        /\ U[j].size = h /\ h # -1
  <2>1. PICK m \in 1..Len(V) : U[j] = V[m]
    BY <1>2
  <2> QED
    BY <2>1 DEF Fits
<1>4. h # -1 => \E j \in 1..Len(U) : U[j].pmo = HeapPmo[s]
  <2> SUFFICES ASSUME h # -1 PROVE \E j \in 1..Len(U) : U[j].pmo = HeapPmo[s]
    OBVIOUS
  <2>1. PICK m \in 1..Len(V) : V[m].pmo = HeapPmo[s]
    BY DEF Fits
  <2>2. m # i
    BY <1>1, <2>1
  <2>3. PICK j \in 1..Len(U) : U[j] = V[m]
    BY <1>2, <2>2
  <2> QED
    BY <2>1, <2>3
<1>5. ASSUME NEW j \in 1..Len(U), NEW k \in 1..Len(U), j # k
      PROVE  /\ Covered(U[j]) \cap Covered(U[k]) = {}
             /\ U[j].pmo = U[k].pmo => U[j].pmo \in Pmos
  <2>1. PICK m \in 1..Len(V), n \in 1..Len(V) : m # n /\ U[j] = V[m] /\ U[k] = V[n]
    BY <1>2, <1>5
  <2>2. /\ Covered(V[m]) \cap Covered(V[n]) = {}
        /\ V[m].pmo = V[n].pmo => V[m].pmo \in Pmos
    BY <2>1 DEF Fits
  <2>3. Covered(U[j]) = Covered(V[m]) /\ Covered(U[k]) = Covered(V[n])
    BY <2>1
  <2> QED
    BY <2>1, <2>2, <2>3
<1>6. h \in Nat \cup {-1}
  BY DEF Fits
<1> QED
  BY <1>2, <1>3, <1>4, <1>5, <1>6 DEF Fits, U

\* Only the pages of the region that leaves lose their entries.
LEMMA RemovedAgrees ==
  ASSUME NEW V \in Seq(AnyRegion), NEW t, Agrees(V, t), NEW i \in 1..Len(V), NEW t2,
         \A j \in 1..Len(V) : j # i => Covered(V[i]) \cap Covered(V[j]) = {},
         \A page \in Covered(V[i]) : Query(t2, page) = {},
         \A page \in Pages \ Covered(V[i]) : Query(t2, page) = Query(t, page)
  PROVE  Agrees(RemoveAt(V, i), t2)
<1> DEFINE U == RemoveAt(V, i)
<1>1. /\ \A j \in 1..Len(U) : \E m \in 1..Len(V) : m # i /\ U[j] = V[m]
      /\ \A m \in 1..Len(V) : m # i => \E j \in 1..Len(U) : U[j] = V[m]
  <2>1. U = RemoveAt(V, i)
    OBVIOUS
  <2> HIDE DEF U
  <2>2. \A j \in 1..Len(U) : \E m \in 1..Len(V) : m # i /\ U[j] = V[m]
    BY <2>1, RemovedFrom, SMTT(30) DEF Remains
  <2>3. \A m \in 1..Len(V) : m # i => \E j \in 1..Len(U) : U[j] = V[m]
    BY <2>1, RemovedFrom DEF Remains
  <2> QED
    BY <2>2, <2>3
<1> HIDE DEF U
<1>2. ASSUME NEW page \in Pages, NEW e \in Query(t2, page)
      PROVE  \E j \in 1..Len(U) :
                /\ page \in Covered(U[j]) /\ e.frame = Frame(U[j], page)
                /\ e.perm = U[j].perm /\ Type(U[j].pmo) # "DEVICE"
  <2>1. page \notin Covered(V[i]) /\ e \in Query(t, page)
    BY <1>2
  <2>2. PICK m \in 1..Len(V) :
            /\ page \in Covered(V[m]) /\ e.frame = Frame(V[m], page)
            /\ e.perm = V[m].perm /\ Type(V[m].pmo) # "DEVICE"
    BY <2>1 DEF Agrees
  <2>3. m # i
    BY <2>1, <2>2
  <2>4. PICK j \in 1..Len(U) : U[j] = V[m]
    BY <1>1, <2>3
  <2> QED
    BY <2>2, <2>4
<1>3. ASSUME NEW page \in Pages, NEW j \in 1..Len(U),
             page \in Covered(U[j]), Type(U[j].pmo) = "DATA"
      PROVE  Query(t2, page) # {}
  <2>1. PICK m \in 1..Len(V) : m # i /\ U[j] = V[m]
    BY <1>1
  <2>2. page \in Covered(V[m]) /\ Type(V[m].pmo) = "DATA"
    BY <1>3, <2>1
  <2>3. page \notin Covered(V[i])
    BY <2>1, <2>2
  <2>4. Query(t, page) # {}
    BY <2>2 DEF Agrees
  <2> QED
    BY <2>3, <2>4
<1> QED
  BY <1>2, <1>3 DEF Agrees, U

\* sys_unmap_pmo() of what was mapped: find_vmr_for_va() can only find that region, and
\* the memory object has as many pages.
LEMMA UnmapFinds ==
  ASSUME SpacesGood, NEW s \in Spaces, NEW page \in Starts, NEW o \in Pmos,
         Mapped(s, page, o), UnmapPmo(s, page, o)
  PROVE  \E i \in 1..Len(vmrs[s]) : \E gone \in SUBSET Pages :
            /\ vmrs[s][i].start = page /\ vmrs[s][i].pmo \in Pmos
            /\ page \in Pages /\ page \in gone /\ Covered(vmrs[s][i]) = gone
            /\ \A j \in 1..Len(vmrs[s]) : j # i => Covered(vmrs[s][i]) \cap Covered(vmrs[s][j]) = {}
            /\ vmrs' = [vmrs EXCEPT ![s] = RemoveAt(vmrs[s], i)]
            /\ pgtbl' = [pgtbl EXCEPT ![s] = UnmapRange(pgtbl[s], gone)]
            /\ heap' = [heap EXCEPT ![s] = heap[s]]
<1> DEFINE V == vmrs[s]
           t == pgtbl[s]
           gone == {p \in Pages : page <= p /\ p < page + PmoSize[o]}
<1>1. /\ Fits(s, V, heap[s]) /\ IsTable(t) /\ Agrees(V, t) /\ V \in Seq(AnyRegion)
      /\ DOMAIN V = 1..Len(V)
  <2>1. Good(s, V, t, heap[s])
    BY DEF SpacesGood
  <2>2. Fits(s, V, heap[s]) /\ IsTable(t) /\ Agrees(V, t)
    BY <2>1 DEF Good
  <2>3. V \in Seq(AnyRegion)
    BY <2>2 DEF Fits
  <2> QED
    BY <2>2, <2>3
<1>2. PICK i \in 1..Len(V) :
          /\ page \in Covered(V[i])
          /\ vmrs' = [vmrs EXCEPT ![s] = RemoveAt(V, i)]
          /\ pgtbl' = [pgtbl EXCEPT ![s] = UnmapRange(t, gone)]
          /\ heap' = [heap EXCEPT ![s] = heap[s]]
  <2>1. PICK i \in FindVmr(s, page) :
            /\ vmrs' = [vmrs EXCEPT ![s] = RemoveAt(V, i)]
            /\ pgtbl' = [pgtbl EXCEPT ![s] = UnmapRange(t, gone)]
            /\ heap' = heap
    BY DEF UnmapPmo
  <2>2. i \in 1..Len(V) /\ page \in Covered(V[i])
    BY <1>1 DEF FindVmr
  <2>3. heap' = [heap EXCEPT ![s] = heap[s]]
    BY <2>1 DEF SpacesGood
  <2> QED
    BY <2>1, <2>2, <2>3
<1>3. PICK k \in 1..Len(V) : V[k].start = page /\ V[k].pmo = o
  BY <1>1 DEF Mapped, Regions
<1>4. V[k].size = PmoSize[o] /\ PmoSize[o] \in Nat \ {0} /\ page \in Pages /\ page \in Int
  BY <1>1, <1>3, VMSpaceAssumption DEF Fits, Pages
<1>5. Covered(V[k]) = gone /\ page \in Covered(V[k]) /\ Covered(V[k]) \in SUBSET Pages
  <2>1. page <= page /\ page < page + PmoSize[o]
    BY <1>4
  <2> QED
    BY <1>3, <1>4, <2>1 DEF Covered
<1>6. i = k
  BY <1>1, <1>2, <1>5 DEF Fits
<1>7. /\ V[i].pmo \in Pmos /\ Covered(V[i]) = gone /\ gone \in SUBSET Pages
      /\ \A j \in 1..Len(V) : j # i => Covered(V[i]) \cap Covered(V[j]) = {}
  BY <1>1, <1>3, <1>5, <1>6 DEF Fits
<1> HIDE DEF V, t, gone
<1>8. V[i].start = page /\ page \in gone
  BY <1>3, <1>5, <1>6
<1> QED
  BY <1>2, <1>4, <1>7, <1>8 DEF V, t

\* sys_unmap_pmo() keeps the invariant of the spaces.
LEMMA UnmapKeeps ==
  ASSUME SpacesGood, NEW s \in Spaces, NEW page \in Starts, NEW o \in Pmos,
         Mapped(s, page, o), UnmapPmo(s, page, o)
  PROVE  SpacesGood'
<1> DEFINE V == vmrs[s]
           t == pgtbl[s]
<1>1. Fits(s, V, heap[s]) /\ IsTable(t) /\ Agrees(V, t) /\ V \in Seq(AnyRegion)
  BY DEF SpacesGood, Good, Fits
<1>2. PICK i \in 1..Len(V), gone \in SUBSET Pages :
          /\ V[i].pmo \in Pmos /\ Covered(V[i]) = gone
          /\ \A j \in 1..Len(V) : j # i => Covered(V[i]) \cap Covered(V[j]) = {}
          /\ vmrs' = [vmrs EXCEPT ![s] = RemoveAt(V, i)]
          /\ pgtbl' = [pgtbl EXCEPT ![s] = UnmapRange(t, gone)]
          /\ heap' = [heap EXCEPT ![s] = heap[s]]
  BY UnmapFinds
<1> HIDE DEF V, t
<1>7. /\ V[i].pmo \in Pmos /\ Covered(V[i]) = gone /\ gone \in SUBSET Pages
      /\ \A j \in 1..Len(V) : j # i => Covered(V[i]) \cap Covered(V[j]) = {}
  BY <1>2
<1>8. /\ IsTable(UnmapRange(t, gone))
      /\ \A p \in Covered(V[i]) : Query(UnmapRange(t, gone), p) = {}
      /\ \A p \in Pages \ Covered(V[i]) : Query(UnmapRange(t, gone), p) = Query(t, p)
  <2>1. IsTable(t) /\ gone \in SUBSET Pages
    BY <1>1, <1>7
  <2>2. /\ IsTable(UnmapRange(t, gone))
        /\ \A p \in gone : Query(UnmapRange(t, gone), p) = {}
        /\ \A p \in Pages \ gone : Query(UnmapRange(t, gone), p) = Query(t, p)
    BY <2>1, UnmapRangeExact
  <2> QED
    BY <1>7, <2>2
<1>9. Fits(s, RemoveAt(V, i), heap[s])
  BY <1>1, <1>7, RemovedFits
<1>10. Agrees(RemoveAt(V, i), UnmapRange(t, gone))
  BY <1>1, <1>7, <1>8, RemovedAgrees
<1>11. Good(s, RemoveAt(V, i), UnmapRange(t, gone), heap[s])
  BY <1>8, <1>9, <1>10 DEF Good
<1> QED
  BY <1>2, <1>11, OneSpace

\* The region of the heap with its end at another place.
Grown(s, V, size) ==
    [i \in DOMAIN V |-> IF V[i].pmo = HeapPmo[s] THEN [V[i] EXCEPT !.size = size] ELSE V[i]]

\* Growing the heap changes the size of its region, and no other.
LEMMA GrownRegions ==
  ASSUME NEW s \in Spaces, NEW V \in Seq(AnyRegion), NEW size \in Int
  PROVE  /\ Grown(s, V, size) \in Seq(AnyRegion) /\ Len(Grown(s, V, size)) = Len(V)
         /\ \A i \in 1..Len(V) :
               IF V[i].pmo = HeapPmo[s]
               THEN Grown(s, V, size)[i] = [start |-> V[i].start, size |-> size,
                                            pmo |-> V[i].pmo, perm |-> V[i].perm]
               ELSE Grown(s, V, size)[i] = V[i]
<1> DEFINE W == Grown(s, V, size)
<1>1. /\ DOMAIN V = 1..Len(V) /\ Len(V) \in Nat
      /\ \A i \in 1..Len(V) : V[i] \in AnyRegion
  OBVIOUS
<1>2. W = [i \in 1..Len(V) |->
              IF V[i].pmo = HeapPmo[s] THEN [V[i] EXCEPT !.size = size] ELSE V[i]]
  BY <1>1 DEF Grown
<1>3. ASSUME NEW i \in 1..Len(V), V[i].pmo = HeapPmo[s]
      PROVE  W[i] = [start |-> V[i].start, size |-> size, pmo |-> V[i].pmo, perm |-> V[i].perm]
  BY <1>1, <1>2, <1>3 DEF AnyRegion
<1>4. ASSUME NEW i \in 1..Len(V), V[i].pmo # HeapPmo[s]
      PROVE  W[i] = V[i]
  BY <1>2, <1>4
<1>5. ASSUME NEW i \in 1..Len(V)
      PROVE  W[i] \in AnyRegion
  <2>1. CASE V[i].pmo = HeapPmo[s]
    <3>1. /\ V[i].start \in Int /\ V[i].pmo \in Pmos \cup HeapPmos /\ V[i].perm \in Perms
      BY <1>1 DEF AnyRegion
    <3>2. W[i] = [start |-> V[i].start, size |-> size,
                  pmo |-> V[i].pmo, perm |-> V[i].perm]
      BY <1>3, <2>1
    <3> HIDE DEF W
    <3> QED
      BY <3>1, <3>2 DEF AnyRegion
  <2>2. CASE V[i].pmo # HeapPmo[s]
    BY <1>1, <1>4, <2>2
  <2> QED
    BY <2>1, <2>2
<1> HIDE DEF W
<1>6. W \in Seq(AnyRegion) /\ Len(W) = Len(V)
  BY <1>1, <1>2, <1>5
<1> QED
  BY <1>3, <1>4, <1>6 DEF W

\* The region of the heap is the k-th of the list, and the list after it grew is W.
GrowsTo(s, size, k, W) ==
    /\ vmrs' = [vmrs EXCEPT ![s] = W] /\ pgtbl' = [pgtbl EXCEPT ![s] = pgtbl[s]]
    /\ heap' = [heap EXCEPT ![s] = size] /\ heap[s] \in Nat /\ heap[s] <= size
    /\ vmrs[s][k].pmo = HeapPmo[s] /\ vmrs[s][k].start = HeapStart
    /\ vmrs[s][k].size = heap[s]
    /\ \A j \in 1..Len(vmrs[s]) : vmrs[s][j].pmo = HeapPmo[s] <=> j = k
    /\ Len(W) = Len(vmrs[s])
    /\ \A i \in 1..Len(vmrs[s]) : i # k => W[i] = vmrs[s][i]
    /\ W[k] = [start |-> HeapStart, size |-> size, pmo |-> HeapPmo[s],
               perm |-> vmrs[s][k].perm]

\* sys_handle_brk(): the region of the heap gets another size, and nothing else changes.
LEMMA GrowFinds ==
  ASSUME SpacesGood, NEW s \in Spaces, NEW size \in Nat, GrowHeap(s, size)
  PROVE  \E k \in 1..Len(vmrs[s]) : \E W \in Seq(AnyRegion) : GrowsTo(s, size, k, W)
<1> DEFINE V == vmrs[s]
           t == pgtbl[s]
           W == Grown(s, V, size)
<1>1. Fits(s, V, heap[s]) /\ IsTable(t) /\ Agrees(V, t)
  BY DEF SpacesGood, Good
<1>2. /\ V \in Seq(AnyRegion) /\ DOMAIN V = 1..Len(V) /\ heap[s] \in Nat
      /\ \A i \in 1..Len(V) : V[i] \in AnyRegion
  BY <1>1 DEF Fits, GrowHeap
<1>3. /\ heap[s] <= size
      /\ vmrs' = [vmrs EXCEPT ![s] = W]
      /\ pgtbl' = [pgtbl EXCEPT ![s] = t]
      /\ heap' = [heap EXCEPT ![s] = size]
  BY <1>2 DEF GrowHeap, SpacesGood, Grown
<1>4. PICK k \in 1..Len(V) :
          V[k].pmo = HeapPmo[s] /\ V[k].start = HeapStart /\ V[k].size = heap[s]
  <2>1. PICK k \in 1..Len(V) : V[k].pmo = HeapPmo[s]
    BY <1>1, <1>2 DEF Fits
  <2> QED
    BY <1>1, <2>1, HeapApart DEF Fits
<1>5. \A j \in 1..Len(V) : V[j].pmo = HeapPmo[s] <=> j = k
  BY <1>1, <1>4, HeapApart DEF Fits
<1>6. /\ W \in Seq(AnyRegion) /\ Len(W) = Len(V)
      /\ \A i \in 1..Len(V) : i # k => W[i] = V[i]
      /\ W[k] = [start |-> V[k].start, size |-> size, pmo |-> V[k].pmo, perm |-> V[k].perm]
  <2> HIDE DEF W, V
  <2>1. size \in Int
    OBVIOUS
  <2> QED
    BY <1>2, <1>4, <1>5, <2>1, GrownRegions DEF W
<1> HIDE DEF W
<1>7. W[k] = [start |-> HeapStart, size |-> size, pmo |-> HeapPmo[s], perm |-> V[k].perm]
  BY <1>4, <1>6
<1>8. GrowsTo(s, size, k, W)
  BY <1>2, <1>3, <1>4, <1>5, <1>6, <1>7 DEF GrowsTo
<1> QED
  BY <1>6, <1>8

\* The heap grows only where no other region is, and nothing moves.
LEMMA GrowKeeps ==
  ASSUME SpacesGood, NEW s \in Spaces, NEW size \in Nat, HeapFits(s, size), GrowHeap(s, size)
  PROVE  SpacesGood'
<1> DEFINE V == vmrs[s]
           t == pgtbl[s]
<1>1. Fits(s, V, heap[s]) /\ IsTable(t) /\ Agrees(V, t)
  BY DEF SpacesGood, Good
<1>g. PICK k \in 1..Len(V), W \in Seq(AnyRegion) : GrowsTo(s, size, k, W)
  BY GrowFinds
<1>0. /\ vmrs' = [vmrs EXCEPT ![s] = W] /\ pgtbl' = [pgtbl EXCEPT ![s] = t]
      /\ heap' = [heap EXCEPT ![s] = size] /\ heap[s] \in Nat /\ heap[s] <= size
      /\ V[k].pmo = HeapPmo[s] /\ V[k].start = HeapStart /\ V[k].size = heap[s]
      /\ \A j \in 1..Len(V) : V[j].pmo = HeapPmo[s] <=> j = k
      /\ Len(W) = Len(V) /\ \A i \in 1..Len(V) : i # k => W[i] = V[i]
      /\ W[k] = [start |-> HeapStart, size |-> size, pmo |-> HeapPmo[s], perm |-> V[k].perm]
  BY <1>g DEF GrowsTo
<1>2. /\ V \in Seq(AnyRegion) /\ DOMAIN V = 1..Len(V) /\ heap[s] \in Nat
      /\ \A i \in 1..Len(V) : V[i] \in AnyRegion
  BY <1>0, <1>1 DEF Fits
<1>3. heap[s] <= size
  BY <1>0
<1>4. V[k].pmo = HeapPmo[s] /\ V[k].start = HeapStart /\ V[k].size = heap[s]
  BY <1>0
<1>5. \A j \in 1..Len(V) : V[j].pmo = HeapPmo[s] <=> j = k
  BY <1>0
<1>6. W \in Seq(AnyRegion) /\ Len(W) = Len(V) /\ \A i \in 1..Len(V) : i # k => W[i] = V[i]
  BY <1>0
<1>7. /\ W[k].start = HeapStart /\ W[k].size = size /\ W[k].pmo = HeapPmo[s]
      /\ W[k].perm = V[k].perm
  BY <1>0
<1>8. /\ Covered(W[k]) = {page \in Pages : HeapStart <= page /\ page < HeapStart + size}
      /\ Covered(V[k]) = {page \in Pages : HeapStart <= page /\ page < HeapStart + heap[s]}
  BY <1>4, <1>7 DEF Covered
<1>9. HeapStart \in Int /\ Pages \subseteq Int
  BY VMSpaceAssumption DEF Pages
<1>10. Covered(V[k]) \subseteq Covered(W[k])
  <2> SUFFICES ASSUME NEW page \in Covered(V[k]) PROVE page \in Covered(W[k])
    OBVIOUS
  <2>1. /\ page \in Pages /\ page \in Int /\ HeapStart <= page
        /\ page < HeapStart + heap[s]
    BY <1>8, <1>9
  <2>2. page < HeapStart + size
    BY <1>2, <1>3, <1>9, <2>1
  <2> QED
    BY <1>8, <2>1, <2>2
<1>11. ASSUME NEW j \in 1..Len(V), j # k
       PROVE  Covered(W[k]) \cap Covered(V[j]) = {} /\ V[j].pmo # HeapPmo[s]
  <2>1. V[j] \in Regions(s) /\ V[j].pmo # HeapPmo[s]
    BY <1>2, <1>5, <1>11 DEF Regions
  <2>2. /\ V[j].start \in Int /\ V[j].size \in Int
        /\ V[j].start + V[j].size <= HeapStart \/ HeapStart + size <= V[j].start
    BY <1>2, <2>1 DEF HeapFits, AnyRegion
  <2>3. ASSUME NEW page \in Covered(W[k]), page \in Covered(V[j])
        PROVE  FALSE
    <3>1. /\ page \in Int /\ HeapStart <= page /\ page < HeapStart + size
          /\ V[j].start <= page /\ page < V[j].start + V[j].size
      BY <1>8, <1>9, <2>3 DEF Covered
    <3> QED
      BY <1>9, <2>2, <3>1
  <2> QED
    BY <2>1, <2>3
<1> HIDE DEF V, t
<1>12. Fits(s, W, size)
  <2>1. ASSUME NEW i \in 1..Len(W)
        PROVE  /\ W[i].pmo \in Pmos => W[i].size = PmoSize[W[i].pmo]
               /\ W[i].pmo \notin Pmos => /\ W[i].pmo = HeapPmo[s] /\ W[i].start = HeapStart
                                          /\ W[i].size = size /\ size # -1
    <3>1. CASE i = k
      BY <1>7, <3>1, HeapApart
    <3>2. CASE i # k
      <4>1. W[i] = V[i] /\ V[i].pmo # HeapPmo[s] /\ i \in 1..Len(V)
        BY <1>6, <1>11, <3>2
      <4>2. V[i].pmo \in Pmos /\ V[i].size = PmoSize[V[i].pmo]
        BY <1>1, <4>1 DEF Fits
      <4> QED
        BY <4>1, <4>2
    <3> QED
      BY <3>1, <3>2
  <2>2. \E i \in 1..Len(W) : W[i].pmo = HeapPmo[s]
    BY <1>6, <1>7
  <2>3. ASSUME NEW i \in 1..Len(W), NEW j \in 1..Len(W), i # j
        PROVE  /\ Covered(W[i]) \cap Covered(W[j]) = {}
               /\ W[i].pmo = W[j].pmo => W[i].pmo \in Pmos
    <3>1. CASE i = k
      BY <1>6, <1>7, <1>11, <2>3, <3>1
    <3>2. CASE j = k
      BY <1>6, <1>7, <1>11, <2>3, <3>2
    <3>3. CASE i # k /\ j # k
      <4>1. W[i] = V[i] /\ W[j] = V[j] /\ i \in 1..Len(V) /\ j \in 1..Len(V)
        BY <1>6, <3>3
      <4>2. /\ Covered(V[i]) \cap Covered(V[j]) = {}
            /\ V[i].pmo = V[j].pmo => V[i].pmo \in Pmos
        BY <1>1, <2>3, <4>1 DEF Fits
      <4> QED
        BY <4>1, <4>2
    <3> QED
      BY <3>1, <3>2, <3>3
  <2> QED
    BY <1>6, <2>1, <2>2, <2>3 DEF Fits
<1>13. Agrees(W, t)
  <2>1. ASSUME NEW page \in Pages, NEW e \in Query(t, page)
        PROVE  \E i \in 1..Len(W) :
                  /\ page \in Covered(W[i]) /\ e.frame = Frame(W[i], page)
                  /\ e.perm = W[i].perm /\ Type(W[i].pmo) # "DEVICE"
    <3>1. PICK i \in 1..Len(V) :
              /\ page \in Covered(V[i]) /\ e.frame = Frame(V[i], page)
              /\ e.perm = V[i].perm /\ Type(V[i].pmo) # "DEVICE"
      BY <1>1 DEF Agrees
    <3>2. CASE i # k
      BY <1>6, <3>1, <3>2
    <3>3. CASE i = k
      <4>1. /\ Frame(W[k], page) = Frame(V[k], page) /\ W[k].perm = V[k].perm
            /\ W[k].pmo = V[k].pmo /\ k \in 1..Len(W)
        BY <1>4, <1>6, <1>7 DEF Frame
      <4> QED
        BY <1>10, <3>1, <3>3, <4>1
    <3> QED
      BY <3>2, <3>3
  <2>2. ASSUME NEW page \in Pages, NEW i \in 1..Len(W),
               page \in Covered(W[i]), Type(W[i].pmo) = "DATA"
        PROVE  Query(t, page) # {}
    <3>1. i # k
      BY <1>7, <2>2, HeapApart
    <3>2. W[i] = V[i] /\ i \in 1..Len(V)
      BY <1>6, <3>1
    <3> QED
      BY <1>1, <2>2, <3>2 DEF Agrees
  <2> QED
    BY <2>1, <2>2 DEF Agrees
<1>14. Good(s, W, t, size)
  BY <1>1, <1>12, <1>13 DEF Good
<1> QED
  BY <1>0, <1>14, OneSpace

\* Region k of the list says that its pages are these.
Says(V, k, pages, frame, perm) ==
    /\ k \in 1..Len(V) /\ pages \in SUBSET Covered(V[k])
    /\ \A page \in pages : frame[page] = Frame(V[k], page)
    /\ perm = V[k].perm /\ Type(V[k].pmo) # "DEVICE"

\* Pages that a region backs on demand get the entries that the region says.
LEMMA BackedAgrees ==
  ASSUME NEW V, NEW t, Agrees(V, t), NEW t2, NEW k, NEW pages, NEW frame, NEW perm,
         Maps(t, t2, pages, frame, perm), Says(V, k, pages, frame, perm)
  PROVE  Agrees(V, t2)
<1>1. /\ k \in 1..Len(V) /\ pages \in SUBSET Covered(V[k]) /\ Type(V[k].pmo) # "DEVICE"
      /\ \A page \in pages : Query(t2, page)
            = {[valid |-> TRUE, frame |-> Frame(V[k], page), perm |-> V[k].perm]}
      /\ \A page \in Pages \ pages : Query(t2, page) = Query(t, page)
  BY DEF Maps, Says
<1>2. ASSUME NEW page \in Pages, NEW e \in Query(t2, page)
      PROVE  \E j \in 1..Len(V) :
                /\ page \in Covered(V[j]) /\ e.frame = Frame(V[j], page)
                /\ e.perm = V[j].perm /\ Type(V[j].pmo) # "DEVICE"
  <2>1. CASE page \in pages
    <3>1. e = [valid |-> TRUE, frame |-> Frame(V[k], page), perm |-> V[k].perm]
      BY <1>1, <1>2, <2>1
    <3>2. e.frame = Frame(V[k], page) /\ e.perm = V[k].perm
      BY <3>1
    <3> QED
      BY <1>1, <2>1, <3>2
  <2>2. CASE page \notin pages
    <3>1. e \in Query(t, page)
      BY <1>1, <1>2, <2>2
    <3> QED
      BY <3>1 DEF Agrees
  <2> QED
    BY <2>1, <2>2
<1>3. ASSUME NEW page \in Pages, NEW j \in 1..Len(V),
             page \in Covered(V[j]), Type(V[j].pmo) = "DATA"
      PROVE  Query(t2, page) # {}
  <2>1. CASE page \in pages
    BY <1>1, <2>1
  <2>2. CASE page \notin pages
    <3>1. Query(t, page) # {}
      BY <1>3 DEF Agrees
    <3> QED
      BY <1>1, <2>2, <3>1
  <2> QED
    BY <2>1, <2>2
<1> QED
  BY <1>2, <1>3 DEF Agrees

\* handle_trans_fault(): the page is put where the region that covers it says.
LEMMA FaultKeeps ==
  ASSUME SpacesGood, NEW s \in Spaces, NEW touched \in Pages, PageFault(s, touched)
  PROVE  SpacesGood'
<1> DEFINE V == vmrs[s]
           t == pgtbl[s]
<1>1. Fits(s, V, heap[s]) /\ IsTable(t) /\ Agrees(V, t)
  BY DEF SpacesGood, Good
<1>2. V \in Seq(AnyRegion) /\ DOMAIN V = 1..Len(V)
  BY <1>1 DEF Fits
<1>3. PICK k \in FindVmr(s, touched) :
          /\ Type(V[k].pmo) = "ANONYM"
          /\ pgtbl' = [pgtbl EXCEPT ![s] =
                MapRange(t, {touched}, [page \in {touched} |-> Frame(V[k], page)], V[k].perm)]
  BY DEF PageFault
<1>4. k \in 1..Len(V) /\ touched \in Covered(V[k])
  BY <1>2 DEF FindVmr
<1>5. PICK pages, frame, perm, t2 :
          /\ pages = {touched} /\ frame[touched] = Frame(V[k], touched) /\ perm = V[k].perm
          /\ t2 = MapRange(t, pages, frame, perm)
          /\ pgtbl' = [pgtbl EXCEPT ![s] = t2]
  <2>1. [page \in {touched} |-> Frame(V[k], page)][touched] = Frame(V[k], touched)
    OBVIOUS
  <2> QED
    BY <1>3, <2>1
<1>6. vmrs' = [vmrs EXCEPT ![s] = V] /\ heap' = [heap EXCEPT ![s] = heap[s]]
  BY DEF PageFault, SpacesGood
<1> HIDE DEF V, t
<1>7. Maps(t, t2, pages, frame, perm)
  <2>1. IsTable(t) /\ pages \in SUBSET Pages
    BY <1>1, <1>5
  <2>2. t2 = MapRange(t, pages, frame, perm)
    BY <1>5
  <2> QED
    BY <2>1, <2>2, MapRangeExact
<1>8. Says(V, k, pages, frame, perm)
  BY <1>3, <1>4, <1>5 DEF Says
<1>9. IsTable(t2) /\ Agrees(V, t2)
  <2>1. Agrees(V, t)
    BY <1>1
  <2> QED
    BY <1>7, <1>8, <2>1, BackedAgrees DEF Maps
<1>10. Good(s, V, t2, heap[s])
  BY <1>1, <1>9 DEF Good
<1> QED
  BY <1>5, <1>6, <1>10, OneSpace

-----------------------------------------------------------------------------
(* The theorems *)

\* vmspace_init(): nothing is mapped.
LEMMA InitGood == Init => SpacesGood
<1> SUFFICES ASSUME Init PROVE SpacesGood
  OBVIOUS
<1>1. /\ vmrs = [s \in Spaces |-> <<>>] /\ pgtbl = [s \in Spaces |-> EmptyTable]
      /\ heap = [s \in Spaces |-> -1]
  BY DEF Init
<1>2. /\ EmptyTable = [ptps |-> EmptyTable.ptps, ptes |-> EmptyTable.ptes]
      /\ EmptyTable.ptes = [page \in Pages |-> EmptyTable.ptes[page]]
      /\ \A page \in Pages : EmptyTable.ptes[page].valid = FALSE
  BY DEF EmptyTable
<1>3. IsTable(EmptyTable) /\ \A page \in Pages : Query(EmptyTable, page) = {}
  BY <1>2 DEF IsTable, Query
<1>4. \A s \in Spaces : Fits(s, <<>>, -1)
  BY DEF Fits
<1>5. Agrees(<<>>, EmptyTable)
  BY <1>3 DEF Agrees
<1>6. \A s \in Spaces : Good(s, <<>>, EmptyTable, -1)
  BY <1>3, <1>4, <1>5 DEF Good
<1> QED
  BY <1>1, <1>6 DEF SpacesGood

\* Every step keeps the invariant of the spaces.
LEMMA NextKeeps == SpacesGood /\ [Next]_vars => SpacesGood'
<1> SUFFICES ASSUME SpacesGood, [Next]_vars PROVE SpacesGood'
  OBVIOUS
<1>1. CASE MapAny
  BY <1>1, MapKeeps DEF MapAny
<1>2. CASE UnmapMapped
  BY <1>2, UnmapKeeps DEF UnmapMapped
<1>3. CASE HeapAndFaults
  <2>1. PICK s \in Spaces :
            \/ heap[s] = -1 /\ InitHeap(s)
            \/ \E size \in 1..(PerEntryPages[Levels] - HeapStart) :
                  HeapFits(s, size) /\ GrowHeap(s, size)
            \/ \E page \in Pages : PageFault(s, page)
    BY <1>3 DEF HeapAndFaults
  <2>2. CASE heap[s] = -1 /\ InitHeap(s)
    BY <2>2, InitHeapKeeps
  <2>3. CASE \E size \in 1..(PerEntryPages[Levels] - HeapStart) :
                HeapFits(s, size) /\ GrowHeap(s, size)
    <3>1. PICK size \in 1..(PerEntryPages[Levels] - HeapStart) :
              HeapFits(s, size) /\ GrowHeap(s, size)
      BY <2>3
    <3>2. size \in Nat
      BY <3>1
    <3> QED
      BY <3>1, <3>2, GrowKeeps
  <2>4. CASE \E page \in Pages : PageFault(s, page)
    BY <2>4, FaultKeeps
  <2> QED
    BY <2>1, <2>2, <2>3, <2>4
<1>4. CASE UNCHANGED vars
  BY <1>4 DEF vars, SpacesGood
<1> QED
  BY <1>1, <1>2, <1>3, <1>4 DEF Next

\* The list of regions, the size of the heap and the page table of every space keep
\* together through mmap, unmap, brk and page faults.
THEOREM SpacesInductive == Spec => []SpacesGood
BY InitGood, NextKeeps, PTL DEF Spec

\* No page is covered by two regions, and heap_vmr is the heap that brk() compares
\* addresses with.
THEOREM DisjointRegions == Spec => []RegionsDisjoint
<1>1. SpacesGood => RegionsDisjoint
  <2> SUFFICES ASSUME SpacesGood, NEW s \in Spaces
               PROVE  /\ \A i, j \in DOMAIN vmrs[s] :
                            i # j => Covered(vmrs[s][i]) \cap Covered(vmrs[s][j]) = {}
                      /\ {vmr.size : vmr \in {r \in Regions(s) : r.pmo = HeapPmo[s]}}
                            = {heap[s]} \ {-1}
    BY DEF RegionsDisjoint
  <2> DEFINE V == vmrs[s]
             h == heap[s]
  <2>1. Fits(s, V, h)
    BY DEF SpacesGood, Good
  <2>2. DOMAIN V = 1..Len(V)
    BY <2>1 DEF Fits
  <2>3. \A r : r \in Regions(s) <=> \E i \in 1..Len(V) : r = V[i]
    BY <2>2 DEF Regions
  <2> HIDE DEF V, h
  <2>4. \A i, j \in 1..Len(V) : i # j => Covered(V[i]) \cap Covered(V[j]) = {}
    BY <2>1 DEF Fits
  <2>5. ASSUME NEW i \in 1..Len(V), V[i].pmo = HeapPmo[s]
        PROVE  V[i].size = h /\ h # -1
    BY <2>1, <2>5, HeapApart DEF Fits
  <2>6. h # -1 => \E i \in 1..Len(V) : V[i].pmo = HeapPmo[s]
    BY <2>1 DEF Fits
  <2>7. {vmr.size : vmr \in {r \in Regions(s) : r.pmo = HeapPmo[s]}} = {h} \ {-1}
    BY <2>3, <2>5, <2>6
  <2> QED
    BY <2>2, <2>4, <2>7 DEF V, h
<1> QED
  BY <1>1, SpacesInductive, PTL

\* The page table says what the regions say: an entry is that of the region around its
\* page, and a region mapped at once has all its entries.
THEOREM TableMatches == Spec => []TableMatchesRegions
<1>1. SpacesGood => TableMatchesRegions
  <2> SUFFICES ASSUME SpacesGood, NEW s \in Spaces, NEW page \in Pages
               PROVE  LET around == {vmr \in Regions(s) : page \in Covered(vmr)}
                          entries == Query(pgtbl[s], page)
                      IN  /\ \A e \in entries : \E vmr \in around :
                                e.frame = Frame(vmr, page) /\ e.perm = vmr.perm
                          /\ \A vmr \in around : Type(vmr.pmo) = "DATA" => entries # {}
    BY DEF TableMatchesRegions
  <2> DEFINE V == vmrs[s]
             t == pgtbl[s]
  <2>1. Fits(s, V, heap[s]) /\ Agrees(V, t)
    BY DEF SpacesGood, Good
  <2>2. DOMAIN V = 1..Len(V)
    BY <2>1 DEF Fits
  <2>3. \A r : r \in Regions(s) <=> \E i \in 1..Len(V) : r = V[i]
    BY <2>2 DEF Regions
  <2> HIDE DEF V, t
  <2>4. ASSUME NEW e \in Query(t, page)
        PROVE  \E vmr \in Regions(s) :
                  page \in Covered(vmr) /\ e.frame = Frame(vmr, page) /\ e.perm = vmr.perm
    BY <2>1, <2>3 DEF Agrees
  <2>5. ASSUME NEW vmr \in Regions(s), page \in Covered(vmr), Type(vmr.pmo) = "DATA"
        PROVE  Query(t, page) # {}
    BY <2>1, <2>3, <2>5 DEF Agrees
  <2> QED
    BY <2>4, <2>5 DEF t
<1> QED
  BY <1>1, SpacesInductive, PTL

-----------------------------------------------------------------------------
(* The refinement of AddressSpace *)

\* What a page of a region shows.
FactOf(vmr, page) ==
    [page |-> page, of |-> vmr.pmo, index |-> page - vmr.start, perm |-> vmr.perm]

FactsOf(vmr) == IF Type(vmr.pmo) = "DEVICE" THEN {} ELSE {FactOf(vmr, page) : page \in Covered(vmr)}

\* What the regions of a list show: nothing of it depends on the entries.
Shown(V) == UNION {FactsOf(V[i]) : i \in 1..Len(V)}

\* An object is of data, anonymous or device memory.
LEMMA TypeIs ==
  ASSUME NEW o \in Pmos \cup HeapPmos
  PROVE  Type(o) \in {"DATA", "ANONYM", "DEVICE"}
BY VMSpaceAssumption DEF Type

\* What a list of regions shows is a fact for each page of its regions, devices left out.
LEMMA ShownAre ==
  ASSUME NEW V, NEW x
  PROVE  x \in Shown(V) <=> \E i \in 1..Len(V) : \E page \in Covered(V[i]) :
                               Type(V[i].pmo) # "DEVICE" /\ x = FactOf(V[i], page)
<1>1. x \in Shown(V) <=> \E i \in 1..Len(V) : x \in FactsOf(V[i])
  BY DEF Shown
<1>2. ASSUME NEW vmr
      PROVE  x \in FactsOf(vmr) <=> \E page \in Covered(vmr) :
                Type(vmr.pmo) # "DEVICE" /\ x = FactOf(vmr, page)
  BY DEF FactsOf
<1> QED
  BY <1>1, <1>2

\* Between a page with an entry and one that a fault would back a program sees no
\* difference.
LEMMA SeenIsShown == SpacesGood => \A s \in Spaces : Seen(s) = Shown(vmrs[s])
<1> SUFFICES ASSUME SpacesGood, NEW s \in Spaces PROVE Seen(s) = Shown(vmrs[s])
  OBVIOUS
<1> DEFINE V == vmrs[s]
           t == pgtbl[s]
<1>1. Fits(s, V, heap[s]) /\ Agrees(V, t)
  BY DEF SpacesGood, Good
<1>2. /\ V \in Seq(AnyRegion) /\ DOMAIN V = 1..Len(V)
      /\ \A i \in 1..Len(V) : V[i].pmo \in Pmos \cup HeapPmos
  <2>1. V \in Seq(AnyRegion)
    BY <1>1 DEF Fits
  <2>2. \A i \in 1..Len(V) : V[i] \in AnyRegion
    BY <2>1
  <2> QED
    BY <2>1, <2>2 DEF AnyRegion
<1>3. ASSUME NEW x
      PROVE  x \in Seen(s) <=>
               \/ \E page \in Pages : \E e \in Query(t, page) :
                     x = [page |-> page, of |-> e.frame.pmo, index |-> e.frame.index,
                          perm |-> e.perm]
               \/ \E i \in 1..Len(V) : \E page \in Covered(V[i]) :
                     /\ Type(V[i].pmo) = "ANONYM" /\ Query(t, page) = {}
                     /\ x = FactOf(V[i], page)
  <2>1. \A r : r \in Regions(s) <=> \E i \in 1..Len(V) : r = V[i]
    BY <1>2 DEF Regions
  <2>2. \A r, page : FactOf(r, page) = [page |-> page, of |-> Frame(r, page).pmo,
                                        index |-> Frame(r, page).index, perm |-> r.perm]
    BY DEF FactOf, Frame
  <2>3. x \in Seen(s) <=>
          \/ \E page \in Pages : \E e \in Query(t, page) :
                x = [page |-> page, of |-> e.frame.pmo, index |-> e.frame.index, perm |-> e.perm]
          \/ \E r \in Regions(s) : \E page \in Covered(r) :
                /\ Type(r.pmo) = "ANONYM" /\ Query(t, page) = {}
                /\ x = [page |-> page, of |-> Frame(r, page).pmo,
                        index |-> Frame(r, page).index, perm |-> r.perm]
    <3> DEFINE Fact(page, frame, perm) ==
                  [page |-> page, of |-> frame.pmo, index |-> frame.index, perm |-> perm]
               inTable(page) == {Fact(page, e.frame, e.perm) : e \in Query(t, page)}
               inList(r) == {Fact(page, Frame(r, page), r.perm) :
                                page \in {p \in Covered(r) : Query(t, p) = {}}}
               onDemand == {r \in Regions(s) : Type(r.pmo) = "ANONYM"}
               tables == UNION {inTable(page) : page \in Pages}
               lists == UNION {inList(r) : r \in onDemand}
    <3>1. Seen(s) = tables \cup lists
      BY DEF Seen
    <3>2. ASSUME NEW page \in Pages
          PROVE  x \in inTable(page) <=> \E e \in Query(t, page) :
            x = [page |-> page, of |-> e.frame.pmo, index |-> e.frame.index, perm |-> e.perm]
      OBVIOUS
    <3>3. ASSUME NEW r \in Regions(s)
          PROVE  x \in inList(r) <=> \E page \in Covered(r) :
                    /\ Query(t, page) = {}
                    /\ x = [page |-> page, of |-> Frame(r, page).pmo,
                            index |-> Frame(r, page).index, perm |-> r.perm]
      OBVIOUS
    <3> HIDE DEF inTable, inList, t
    <3>4. x \in Seen(s) <=> \/ \E page \in Pages : x \in inTable(page)
                          \/ \E r \in onDemand : x \in inList(r)
      <4>1. x \in tables <=> \E page \in Pages : x \in inTable(page)
        OBVIOUS
      <4> HIDE DEF tables, onDemand
      <4>2. x \in lists <=> \E r \in onDemand : x \in inList(r)
        OBVIOUS
      <4> HIDE DEF lists
      <4> QED
        BY <3>1, <4>1, <4>2
    <3>5. (\E page \in Pages : x \in inTable(page)) <=>
             \E page \in Pages : \E e \in Query(t, page) :
               x = [page |-> page, of |-> e.frame.pmo, index |-> e.frame.index, perm |-> e.perm]
      BY <3>2
    <3>6. (\E r \in onDemand : x \in inList(r)) <=>
             \E r \in Regions(s) : \E page \in Covered(r) :
                /\ Type(r.pmo) = "ANONYM" /\ Query(t, page) = {}
                /\ x = [page |-> page, of |-> Frame(r, page).pmo,
                        index |-> Frame(r, page).index, perm |-> r.perm]
      BY <3>3
    <3> QED
      BY <3>4, <3>5, <3>6
  <2> HIDE DEF V, t
  <2> QED
    BY <2>1, <2>2, <2>3
<1> HIDE DEF V, t
<1>4. ASSUME NEW i \in 1..Len(V), NEW page \in Covered(V[i]), NEW e,
             e.frame = Frame(V[i], page), e.perm = V[i].perm
      PROVE  [page |-> page, of |-> e.frame.pmo, index |-> e.frame.index, perm |-> e.perm]
               = FactOf(V[i], page)
  BY <1>4 DEF FactOf, Frame
<1>5. ASSUME NEW x, x \in Seen(s) PROVE x \in Shown(V)
  <2>1. CASE \E page \in Pages : \E e \in Query(t, page) :
                x = [page |-> page, of |-> e.frame.pmo, index |-> e.frame.index, perm |-> e.perm]
    <3>0. PICK page \in Pages : \E e \in Query(t, page) :
                x = [page |-> page, of |-> e.frame.pmo, index |-> e.frame.index, perm |-> e.perm]
      BY <2>1
    <3>1. PICK e \in Query(t, page) :
                x = [page |-> page, of |-> e.frame.pmo, index |-> e.frame.index, perm |-> e.perm]
      BY <3>0
    <3>2. PICK i \in 1..Len(V) : /\ page \in Covered(V[i]) /\ e.frame = Frame(V[i], page)
                                 /\ e.perm = V[i].perm /\ Type(V[i].pmo) # "DEVICE"
      BY <1>1 DEF Agrees
    <3>3. x = FactOf(V[i], page)
      BY <1>4, <3>1, <3>2
    <3> QED
      BY <3>2, <3>3, ShownAre
  <2>2. CASE \E i \in 1..Len(V) : \E page \in Covered(V[i]) :
                /\ Type(V[i].pmo) = "ANONYM" /\ Query(t, page) = {}
                /\ x = FactOf(V[i], page)
    BY <2>2, ShownAre
  <2> QED
    BY <1>3, <1>5, <2>1, <2>2
<1>6. ASSUME NEW x, x \in Shown(V) PROVE x \in Seen(s)
  <2>0. PICK i \in 1..Len(V) : \E page \in Covered(V[i]) :
            Type(V[i].pmo) # "DEVICE" /\ x = FactOf(V[i], page)
    BY <1>6, ShownAre
  <2>1. PICK page \in Covered(V[i]) : Type(V[i].pmo) # "DEVICE" /\ x = FactOf(V[i], page)
    BY <2>0
  <2>2. page \in Pages
    BY DEF Covered
  <2>3. CASE Query(t, page) = {}
    <3>1. Type(V[i].pmo) # "DATA"
      BY <1>1, <2>2, <2>3 DEF Agrees
    <3>2. Type(V[i].pmo) = "ANONYM"
      BY <1>2, <2>1, <3>1, TypeIs
    <3> QED
      BY <1>3, <2>1, <2>3, <3>2
  <2>4. CASE Query(t, page) # {}
    <3>1. PICK e \in Query(t, page) : TRUE
      BY <2>4
    <3>2. PICK j \in 1..Len(V) : /\ page \in Covered(V[j]) /\ e.frame = Frame(V[j], page)
                                 /\ e.perm = V[j].perm
      BY <1>1, <2>2 DEF Agrees
    <3>3. j = i
      BY <1>1, <3>2 DEF Fits
    <3>4. x = [page |-> page, of |-> e.frame.pmo, index |-> e.frame.index, perm |-> e.perm]
      BY <1>4, <2>1, <3>2, <3>3
    <3> QED
      BY <1>3, <2>2, <3>4
  <2> QED
    BY <2>3, <2>4
<1> QED
  BY <1>5, <1>6 DEF V

\* The address space has at least one page.
LEMMA PagesAre == PerEntryPages[Levels] \in Nat \ {0}
<1>1. Levels \in Nat /\ Levels \in 0..Levels /\ Fanout \in Nat \ {0}
  BY PageTableAssumption
<1>2. PerEntryPages = Power(Fanout, Levels)
  BY Zenon DEF PerEntryPages, Power
<1> QED
  BY <1>1, <1>2, Powers

\* Pages of one region appear next to each other where nothing was.
LEMMA NewRun ==
  ASSUME NEW vmr \in AnyRegion, vmr.start \in Pages, NEW before, NEW pages \in SUBSET Covered(vmr),
         NEW new, new = {FactOf(vmr, page) : page \in pages},
         \A x \in before : x.page \notin pages,
         \A m, n \in pages, page \in Pages : m < page /\ page < n => page \in pages
  PROVE  View!Map(before, before \cup new)
<1>1. /\ vmr.pmo \in Pmos \cup HeapPmos /\ vmr.perm \in Perms
      /\ Pages \subseteq Int /\ pages \subseteq Pages /\ vmr.start \in Int
  BY DEF AnyRegion, Covered, Pages
<1>2. ASSUME NEW x \in new
      PROVE  /\ x.page \in pages /\ x.of = vmr.pmo /\ x.perm = vmr.perm
             /\ x.index = x.page - vmr.start
             /\ x \in [page : Pages, of : Pmos \cup HeapPmos, index : Pages, perm : Perms]
  <2>1. PICK page \in pages : x = FactOf(vmr, page)
    OBVIOUS
  <2>2. /\ x.page = page /\ x.of = vmr.pmo /\ x.index = page - vmr.start /\ x.perm = vmr.perm
    BY <2>1 DEF FactOf
  <2>3. page - vmr.start \in Pages
    <3>1. page \in Pages /\ vmr.start <= page /\ vmr.start \in Pages
      BY DEF Covered
    <3> QED
      BY <3>1, PagesAre DEF Pages
  <2>4. x \in [page : Pages, of : Pmos \cup HeapPmos, index : Pages, perm : Perms]
    BY <1>1, <2>1, <2>3 DEF FactOf
  <2> QED
    BY <2>2, <2>4
<1>3. (before \cup new) \ before = new
  BY <1>2
<1>4. new \subseteq [page : Pages, of : Pmos \cup HeapPmos, index : Pages, perm : Perms]
  BY <1>2
<1>5. ASSUME NEW x \in new, NEW y \in new
      PROVE  x.of = y.of /\ x.perm = y.perm /\ x.page - x.index = y.page - y.index
  <2>1. /\ x.of = vmr.pmo /\ y.of = vmr.pmo /\ x.perm = vmr.perm /\ y.perm = vmr.perm
        /\ x.page \in Int /\ y.page \in Int
        /\ x.index = x.page - vmr.start /\ y.index = y.page - vmr.start
    BY <1>1, <1>2
  <2> QED
    BY <1>1, <2>1
<1>6. \A x \in new, y \in before : x.page # y.page
  BY <1>2
<1>7. {x.page : x \in new} = pages
  <2>1. ASSUME NEW page \in pages PROVE \E x \in new : x.page = page
    <3>1. FactOf(vmr, page) \in new /\ FactOf(vmr, page).page = page
      BY DEF FactOf
    <3> QED
      BY <3>1
  <2> QED
    BY <1>2, <2>1
<1> HIDE DEF View!Map
<1>8. View!Together({x.page : x \in new})
  BY <1>7 DEF View!Together
<1> QED
  BY <1>3, <1>4, <1>5, <1>6, <1>8 DEF View!Map, View!Facts, View!SameMapping

\* A step that changes the list of one space is a step of its view.
LEMMA OneView ==
  ASSUME NEW s \in Spaces, SpacesGood,
         \A space \in Spaces : Seen(space) = Shown(vmrs[space]),
         \A space \in Spaces : Seen(space)' = Shown(vmrs'[space]),
         NEW W, vmrs' = [vmrs EXCEPT ![s] = W],
         View!Map(Shown(vmrs[s]), Shown(W)) \/ View!Unmap(Shown(vmrs[s]), Shown(W))
  PROVE  View!Next
<1>1. Seen(s) = Shown(vmrs[s]) /\ Seen(s)' = Shown(W)
  BY DEF SpacesGood
<1>2. ASSUME NEW other \in Spaces \ {s} PROVE Seen(other)' = Seen(other)
  BY DEF SpacesGood
<1>3. View!Map(Seen(s), Seen(s)') \/ View!Unmap(Seen(s), Seen(s)')
  BY <1>1
<1> QED
  BY <1>2, <1>3 DEF View!Next

-----------------------------------------------------------------------------
(* The view of each step *)

\* A step that changes no fact is one of the abstract view.
LEMMA NothingNew == ASSUME NEW before PROVE View!Map(before, before)
<1>1. View!Together({x.page : x \in {}})
  BY DEF View!Together
<1>2. before \ before = {}
  OBVIOUS
<1> QED
  BY <1>1, <1>2 DEF View!Map

\* A fact that is shown comes from a region that covers its page.
LEMMA ShownPages ==
  ASSUME NEW V, NEW x \in Shown(V)
  PROVE  \E i \in 1..Len(V) : /\ x.page \in Covered(V[i]) /\ x = FactOf(V[i], x.page)
                              /\ Type(V[i].pmo) # "DEVICE"
<1>1. PICK i \in 1..Len(V) : \E page \in Covered(V[i]) :
          Type(V[i].pmo) # "DEVICE" /\ x = FactOf(V[i], page)
  BY ShownAre
<1>2. PICK page \in Covered(V[i]) : Type(V[i].pmo) # "DEVICE" /\ x = FactOf(V[i], page)
  BY <1>1
<1>3. x.page = page
  BY <1>2 DEF FactOf
<1> QED
  BY <1>2, <1>3

\* One more region shows the facts of its own pages besides.
LEMMA ShownWith ==
  ASSUME NEW V \in Seq(AnyRegion), NEW vmr \in AnyRegion
  PROVE  Shown(<<vmr>> \o V) = Shown(V) \cup FactsOf(vmr)
<1> DEFINE W == <<vmr>> \o V
<1>1. /\ Len(W) = Len(V) + 1 /\ W[1] = vmr /\ Len(V) \in Nat
      /\ \A i \in 1..Len(W) : i # 1 => i - 1 \in 1..Len(V) /\ W[i] = V[i - 1]
      /\ \A i \in 1..Len(V) : i + 1 \in 1..Len(W) /\ W[i + 1] = V[i]
  BY Added
<1> HIDE DEF W
<1>2. ASSUME NEW i \in 1..Len(W) PROVE FactsOf(W[i]) \subseteq Shown(V) \cup FactsOf(vmr)
  BY <1>1 DEF Shown
<1>3. ASSUME NEW i \in 1..Len(V) PROVE FactsOf(V[i]) \subseteq Shown(W)
  BY <1>1 DEF Shown
<1>4. FactsOf(vmr) \subseteq Shown(W)
  BY <1>1 DEF Shown
<1>5. Shown(W) \subseteq Shown(V) \cup FactsOf(vmr)
  BY <1>2 DEF Shown
<1>6. Shown(V) \subseteq Shown(W)
  BY <1>3 DEF Shown
<1> QED
  BY <1>4, <1>5, <1>6 DEF W

\* sys_map_pmo()
LEMMA MapShows ==
  ASSUME SpacesGood, SpacesGood', NEW s \in Spaces, NEW first \in Starts, NEW o \in Pmos,
         NEW perm \in Perms, MapPmo(s, first, o, perm)
  PROVE  \E W : vmrs' = [vmrs EXCEPT ![s] = W] /\ View!Map(Shown(vmrs[s]), Shown(W))
<1> DEFINE vmr == [start |-> first, size |-> PmoSize[o], pmo |-> o, perm |-> perm]
           V == vmrs[s]
           W == <<vmr>> \o V
<1>1. /\ vmrs' = [vmrs EXCEPT ![s] = W] /\ vmrs'[s] = W /\ V \in Seq(AnyRegion)
  <2>1. vmrs' = [vmrs EXCEPT ![s] = W]
    BY DEF MapPmo, MapRegion
  <2>2. V \in Seq(AnyRegion)
    BY DEF SpacesGood, Good, Fits
  <2> QED
    BY <2>1, <2>2 DEF SpacesGood
<1>2. vmr \in AnyRegion /\ vmr.start \in Pages /\ vmr.perm = perm
  <2>1. Pages \subseteq Int
    BY DEF Pages
  <2>2. first \in Int /\ first \in Pages /\ PmoSize[o] \in Int
    BY <2>1, VMSpaceAssumption
  <2> QED
    BY <2>2 DEF AnyRegion
<1>3. Fits(s, W, heap'[s])
  BY <1>1 DEF SpacesGood, Good
<1> HIDE DEF V, vmr
<1>4. ASSUME NEW i \in 1..Len(V) PROVE Covered(vmr) \cap Covered(V[i]) = {}
  <2>1. /\ W[1] = vmr /\ W[i + 1] = V[i] /\ 1 # i + 1
        /\ 1 \in 1..Len(W) /\ i + 1 \in 1..Len(W)
    <3>1. Len(V) \in Nat /\ Len(W) = Len(V) + 1 /\ W[1] = vmr /\ W[i + 1] = V[i]
      BY <1>1, <1>2, Added
    <3> HIDE DEF W
    <3> QED
      BY <3>1
  <2> HIDE DEF W
  <2> QED
    BY <1>3, <2>1 DEF Fits
<1>5. Shown(W) = Shown(V) \cup FactsOf(vmr)
  BY <1>1, <1>2, ShownWith
<1> HIDE DEF W
<1>6. View!Map(Shown(V), Shown(W))
  <2>1. CASE Type(vmr.pmo) = "DEVICE"
    <3>1. Shown(W) = Shown(V)
      BY <1>5, <2>1 DEF FactsOf
    <3> QED
      BY <3>1, NothingNew
  <2>2. CASE Type(vmr.pmo) # "DEVICE"
    <3>1. FactsOf(vmr) = {FactOf(vmr, page) : page \in Covered(vmr)}
      BY <2>2 DEF FactsOf
    <3>2. \A x \in Shown(V) : x.page \notin Covered(vmr)
      BY <1>4, ShownPages
    <3>3. \A m, n \in Covered(vmr), page \in Pages : m < page /\ page < n => page \in Covered(vmr)
      <4>1. vmr.start \in Int /\ vmr.size \in Int /\ Pages \subseteq Int
        BY <1>2 DEF AnyRegion, Pages
      <4> QED
        BY <4>1 DEF Covered
    <3> QED
      BY <1>2, <1>5, <3>1, <3>2, <3>3, NewRun
  <2> QED
    BY <2>1, <2>2
<1> QED
  BY <1>1, <1>6 DEF V

\* sys_handle_brk(0)
LEMMA InitHeapShows ==
  ASSUME SpacesGood, NEW s \in Spaces, InitHeap(s)
  PROVE  \E W : vmrs' = [vmrs EXCEPT ![s] = W] /\ View!Map(Shown(vmrs[s]), Shown(W))
<1> DEFINE vmr == [start |-> HeapStart, size |-> 0, pmo |-> HeapPmo[s], perm |-> "rw"]
           V == vmrs[s]
           W == <<vmr>> \o V
<1>1. vmrs' = [vmrs EXCEPT ![s] = W] /\ V \in Seq(AnyRegion)
  BY DEF InitHeap, SpacesGood, Good, Fits
<1>2. HeapStart \in Int /\ Pages \subseteq Int
  BY VMSpaceAssumption DEF Pages
<1>3. vmr \in AnyRegion
  BY <1>2, VMSpaceAssumption, HeapApart DEF AnyRegion
<1>4. Covered(vmr) = {}
  <2> SUFFICES ASSUME NEW page \in Covered(vmr) PROVE FALSE
    OBVIOUS
  <2>1. page \in Int /\ HeapStart <= page /\ page < HeapStart + 0
    BY <1>2 DEF Covered
  <2> QED
    BY <1>2, <2>1
<1> HIDE DEF vmr, V
<1>5. Shown(W) = Shown(V)
  <2>1. FactsOf(vmr) = {}
    BY <1>4 DEF FactsOf
  <2>2. Shown(W) = Shown(V) \cup FactsOf(vmr)
    BY <1>1, <1>3, ShownWith
  <2> QED
    BY <2>1, <2>2
<1> HIDE DEF W
<1>6. View!Map(Shown(V), Shown(W))
  BY <1>5, NothingNew
<1> QED
  BY <1>1, <1>6 DEF V

\* sys_unmap_pmo() of what was mapped: its pages are those that look like one of them.
LEMMA UnmapShows ==
  ASSUME SpacesGood, NEW s \in Spaces, NEW page \in Starts, NEW o \in Pmos,
         Mapped(s, page, o), UnmapPmo(s, page, o)
  PROVE  \E W : /\ vmrs' = [vmrs EXCEPT ![s] = W]
                /\ \/ View!Map(Shown(vmrs[s]), Shown(W))
                   \/ View!Unmap(Shown(vmrs[s]), Shown(W))
<1> DEFINE V == vmrs[s]
<1>1. V \in Seq(AnyRegion) /\ \A i \in 1..Len(V) : V[i] \in AnyRegion
  <2>1. V \in Seq(AnyRegion)
    BY DEF SpacesGood, Good, Fits
  <2> QED
    BY <2>1
<1>2. PICK i \in 1..Len(V) :
          /\ V[i].start = page /\ page \in Pages /\ page \in Covered(V[i])
          /\ \A j \in 1..Len(V) : j # i => Covered(V[i]) \cap Covered(V[j]) = {}
          /\ vmrs' = [vmrs EXCEPT ![s] = RemoveAt(V, i)]
  BY UnmapFinds
<1>3. PICK U : vmrs' = [vmrs EXCEPT ![s] = U] /\ U = RemoveAt(V, i)
  BY <1>2
<1> HIDE DEF V
<1>4. /\ \A j \in 1..Len(U) : \E m \in 1..Len(V) : m # i /\ U[j] = V[m]
      /\ \A m \in 1..Len(V) : m # i => \E j \in 1..Len(U) : U[j] = V[m]
  <2>1. V \in Seq(AnyRegion) /\ U = RemoveAt(V, i) /\ i \in 1..Len(V)
    BY <1>1, <1>3
  <2>2. Remains(V, i, U)
    BY <2>1, RemovedFrom
  <2> QED
    BY <2>2 DEF Remains
<1> DEFINE Other(y) == \E m \in 1..Len(V) : /\ m # i /\ Type(V[m].pmo) # "DEVICE"
                                            /\ \E p \in Covered(V[m]) : y = FactOf(V[m], p)
<1>6. ASSUME NEW y PROVE y \in Shown(U) <=> Other(y)
  <2>1. y \in Shown(U) <=> \E j \in 1..Len(U) : \E p \in Covered(U[j]) :
                               Type(U[j].pmo) # "DEVICE" /\ y = FactOf(U[j], p)
    BY ShownAre
  <2>2. ASSUME y \in Shown(U) PROVE Other(y)
    <3>1. PICK j \in 1..Len(U) : \E p \in Covered(U[j]) :
              Type(U[j].pmo) # "DEVICE" /\ y = FactOf(U[j], p)
      BY <2>1, <2>2
    <3>2. PICK m \in 1..Len(V) : m # i /\ U[j] = V[m]
      BY <1>4
    <3> QED
      BY <3>1, <3>2
  <2>3. ASSUME Other(y) PROVE y \in Shown(U)
    <3>1. PICK m \in 1..Len(V) : /\ m # i /\ Type(V[m].pmo) # "DEVICE"
                                 /\ \E p \in Covered(V[m]) : y = FactOf(V[m], p)
      BY <2>3
    <3>2. PICK j \in 1..Len(U) : U[j] = V[m]
      BY <1>4, <3>1
    <3> QED
      BY <2>1, <3>1, <3>2
  <2> QED
    BY <2>2, <2>3
<1>7. ASSUME NEW y
      PROVE  y \in Shown(V) <=> \/ Other(y)
                                \/ /\ Type(V[i].pmo) # "DEVICE"
                                   /\ \E p \in Covered(V[i]) : y = FactOf(V[i], p)
  <2>1. y \in Shown(V) <=> \E m \in 1..Len(V) : \E p \in Covered(V[m]) :
                               Type(V[m].pmo) # "DEVICE" /\ y = FactOf(V[m], p)
    BY ShownAre
  <2>2. ASSUME y \in Shown(V), ~ Other(y)
        PROVE  Type(V[i].pmo) # "DEVICE" /\ \E p \in Covered(V[i]) : y = FactOf(V[i], p)
    <3>1. PICK m \in 1..Len(V) : \E p \in Covered(V[m]) :
              Type(V[m].pmo) # "DEVICE" /\ y = FactOf(V[m], p)
      BY <2>1, <2>2
    <3>2. m = i
      BY <2>2, <3>1
    <3> QED
      BY <3>1, <3>2
  <2>3. ASSUME Other(y) PROVE y \in Shown(V)
    BY <2>1, <2>3
  <2> QED
    BY <2>1, <2>2, <2>3
<1>8. CASE Type(V[i].pmo) = "DEVICE"
  <2>1. Shown(U) = Shown(V)
    BY <1>6, <1>7, <1>8
  <2> QED
    BY <1>3, <2>1, NothingNew DEF V
<1>9. CASE Type(V[i].pmo) # "DEVICE"
  <2> DEFINE x == FactOf(V[i], page)
  <2>1. x \in Shown(V)
    BY <1>2, <1>7, <1>9
  <2>2. ASSUME NEW m \in 1..Len(V), NEW p \in Covered(V[m]), NEW y, y = FactOf(V[m], p)
        PROVE  View!SameMapping(x, y) <=> /\ V[m].pmo = V[i].pmo /\ V[m].perm = V[i].perm
                                          /\ V[m].start = page
    <3>1. /\ V[m].start \in Int /\ V[i].start \in Int /\ p \in Int /\ page \in Int
      BY <1>1, <1>2 DEF AnyRegion, Covered, Pages
    <3>2. /\ x.of = V[i].pmo /\ x.perm = V[i].perm /\ x.page = page /\ x.index = page - V[i].start
          /\ y.of = V[m].pmo /\ y.perm = V[m].perm /\ y.page = p /\ y.index = p - V[m].start
      BY <2>2 DEF FactOf
    <3>3. x.page - x.index = page /\ y.page - y.index = V[m].start
      BY <1>2, <3>1, <3>2
    <3> HIDE DEF x
    <3> QED
      BY <3>2, <3>3 DEF View!SameMapping
  <2>3. ASSUME NEW y, Other(y) PROVE ~ View!SameMapping(x, y)
    <3>1. PICK m \in 1..Len(V) : m # i /\ \E p \in Covered(V[m]) : y = FactOf(V[m], p)
      BY <2>3
    <3>2. PICK p \in Covered(V[m]) : y = FactOf(V[m], p)
      BY <3>1
    <3>3. SUFFICES ASSUME V[m].start = page PROVE FALSE
      BY <2>2, <3>2
    <3>4. page \in Covered(V[m])
      <4>1. p \in Int /\ page \in Int /\ V[m].start \in Int /\ V[m].size \in Int
        BY <1>1, <1>2 DEF AnyRegion, Covered, Pages
      <4>2. V[m].start <= p /\ p < V[m].start + V[m].size
        BY DEF Covered
      <4> QED
        BY <1>2, <3>3, <4>1, <4>2 DEF Covered
    <3> QED
      BY <1>2, <3>1, <3>4
  <2>4. ASSUME NEW p \in Covered(V[i]), NEW y, y = FactOf(V[i], p) PROVE View!SameMapping(x, y)
    BY <1>2, <2>2, <2>4
  <2> HIDE DEF Other, x
  <2>5. Shown(U) = {y \in Shown(V) : ~ View!SameMapping(x, y)}
    BY <1>6, <1>7, <2>3, <2>4
  <2>6. View!Unmap(Shown(V), Shown(U))
    BY <2>1, <2>5 DEF View!Unmap
  <2> QED
    BY <1>3, <2>6 DEF V
<1> QED
  BY <1>8, <1>9

\* sys_handle_brk()
LEMMA GrowShows ==
  ASSUME SpacesGood, SpacesGood', NEW s \in Spaces, NEW size \in Nat, GrowHeap(s, size)
  PROVE  \E W : vmrs' = [vmrs EXCEPT ![s] = W] /\ View!Map(Shown(vmrs[s]), Shown(W))
<1> DEFINE V == vmrs[s]
<1>1. V \in Seq(AnyRegion) /\ \A i \in 1..Len(V) : V[i] \in AnyRegion
  <2>1. V \in Seq(AnyRegion)
    BY DEF SpacesGood, Good, Fits
  <2> QED
    BY <2>1
<1>g. PICK k \in 1..Len(V), W \in Seq(AnyRegion) : GrowsTo(s, size, k, W)
  BY GrowFinds
<1>2. /\ vmrs' = [vmrs EXCEPT ![s] = W] /\ heap[s] \in Nat /\ heap[s] <= size
      /\ V[k].pmo = HeapPmo[s] /\ V[k].start = HeapStart /\ V[k].size = heap[s]
      /\ Len(W) = Len(V) /\ \A i \in 1..Len(V) : i # k => W[i] = V[i]
      /\ W[k] = [start |-> HeapStart, size |-> size, pmo |-> HeapPmo[s], perm |-> V[k].perm]
  BY <1>g DEF GrowsTo
<1>3. Fits(s, W, heap'[s])
  BY <1>2 DEF SpacesGood, Good
<1> HIDE DEF V
<1>4. /\ W[k].start = HeapStart /\ W[k].size = size /\ W[k].pmo = V[k].pmo /\ W[k].perm = V[k].perm
      /\ W[k] \in AnyRegion /\ HeapStart \in Pages /\ HeapStart \in Int /\ Pages \subseteq Int
  <2>1. k \in 1..Len(W) /\ HeapStart \in Pages /\ Pages \subseteq Int
    BY <1>2, VMSpaceAssumption DEF Pages
  <2> QED
    BY <1>2, <2>1
<1> DEFINE Before == Covered(V[k])
           After == Covered(W[k])
<1>5. /\ Before = {page \in Pages : HeapStart <= page /\ page < HeapStart + heap[s]}
      /\ After = {page \in Pages : HeapStart <= page /\ page < HeapStart + size}
  BY <1>2, <1>4 DEF Covered
<1>6. heap[s] \in Int /\ size \in Int /\ heap[s] <= size
  BY <1>2
<1>7. Before \subseteq After
  <2> SUFFICES ASSUME NEW page \in Before PROVE page \in After
    OBVIOUS
  <2>1. /\ page \in Pages /\ page \in Int /\ HeapStart <= page /\ page < HeapStart + heap[s]
    BY <1>4, <1>5
  <2>2. page < HeapStart + size
    BY <1>4, <1>6, <2>1
  <2> QED
    BY <1>5, <2>1, <2>2
<1>8. \A page : FactOf(W[k], page) = FactOf(V[k], page)
  BY <1>2, <1>4 DEF FactOf
<1>9. Type(W[k].pmo) # "DEVICE" /\ Type(V[k].pmo) # "DEVICE"
  BY <1>2, <1>4, HeapApart
<1> DEFINE new == {FactOf(W[k], page) : page \in After \ Before}
<1>10. Shown(W) = Shown(V) \cup new
  <2>1. FactsOf(W[k]) = FactsOf(V[k]) \cup new
    <3>1. FactsOf(W[k]) = {FactOf(W[k], page) : page \in After}
      BY <1>9 DEF FactsOf
    <3>2. FactsOf(V[k]) = {FactOf(W[k], page) : page \in Before}
      BY <1>8, <1>9 DEF FactsOf
    <3> HIDE DEF After, Before
    <3> QED
      BY <1>7, <3>1, <3>2
  <2>2. \A i \in 1..Len(V) : i # k => FactsOf(W[i]) = FactsOf(V[i])
    BY <1>2
  <2> HIDE DEF new
  <2>3. ASSUME NEW x PROVE x \in Shown(W) <=> x \in Shown(V) \/ x \in new
    <3>1. x \in Shown(W) <=> \E i \in 1..Len(V) : x \in FactsOf(W[i])
      BY <1>2 DEF Shown
    <3>2. x \in Shown(V) <=> \E i \in 1..Len(V) : x \in FactsOf(V[i])
      BY DEF Shown
    <3> QED
      BY <2>1, <2>2, <3>1, <3>2
  <2> QED
    BY <2>3
<1>11. \A x \in Shown(V) : x.page \notin After \ Before
  <2> SUFFICES ASSUME NEW x \in Shown(V), x.page \in After, x.page \notin Before PROVE FALSE
    OBVIOUS
  <2>1. PICK i \in 1..Len(V) : x.page \in Covered(V[i])
    BY ShownPages
  <2>2. i # k /\ W[i] = V[i] /\ i \in 1..Len(W) /\ k \in 1..Len(W)
    BY <1>2, <2>1
  <2> QED
    BY <1>3, <2>1, <2>2 DEF Fits
<1>12. ASSUME NEW m \in After \ Before, NEW n \in After \ Before, NEW page \in Pages,
              m < page, page < n
       PROVE  page \in After \ Before
  <2>1. /\ m \in Int /\ n \in Int /\ page \in Int /\ HeapStart <= m
        /\ n < HeapStart + size /\ ~(m < HeapStart + heap[s])
    BY <1>4, <1>5
  <2>2. HeapStart <= page /\ page < HeapStart + size /\ ~(page < HeapStart + heap[s])
    BY <1>4, <1>6, <1>12, <2>1
  <2> QED
    BY <1>5, <2>2
<1>13. View!Map(Shown(V), Shown(W))
  <2> DEFINE pages == After \ Before
  <2>1. /\ pages \in SUBSET Covered(W[k]) /\ new = {FactOf(W[k], page) : page \in pages}
        /\ \A x \in Shown(V) : x.page \notin pages
        /\ \A m, n \in pages, page \in Pages : m < page /\ page < n => page \in pages
    BY <1>11, <1>12
  <2>2. W[k] \in AnyRegion /\ W[k].start \in Pages
    BY <1>4
  <2> HIDE DEF pages, new
  <2>3. View!Map(Shown(V), Shown(V) \cup new)
    BY <2>1, <2>2, NewRun
  <2> QED
    BY <1>10, <2>3
<1> QED
  BY <1>2, <1>13 DEF V

-----------------------------------------------------------------------------
(* Every step *)

\* What a program sees in a space is what its regions show.
ViewsShown == \A space \in Spaces : Seen(space) = Shown(vmrs[space])

\* The initial state shows an initial view.
LEMMA ViewBegins == Init => View!Init
<1> SUFFICES ASSUME Init PROVE View!Init
  OBVIOUS
<1>1. SpacesGood /\ \A s \in Spaces : vmrs[s] = <<>>
  BY InitGood DEF Init
<1>2. Shown(<<>>) = {}
  <2>1. Len(<<>>) = 0
    OBVIOUS
  <2> QED
    BY <2>1 DEF Shown
<1>3. \A s \in Spaces : Seen(s) = {}
  BY <1>1, <1>2, SeenIsShown
<1> QED
  BY <1>3 DEF View!Init

\* A list that changes shows as a mapping or an unmapping.
LEMMA ListShows ==
  ASSUME SpacesGood, ViewsShown, ViewsShown', NEW s \in Spaces,
         \E W : /\ vmrs' = [vmrs EXCEPT ![s] = W]
                /\ \/ View!Map(Shown(vmrs[s]), Shown(W))
                   \/ View!Unmap(Shown(vmrs[s]), Shown(W))
  PROVE  View!Next
<1>1. PICK W : /\ vmrs' = [vmrs EXCEPT ![s] = W]
               /\ \/ View!Map(Shown(vmrs[s]), Shown(W))
                  \/ View!Unmap(Shown(vmrs[s]), Shown(W))
  OBVIOUS
<1>2. /\ \A space \in Spaces : Seen(space) = Shown(vmrs[space])
      /\ \A space \in Spaces : Seen(space)' = Shown(vmrs'[space])
  BY DEF ViewsShown
<1> QED
  BY <1>1, <1>2, OneView

\* A step that leaves the lists alone is not seen, whatever it does to a page table.
LEMMA ListsKept ==
  ASSUME ViewsShown, ViewsShown', UNCHANGED vmrs
  PROVE  UNCHANGED [s \in Spaces |-> Seen(s)]
<1>1. ASSUME NEW s \in Spaces PROVE Seen(s)' = Seen(s)
  BY DEF ViewsShown
<1> QED
  BY <1>1

\* A step shows a step of the abstract view, or a stutter.
LEMMA ViewSteps ==
  ASSUME SpacesGood, SpacesGood', ViewsShown, ViewsShown', [Next]_vars
  PROVE  [View!Next]_[s \in Spaces |-> Seen(s)]
<1>1. CASE MapAny
  <2>1. PICK s \in Spaces, first \in Starts, o \in Pmos, perm \in Perms :
            MapPmo(s, first, o, perm)
    BY <1>1 DEF MapAny
  <2>2. \E W : vmrs' = [vmrs EXCEPT ![s] = W] /\ View!Map(Shown(vmrs[s]), Shown(W))
    BY <2>1, MapShows
  <2> QED
    BY <2>2, ListShows
<1>2. CASE UnmapMapped
  <2>1. PICK s \in Spaces, page \in Starts, o \in Pmos :
            Mapped(s, page, o) /\ UnmapPmo(s, page, o)
    BY <1>2 DEF UnmapMapped
  <2> QED
    BY <2>1, UnmapShows, ListShows
<1>3. CASE HeapAndFaults
  <2>1. PICK s \in Spaces :
            \/ InitHeap(s)
            \/ \E size \in 1..(PerEntryPages[Levels] - HeapStart) : GrowHeap(s, size)
            \/ \E page \in Pages : PageFault(s, page)
    BY <1>3 DEF HeapAndFaults
  <2>2. CASE InitHeap(s)
    BY <2>2, InitHeapShows, ListShows
  <2>3. CASE \E size \in 1..(PerEntryPages[Levels] - HeapStart) : GrowHeap(s, size)
    <3>1. PICK size \in 1..(PerEntryPages[Levels] - HeapStart) : GrowHeap(s, size)
      BY <2>3
    <3>2. size \in Nat
      BY <3>1
    <3> QED
      BY <3>1, <3>2, GrowShows, ListShows
  <2>4. CASE \E page \in Pages : PageFault(s, page)
    <3>1. UNCHANGED vmrs
      BY <2>4 DEF PageFault
    <3> QED
      BY <3>1, ListsKept
  <2> QED
    BY <2>1, <2>2, <2>3, <2>4
<1>4. CASE UNCHANGED vars
  BY <1>4, ListsKept DEF vars
<1> QED
  BY <1>1, <1>2, <1>3, <1>4 DEF Next

\* An address space keeps what AddressSpace promises: a mapping shows all its pages at
\* once and where nothing was, an unmapping takes all of them away, and no page fault
\* is visible.
THEOREM RefinesAddressSpace == Spec => ImplementsAddressSpace
<1>1. Init => View!Init
  BY ViewBegins
<1>2. SpacesGood => ViewsShown
  BY SeenIsShown DEF ViewsShown
<1>3. SpacesGood /\ SpacesGood' /\ ViewsShown /\ ViewsShown' /\ [Next]_vars
          => [View!Next]_[s \in Spaces |-> Seen(s)]
  BY ViewSteps
<1> QED
  BY <1>1, <1>2, <1>3, SpacesInductive, PTL DEF Spec, ImplementsAddressSpace, View!Spec

=============================================================================
