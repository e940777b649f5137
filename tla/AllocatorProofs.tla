--------------------------- MODULE AllocatorProofs ---------------------------
(***************************************************************************)
(* The allocators, proved for any pool and any sizes.  The buddy           *)
(* allocator: its free chunks and those of its callers tile the pool, its  *)
(* lists are exact, what is free is merged as far as it goes, and it       *)
(* implements PageAllocator.  kmalloc() on top of it: the objects of       *)
(* callers are apart, and no memory is lost.                               *)
(*                                                                         *)
(* The proofs of the first part rest on the geometry of aligned blocks:    *)
(* two of them are disjoint or nested, so that the buddy of a chunk is     *)
(* always the head of a chunk, whose metadata is up to date.  Those of the *)
(* second rest on chunks that are apart: an address has one page, a page   *)
(* one chunk, and a place in a slab one object.                            *)
(***************************************************************************)
EXTENDS Kmalloc, DataLemmas

-----------------------------------------------------------------------------
(* Aligned blocks *)

\* A chunk has one page at order 0 and twice as many at each order above.
LEMMA ChunkSizes ==
  /\ ChunkSize[0] = 1
  /\ \A n \in 0..MaxOrder : ChunkSize[n] \in Nat \ {0}
  /\ \A n \in 1..MaxOrder : ChunkSize[n] = 2 * ChunkSize[n - 1]
<1>1. MaxOrder \in Nat /\ 2 \in Nat \ {0}
  BY PoolAssumption
<1>2. ChunkSize = Power(2, MaxOrder)
  BY Zenon DEF ChunkSize, Power
<1> QED
  BY <1>1, <1>2, Powers

\* The chunk of the given order that starts at h, and whether its address is a
\* multiple of its size.
Span(h, order) == h..(h + ChunkSize[order] - 1)
Aligned(h, order) == \E a \in Nat : Base + h = a * ChunkSize[order]

\* The two halves of a chunk of order + 1.
Halves(l, u, order) == u = l + ChunkSize[order] /\ Aligned(l, order + 1)
Twins(h, b, order) == Halves(h, b, order) \/ Halves(b, h, order)

\* The chunk of a larger order is a whole number of chunks of a smaller one.
LEMMA Factors ==
  ASSUME NEW i \in 0..MaxOrder, NEW j \in i..MaxOrder
  PROVE  \E m \in Nat \ {0} : ChunkSize[j] = m * ChunkSize[i]
<1> DEFINE Good == {d \in Nat : i + d <= MaxOrder =>
                       \E m \in Nat \ {0} : ChunkSize[i + d] = m * ChunkSize[i]}
<1>1. MaxOrder \in Nat /\ i \in Nat /\ j \in Nat /\ i <= j /\ j <= MaxOrder
  BY PoolAssumption
<1>2. ChunkSize[i] \in Nat \ {0}
  BY <1>1, ChunkSizes
<1>3. 0 \in Good
  <2>1. ChunkSize[i + 0] = 1 * ChunkSize[i]
    BY <1>1, <1>2
  <2> QED
    BY <2>1
<1>4. ASSUME NEW d \in 1..(j - i), d - 1 \in Good PROVE d \in Good
  <2>1. d \in Nat /\ i + (d - 1) \in 0..MaxOrder /\ i + d \in 1..MaxOrder /\ (i + d) - 1 = i + (d - 1)
    BY <1>1
  <2>2. PICK m \in Nat \ {0} : ChunkSize[i + (d - 1)] = m * ChunkSize[i]
    BY <1>4, <2>1
  <2>3. ChunkSize[i + d] = 2 * (m * ChunkSize[i])
    BY <2>1, <2>2, ChunkSizes
  <2>4. 2 * m \in Nat \ {0} /\ 2 * (m * ChunkSize[i]) = (2 * m) * ChunkSize[i]
    BY <1>2
  <2> QED
    BY <2>1, <2>3, <2>4
<1>5. 0..(j - i) \subseteq Good
  <2>1. j - i \in Nat
    BY <1>1
  <2> HIDE DEF Good
  <2> QED
    BY <1>3, <1>4, <2>1, UpTo
<1>6. j - i \in Good /\ i + (j - i) = j
  <2>1. j - i \in 0..(j - i) /\ i + (j - i) = j
    BY <1>1
  <2> HIDE DEF Good
  <2> QED
    BY <1>5, <2>1
<1> QED
  BY <1>1, <1>6

\* A positive common factor may be dropped from a strict inequality.
LEMMA Cancel ==
  ASSUME NEW x \in Int, NEW y \in Int, NEW d \in Nat \ {0}, x * d < y * d
  PROVE  x < y
<1> SUFFICES ASSUME y <= x PROVE FALSE
  OBVIOUS
<1>1. (x - y) * d >= 0
  OBVIOUS
<1>2. (x - y) * d = x * d - y * d
  OBVIOUS
<1>3. x * d \in Int /\ y * d \in Int
  OBVIOUS
<1> QED
  BY <1>1, <1>2, <1>3

\* Two aligned chunks that share a page are nested.
LEMMA Nested ==
  ASSUME NEW h \in Int, NEW i \in 0..MaxOrder, Aligned(h, i),
         NEW g \in Int, NEW j \in i..MaxOrder, Aligned(g, j),
         NEW x \in Int, x \in Span(h, i), x \in Span(g, j)
  PROVE  Span(h, i) \subseteq Span(g, j)
<1> DEFINE d == ChunkSize[i]
           e == ChunkSize[j]
<1>1. d \in Nat \ {0} /\ e \in Nat \ {0} /\ Base \in Nat
  BY ChunkSizes, PoolAssumption
<1>2. PICK a \in Nat : Base + h = a * d
  BY DEF Aligned
<1>3. PICK c \in Nat : Base + g = c * e
  BY DEF Aligned
<1>4. PICK m \in Nat \ {0} : e = m * d
  BY Factors
<1>5. h <= x /\ x < h + d /\ g <= x /\ x < g + e
  BY <1>1 DEF Span
<1> HIDE DEF d, e
<1>6. c * e = (c * m) * d /\ c * m \in Int
  BY <1>1, <1>4
<1>7. (a + 1) * d = a * d + d
  BY <1>1
<1>8. (c * m + m) * d = (c * m) * d + e
  BY <1>1, <1>4, <1>6
<1>9. c * m < a + 1
  <2>1. (c * m) * d < (a + 1) * d
    BY <1>1, <1>2, <1>3, <1>5, <1>6, <1>7
  <2> QED
    BY <2>1, <1>1, <1>6, Cancel
<1>10. a < c * m + m
  <2>1. a * d < (c * m + m) * d
    BY <1>1, <1>2, <1>3, <1>5, <1>6, <1>8
  <2> QED
    BY <2>1, <1>1, <1>6, Cancel
<1>11. g <= h
  <2>1. (c * m) * d <= a * d
    <3>1. (a - c * m) * d >= 0 /\ (a - c * m) * d = a * d - (c * m) * d
      BY <1>1, <1>6, <1>9
    <3>2. a * d \in Int /\ (c * m) * d \in Int
      BY <1>1, <1>6
    <3> QED
      BY <3>1, <3>2
  <2> QED
    BY <2>1, <1>1, <1>2, <1>3, <1>6
<1>12. h + d <= g + e
  <2>1. (a + 1) * d <= (c * m + m) * d
    <3>1. (c * m + m - (a + 1)) * d >= 0
      BY <1>1, <1>6, <1>10
    <3>2. (c * m + m - (a + 1)) * d = (c * m + m) * d - (a + 1) * d
      BY <1>1, <1>6
    <3>3. (a + 1) * d \in Int /\ (c * m + m) * d \in Int
      BY <1>1, <1>6
    <3> QED
      BY <3>1, <3>2, <3>3
  <2> QED
    BY <2>1, <1>1, <1>2, <1>3, <1>6, <1>7, <1>8
<1> QED
  BY <1>1, <1>11, <1>12 DEF Span, d, e

\* The two halves of a chunk are aligned, share no page and are the chunk together.
LEMMA HalvesAre ==
  ASSUME NEW l \in Int, NEW u \in Int, NEW order \in Orders, Halves(l, u, order)
  PROVE  /\ l < u /\ Aligned(l, order) /\ Aligned(u, order)
         /\ Span(l, order + 1) = Span(l, order) \cup Span(u, order)
         /\ Span(l, order) \cap Span(u, order) = {}
<1> DEFINE d == ChunkSize[order]
<1>1. order \in 0..MaxOrder /\ order + 1 \in 1..MaxOrder /\ (order + 1) - 1 = order
  BY PoolAssumption DEF Orders
<1>2. d \in Nat \ {0} /\ ChunkSize[order + 1] = 2 * d /\ Base \in Nat
  BY <1>1, ChunkSizes, PoolAssumption
<1> HIDE DEF d
<1>3. PICK m \in Nat : Base + l = m * (2 * d)
  BY <1>2 DEF Halves, Aligned
<1>4. u = l + d
  BY DEF Halves, d
<1>5. Base + l = (2 * m) * d /\ Base + u = (2 * m + 1) * d
  BY <1>2, <1>3, <1>4
<1>6. Aligned(l, order) /\ Aligned(u, order)
  <2>1. 2 * m \in Nat /\ 2 * m + 1 \in Nat
    OBVIOUS
  <2> QED
    BY <1>5, <2>1 DEF Aligned, d
<1>7. /\ Span(l, order) = l..(l + d - 1) /\ Span(u, order) = u..(u + d - 1)
      /\ Span(l, order + 1) = l..(l + 2 * d - 1)
  BY <1>2 DEF Span, d
<1>8. l < u
  BY <1>2, <1>4
<1> QED
  BY <1>2, <1>4, <1>6, <1>7, <1>8

\* get_buddy_chunk()
LEMMA BuddyIsTwin ==
  ASSUME NEW h \in Pages, NEW order \in Orders, Aligned(h, order)
  PROVE  /\ BuddyChunk(h, order) \in Pages \cup {NULL}
         /\ \A b \in Pages : BuddyChunk(h, order) = b <=> Twins(h, b, order)
<1> DEFINE d == ChunkSize[order]
           cand == IF ((Base + h) \div d) % 2 = 0 THEN h + d ELSE h - d
<1>1. /\ order \in 0..MaxOrder /\ order + 1 \in 1..MaxOrder /\ (order + 1) - 1 = order
      /\ h \in Nat /\ Pages \subseteq Nat
  BY PoolAssumption DEF Orders, Pages
<1>2. d \in Nat \ {0} /\ ChunkSize[order + 1] = 2 * d /\ Base \in Nat
  BY <1>1, ChunkSizes, PoolAssumption
<1>3. BuddyChunk(h, order) = IF cand \in Pages THEN cand ELSE NULL
  BY DEF BuddyChunk
<1>4. PICK a \in Nat : Base + h = a * d
  BY DEF Aligned, d
<1> HIDE DEF d
<1>5. (Base + h) \div d = a
  BY <1>2, <1>4
<1>6. PICK m \in Nat : a = 2 * m \/ a = 2 * m + 1
  <2>1. a \div 2 \in Nat /\ (a = 2 * (a \div 2) \/ a = 2 * (a \div 2) + 1)
    OBVIOUS
  <2> QED
    BY <2>1
<1>7. a % 2 = 0 <=> a = 2 * m
  BY <1>6
<1>8. ASSUME NEW b \in Int PROVE Twins(h, b, order) <=> b = cand
  <2>1. CASE a = 2 * m
    <3>1. cand = h + d
      BY <1>5, <1>7, <2>1
    <3>2. Base + h = m * (2 * d)
      BY <1>2, <1>4, <2>1
    <3>3. Aligned(h, order + 1)
      BY <1>2, <3>2 DEF Aligned
    <3>4. ~ Halves(b, h, order)
      <4> SUFFICES ASSUME Halves(b, h, order) PROVE FALSE
        OBVIOUS
      <4>1. PICK c \in Nat : Base + b = c * (2 * d)
        BY <1>2 DEF Halves, Aligned
      <4>2. h = b + d
        BY DEF Halves, d
      <4>3. (2 * c + 1) * d = (2 * m) * d
        BY <1>1, <1>2, <1>4, <2>1, <4>1, <4>2
      <4>4. ~(2 * c + 1 < 2 * m) /\ ~(2 * m < 2 * c + 1)
        <5>1. ASSUME NEW x \in Int, NEW y \in Int, x < y PROVE x * d < y * d
          <6>1. (y - x) * d > 0 /\ (y - x) * d = y * d - x * d /\ y * d \in Int /\ x * d \in Int
            BY <1>2, <5>1
          <6> QED
            BY <6>1
        <5>2. (2 * c + 1) * d \in Int /\ 2 * c + 1 \in Int /\ 2 * m \in Int
          BY <1>2
        <5> QED
          BY <4>3, <5>1, <5>2
      <4> QED
        BY <4>4
    <3> QED
      BY <3>1, <3>3, <3>4 DEF Twins, Halves, d
  <2>2. CASE a = 2 * m + 1
    <3>1. cand = h - d
      BY <1>5, <1>7, <2>2
    <3>2. Base + (h - d) = m * (2 * d)
      BY <1>1, <1>2, <1>4, <2>2
    <3>3. Aligned(h - d, order + 1) /\ (h - d) + d = h
      BY <1>1, <1>2, <3>2 DEF Aligned
    <3>4. ~ Halves(h, b, order)
      <4> SUFFICES ASSUME Halves(h, b, order) PROVE FALSE
        OBVIOUS
      <4>1. PICK c \in Nat : Base + h = c * (2 * d)
        BY <1>2 DEF Halves, Aligned
      <4>2. (2 * c) * d = (2 * m + 1) * d
        BY <1>2, <1>4, <2>2, <4>1
      <4>3. ~(2 * c < 2 * m + 1) /\ ~(2 * m + 1 < 2 * c)
        <5>1. ASSUME NEW x \in Int, NEW y \in Int, x < y PROVE x * d < y * d
          <6>1. (y - x) * d > 0 /\ (y - x) * d = y * d - x * d /\ y * d \in Int /\ x * d \in Int
            BY <1>2, <5>1
          <6> QED
            BY <6>1
        <5>2. (2 * c) * d \in Int /\ 2 * m + 1 \in Int /\ 2 * c \in Int
          BY <1>2
        <5> QED
          BY <4>2, <5>1, <5>2
      <4> QED
        BY <4>3
    <3>5. Halves(h - d, h, order)
      BY <3>3 DEF Halves, d
    <3>6. Halves(b, h, order) => b = h - d
      BY <1>1, <1>2 DEF Halves, d
    <3> QED
      BY <3>1, <3>4, <3>5, <3>6 DEF Twins
  <2> QED
    BY <1>6, <2>1, <2>2
<1>9. cand \in Int /\ NULL \notin Pages
  BY <1>1, <1>2 DEF NULL, Pages
<1> HIDE DEF cand
<1> QED
  BY <1>1, <1>3, <1>8, <1>9

-----------------------------------------------------------------------------
(* Tilings of the pool *)

\* Every page is in the chunk of exactly one of the heads in T.
Tiles(ord, T) ==
    /\ T \subseteq Pages
    /\ \A h \in T : /\ ord[h] \in Orders /\ Aligned(h, ord[h])
                    /\ h \in Span(h, ord[h]) /\ Span(h, ord[h]) \subseteq Pages
    /\ \A x \in Pages : \E h \in T : x \in Span(h, ord[h])
    /\ \A h, g \in T : \A x \in Pages :
          x \in Span(h, ord[h]) /\ x \in Span(g, ord[g]) => h = g

\* A chunk begins with its head, and holds integers only.
LEMMA SpanHasHead ==
  ASSUME NEW h \in Int, NEW n \in 0..MaxOrder
  PROVE  h \in Span(h, n) /\ \A x \in Span(h, n) : x \in Int /\ h <= x
<1>1. ChunkSize[n] \in Nat \ {0}
  BY ChunkSizes
<1> QED
  BY <1>1 DEF Span

\* The bounds on pages and orders that the steps below need.
LEMMA OrdersAre ==
  /\ Pages \subseteq Int /\ Orders \subseteq 0..MaxOrder
  /\ \A o \in Orders : o + 1 \in 0..MaxOrder /\ o + 1 \in Int /\ o \in Int
  /\ \A o, k \in Orders : k <= o \/ k \in (o + 1)..MaxOrder
BY PoolAssumption DEF Pages, Orders

\* The buddy of a chunk is the head of a chunk that is not larger.
LEMMA BuddyIsHead ==
  ASSUME NEW ord, NEW T, Tiles(ord, T), NEW h \in T, NEW b \in Pages, Twins(h, b, ord[h])
  PROVE  b \in T /\ ord[b] <= ord[h]
<1> DEFINE o == ord[h]
<1>1. o \in Orders /\ h \in Pages /\ h \in Int /\ b \in Int
  BY OrdersAre DEF Tiles
<1>2. PICK g \in T : b \in Span(g, ord[g])
  BY DEF Tiles
<1> DEFINE k == ord[g]
<1>3. k \in Orders /\ Aligned(g, k) /\ g \in Int
  BY OrdersAre DEF Tiles
<1>4. o \in 0..MaxOrder /\ k \in 0..MaxOrder /\ o + 1 \in 0..MaxOrder
  BY <1>1, <1>3, OrdersAre
<1>5. Aligned(b, o) /\ \E l \in Int : /\ Aligned(l, o + 1)
                                      /\ b \in Span(l, o + 1) /\ h \in Span(l, o + 1)
  <2>1. b \in Span(b, o) /\ h \in Span(h, o)
    BY <1>1, <1>4, SpanHasHead
  <2>2. CASE Halves(h, b, o)
    <3>1. Aligned(b, o) /\ Span(h, o + 1) = Span(h, o) \cup Span(b, o)
      BY <2>2, <1>1, HalvesAre
    <3> QED
      BY <3>1, <2>1, <2>2, <1>1 DEF Halves
  <2>3. CASE Halves(b, h, o)
    <3>1. Aligned(b, o) /\ Span(b, o + 1) = Span(b, o) \cup Span(h, o)
      BY <2>3, <1>1, HalvesAre
    <3> QED
      BY <3>1, <2>1, <2>3, <1>1 DEF Halves
  <2> QED
    BY <2>2, <2>3 DEF Twins
<1> HIDE DEF o, k
<1>6. CASE k <= o
  <2>1. b \in Span(b, o)
    BY <1>1, <1>4, SpanHasHead
  <2>2. o \in k..MaxOrder
    BY <1>4, <1>6
  <2>3. Span(g, k) \subseteq Span(b, o)
    BY <2>1, <2>2, <1>1, <1>2, <1>3, <1>4, <1>5, Nested DEF k
  <2>4. g \in Span(g, k)
    BY <1>3, <1>4, SpanHasHead
  <2>5. b <= g
    BY <2>3, <2>4, <1>1, <1>4, SpanHasHead
  <2>6. g <= b
    BY <1>2, <1>3, <1>4, SpanHasHead DEF k
  <2>7. g = b
    BY <2>5, <2>6, <1>1, <1>3
  <2> QED
    BY <2>7, <1>6, <1>2 DEF k, o
<1>7. CASE k \in (o + 1)..MaxOrder
  <2>1. PICK l \in Int : /\ Aligned(l, o + 1)
                         /\ b \in Span(l, o + 1) /\ h \in Span(l, o + 1)
    BY <1>5
  <2>2. Span(l, o + 1) \subseteq Span(g, k)
    BY <2>1, <1>1, <1>2, <1>3, <1>4, <1>7, Nested DEF k
  <2>3. h \in Span(g, ord[g]) /\ h \in Span(h, ord[h])
    BY <2>1, <2>2, <1>1, <1>4, SpanHasHead DEF k, o
  <2>4. g = h
    BY <2>3, <1>1 DEF Tiles
  <2> QED
    BY <2>4, <1>4, <1>7 DEF k, o
<1> QED
  BY <1>1, <1>3, <1>6, <1>7, OrdersAre

\* split_page(): a chunk becomes two.
LEMMA SplitTiles ==
  ASSUME NEW ord, NEW T, Tiles(ord, T), NEW l \in T, NEW u \in Int, NEW o \in Orders,
         ord[l] = o + 1, Halves(l, u, o),
         NEW ord2, ord2[l] = o, ord2[u] = o, \A h \in T \ {l} : ord2[h] = ord[h]
  PROVE  Tiles(ord2, T \cup {u}) /\ u \notin T
<1>1. l \in Pages /\ l \in Int
  BY OrdersAre DEF Tiles
<1>2. /\ l < u /\ Aligned(l, o) /\ Aligned(u, o)
      /\ Span(l, o + 1) = Span(l, o) \cup Span(u, o)
      /\ Span(l, o) \cap Span(u, o) = {}
  BY <1>1, HalvesAre
<1>3. l \in Span(l, o) /\ u \in Span(u, o)
  BY <1>1, OrdersAre, SpanHasHead
<1>4. Span(l, o) \subseteq Pages /\ Span(u, o) \subseteq Pages
  BY <1>2 DEF Tiles
<1>5. u \notin T
  <2> SUFFICES ASSUME u \in T PROVE FALSE
    OBVIOUS
  <2>1. u \in Span(u, ord[u]) /\ u \in Span(l, ord[l]) /\ u \in Pages
    BY <1>2, <1>3 DEF Tiles
  <2>2. u = l
    BY <2>1 DEF Tiles
  <2> QED
    BY <2>2, <1>2
<1>6. ASSUME NEW h \in T \cup {u}
      PROVE  /\ ord2[h] \in Orders /\ Aligned(h, ord2[h])
             /\ h \in Span(h, ord2[h]) /\ Span(h, ord2[h]) \subseteq Pages
  <2>1. CASE h = l
    BY <2>1, <1>2, <1>3, <1>4
  <2>2. CASE h = u
    BY <2>2, <1>2, <1>3, <1>4
  <2>3. CASE h \in T \ {l}
    BY <2>3 DEF Tiles
  <2> QED
    BY <2>1, <2>2, <2>3
<1>7. ASSUME NEW x \in Pages PROVE \E h \in T \cup {u} : x \in Span(h, ord2[h])
  <2>1. PICK h \in T : x \in Span(h, ord[h])
    BY DEF Tiles
  <2>2. CASE h = l
    BY <2>1, <2>2, <1>2
  <2>3. CASE h # l
    BY <2>1, <2>3
  <2> QED
    BY <2>2, <2>3
<1>8. \A h \in T \cup {u} : \A x \in Span(h, ord2[h]) :
         x \in Span(IF h = u THEN l ELSE h, ord[IF h = u THEN l ELSE h])
  BY <1>2
<1>9. ASSUME NEW h \in T \cup {u}, NEW g \in T \cup {u}, NEW x \in Pages,
             x \in Span(h, ord2[h]), x \in Span(g, ord2[g])
      PROVE  h = g
  <2>1. (IF h = u THEN l ELSE h) = (IF g = u THEN l ELSE g)
    BY <1>8, <1>9 DEF Tiles
  <2>2. CASE {h, g} = {l, u}
    BY <2>2, <1>2, <1>9
  <2>3. CASE {h, g} # {l, u}
    BY <2>1, <2>3, <1>5
  <2> QED
    BY <2>2, <2>3
<1> QED
  BY <1>4, <1>3, <1>5, <1>6, <1>7, <1>9 DEF Tiles

\* merge_page(): two chunks become one.
LEMMA MergeTiles ==
  ASSUME NEW ord, NEW T, Tiles(ord, T), NEW l \in T, NEW u \in T, NEW o \in Orders,
         o + 1 \in Orders, ord[l] = o, ord[u] = o, Halves(l, u, o),
         NEW ord2, ord2[l] = o + 1, \A h \in T \ {l, u} : ord2[h] = ord[h]
  PROVE  Tiles(ord2, T \ {u})
<1>1. l \in Pages /\ l \in Int /\ u \in Int
  BY OrdersAre DEF Tiles
<1>2. l < u /\ Span(l, o + 1) = Span(l, o) \cup Span(u, o)
  BY <1>1, HalvesAre
<1>3. l \in Span(l, o + 1)
  BY <1>1, OrdersAre, SpanHasHead
<1>4. l # u
  BY <1>1, <1>2
<1>5. ASSUME NEW h \in T \ {u}
      PROVE  /\ ord2[h] \in Orders /\ Aligned(h, ord2[h])
             /\ h \in Span(h, ord2[h]) /\ Span(h, ord2[h]) \subseteq Pages
  <2>1. CASE h = l
    BY <2>1, <1>2, <1>3 DEF Tiles, Halves
  <2>2. CASE h # l
    BY <2>2 DEF Tiles
  <2> QED
    BY <2>1, <2>2
<1>6. ASSUME NEW x \in Pages PROVE \E h \in T \ {u} : x \in Span(h, ord2[h])
  <2>1. PICK h \in T : x \in Span(h, ord[h])
    BY DEF Tiles
  <2>2. CASE h \in {l, u}
    BY <2>1, <2>2, <1>2, <1>4
  <2>3. CASE h \notin {l, u}
    BY <2>1, <2>3
  <2> QED
    BY <2>2, <2>3
<1>7. ASSUME NEW h \in T \ {u}, NEW x \in Span(h, ord2[h])
      PROVE  x \in Span(h, ord[h]) \/ (h = l /\ x \in Span(u, ord[u]))
  <2>1. CASE h = l
    BY <2>1, <1>2, <1>7
  <2>2. CASE h # l
    BY <2>2, <1>7
  <2> QED
    BY <2>1, <2>2
<1>8. ASSUME NEW h \in T \ {u}, NEW g \in T \ {u}, NEW x \in Pages,
             x \in Span(h, ord2[h]), x \in Span(g, ord2[g])
      PROVE  h = g
  BY <1>7, <1>8 DEF Tiles
<1> QED
  BY <1>5, <1>6, <1>8 DEF Tiles

-----------------------------------------------------------------------------
(* The metadata and the lists *)

PoolStates == [allocated : [Pages -> BOOLEAN],
               order     : [Pages -> Orders],
               list      : [Orders -> Seq(Pages)],
               nr_free   : [Orders -> Int]]

\* The heads of F that are of an order.
HeadsOf(ord, F, o) == {h \in F : ord[h] = o}

Listed(lists, ord, F) ==
    /\ lists \in [Orders -> Seq(Pages)]
    /\ \A o \in Orders : ListOf(lists[o], HeadsOf(ord, F, o))

\* A pool with the free chunks at F and the chunks that callers have at H.
Fits(p, F, H) ==
    /\ p \in PoolStates
    /\ F \cap H = {} /\ Tiles(p.order, F \cup H)
    /\ \A h \in F : p.allocated[h] = FALSE
    /\ \A h \in H : p.allocated[h] = TRUE
    /\ Listed(p.list, p.order, F)
    /\ \A o \in Orders : p.nr_free[o] = Len(p.list[o])

\* Two free chunks that can be merged.
Match(ord, F, h, b) ==
    /\ h \in F /\ b \in F
    /\ ord[b] = ord[h] /\ ord[h] + 1 \in Orders /\ Twins(h, b, ord[h])

AtRest(ord, F) == \A h, b \in F : ~ Match(ord, F, h, b)

\* The chunk at x is the only one that has changed since the pool was at rest.
OnlyAt(ord, F, x) == \A h, b \in F : Match(ord, F, h, b) => x \in {h, b}

\* What Fits says of each field of the pool, and of each head.
LEMMA FitsFields ==
  ASSUME NEW p, NEW F, NEW H, Fits(p, F, H)
  PROVE  /\ F \subseteq Pages /\ H \subseteq Pages /\ F \cup H \subseteq Pages
         /\ \A h \in F \cup H : p.order[h] \in Orders /\ Aligned(h, p.order[h])
         /\ p.allocated \in [Pages -> BOOLEAN] /\ p.order \in [Pages -> Orders]
         /\ p.list \in [Orders -> Seq(Pages)] /\ p.nr_free \in [Orders -> Int]
BY DEF Fits, Tiles, PoolStates

\* The metadata that merge_page() looks at is that of a head.
LEMMA MergeableIs ==
  ASSUME NEW p, NEW F, NEW H, Fits(p, F, H), NEW h \in F
  PROVE  /\ Mergeable(p, h) => Match(p.order, F, h, BuddyChunk(h, p.order[h]))
         /\ \A b : Match(p.order, F, h, b) => Mergeable(p, h) /\ BuddyChunk(h, p.order[h]) = b
<1> DEFINE o == p.order[h]
<1>1. h \in Pages /\ o \in Orders /\ Aligned(h, o) /\ NULL \notin Pages /\ F \subseteq Pages
  BY FitsFields DEF NULL, Pages
<1>2. (o < MaxOrder - 1) <=> (o + 1 \in Orders)
  BY <1>1, PoolAssumption DEF Orders
<1>3. /\ BuddyChunk(h, o) \in Pages \cup {NULL}
      /\ \A b \in Pages : BuddyChunk(h, o) = b <=> Twins(h, b, o)
  BY <1>1, BuddyIsTwin
<1>4. ASSUME Mergeable(p, h) PROVE Match(p.order, F, h, BuddyChunk(h, o))
  <2> DEFINE b == BuddyChunk(h, o)
  <2>1. b \in Pages /\ p.allocated[b] # TRUE /\ p.order[b] = o /\ o + 1 \in Orders
    BY <1>2, <1>3, <1>4 DEF Mergeable
  <2>2. Twins(h, b, o)
    BY <2>1, <1>3
  <2>3. b \in F \cup H
    BY <2>1, <2>2, BuddyIsHead DEF Fits
  <2>4. b \in F
    BY <2>1, <2>3 DEF Fits
  <2> QED
    BY <2>1, <2>2, <2>4 DEF Match
<1>5. ASSUME NEW b, Match(p.order, F, h, b)
      PROVE  Mergeable(p, h) /\ BuddyChunk(h, o) = b
  <2>1. b \in F /\ b \in Pages /\ p.order[b] = o /\ o + 1 \in Orders /\ Twins(h, b, o)
    BY <1>1, <1>5 DEF Match
  <2>2. BuddyChunk(h, o) = b
    BY <2>1, <1>3
  <2>3. p.allocated[h] = FALSE /\ p.allocated[b] = FALSE
    BY <2>1 DEF Fits
  <2> QED
    BY <2>1, <2>2, <2>3, <1>1, <1>2 DEF Mergeable
<1> QED
  BY <1>4, <1>5

\* When a head and another are free buddies, so are they the other way round.
LEMMA MatchIsSymmetric ==
  ASSUME NEW ord, NEW F, NEW h, NEW b, Match(ord, F, h, b)
  PROVE  Match(ord, F, b, h)
BY DEF Match, Twins

\* In l2 the list of order o has n members more than in lists.
Longer(l2, lists, o, n) ==
    \A k \in Orders : Len(l2[k]) = IF k = o THEN Len(lists[k]) + n ELSE Len(lists[k])

\* Only x is a new head, and it is one of order o.
NewHead(ord, F, ord2, F2, o, x) ==
    /\ x \notin HeadsOf(ord, F, o)
    /\ \A k \in Orders : HeadsOf(ord2, F2, k) =
          IF k = o THEN HeadsOf(ord, F, k) \cup {x} ELSE HeadsOf(ord, F, k)

\* list_add() of a page that is a head from now on
LEMMA AddIs ==
  ASSUME NEW lists, NEW ord, NEW F, Listed(lists, ord, F),
         NEW o \in Orders, NEW x \in Pages, NEW ord2, NEW F2, NewHead(ord, F, ord2, F2, o, x)
  PROVE  /\ Listed(ListAdd(lists, o, x), ord2, F2)
         /\ Longer(ListAdd(lists, o, x), lists, o, 1)
<1> DEFINE l2 == ListAdd(lists, o, x)
<1>1. lists \in [Orders -> Seq(Pages)]
  BY DEF Listed
<1>2. \A k \in Orders : l2[k] = IF k = o THEN <<x>> \o lists[k] ELSE lists[k]
  BY <1>1 DEF ListAdd
<1>3. \A k \in Orders : Len(lists[k]) \in Nat
  BY <1>1, LenProperties
<1>4. ListOf(lists[o], HeadsOf(ord, F, o))
  BY DEF Listed
<1>5. /\ ListOf(<<x>> \o lists[o], HeadsOf(ord, F, o) \cup {x})
      /\ Len(<<x>> \o lists[o]) = Len(lists[o]) + 1
  BY <1>4, ListWith DEF NewHead
<1>6. <<x>> \o lists[o] \in Seq(Pages)
  BY <1>1, ConcatProperties
<1>7. l2 \in [Orders -> Seq(Pages)]
  BY <1>1, <1>6 DEF ListAdd
<1> HIDE DEF l2
<1>8. ASSUME NEW k \in Orders PROVE ListOf(l2[k], HeadsOf(ord2, F2, k))
  <2>1. CASE k = o
    <3>1. l2[k] = <<x>> \o lists[o] /\ HeadsOf(ord2, F2, k) = HeadsOf(ord, F, o) \cup {x}
      BY <2>1, <1>2 DEF NewHead
    <3> QED
      BY <3>1, <1>5
  <2>2. CASE k # o
    <3>1. l2[k] = lists[k] /\ HeadsOf(ord2, F2, k) = HeadsOf(ord, F, k)
      BY <2>2, <1>2 DEF NewHead
    <3> QED
      BY <3>1 DEF Listed
  <2> QED
    BY <2>1, <2>2
<1>9. ASSUME NEW k \in Orders
      PROVE  Len(l2[k]) = IF k = o THEN Len(lists[k]) + 1 ELSE Len(lists[k])
  BY <1>2, <1>5
<1> QED
  BY <1>7, <1>8, <1>9 DEF Listed, Longer, l2

\* list_del() of a head
LEMMA DelIs ==
  ASSUME NEW lists, NEW ord, NEW F, Listed(lists, ord, F), F \subseteq Pages,
         NEW x \in F, ord[x] \in Orders
  PROVE  /\ Listed(ListDel(lists, x), ord, F \ {x})
         /\ Longer(ListDel(lists, x), lists, ord[x], -1)
<1> DEFINE l2 == ListDel(lists, x)
<1>1. lists \in [Orders -> Seq(Pages)] /\ \A k \in Orders : Len(lists[k]) \in Nat
  <2>1. lists \in [Orders -> Seq(Pages)]
    BY DEF Listed
  <2> QED
    BY <2>1, LenProperties
<1>2. l2 = [k \in Orders |-> RemoveFirst(lists[k], x)]
  BY DEF ListDel
<1> HIDE DEF l2
<1>3. ASSUME NEW k \in Orders
      PROVE  /\ ListOf(l2[k], HeadsOf(ord, F \ {x}, k))
             /\ Len(l2[k]) = IF k = ord[x] THEN Len(lists[k]) + (-1) ELSE Len(lists[k])
  <2>1. ListOf(lists[k], HeadsOf(ord, F, k))
    BY DEF Listed
  <2>2. /\ ListOf(RemoveFirst(lists[k], x), HeadsOf(ord, F, k) \ {x})
        /\ Len(RemoveFirst(lists[k], x)) =
              IF x \in HeadsOf(ord, F, k) THEN Len(lists[k]) - 1 ELSE Len(lists[k])
    BY <2>1, ListWithout
  <2>3. HeadsOf(ord, F, k) \ {x} = HeadsOf(ord, F \ {x}, k)
    BY DEF HeadsOf
  <2>4. x \in HeadsOf(ord, F, k) <=> k = ord[x]
    BY DEF HeadsOf
  <2>5. l2[k] = RemoveFirst(lists[k], x)
    BY <1>2
  <2>6. ListOf(l2[k], HeadsOf(ord, F \ {x}, k))
    BY <2>2, <2>3, <2>5
  <2>7. Len(l2[k]) = IF k = ord[x] THEN Len(lists[k]) - 1 ELSE Len(lists[k])
    BY <2>2, <2>4, <2>5
  <2>8. Len(lists[k]) \in Nat
    BY <1>1
  <2> QED
    BY <2>6, <2>7, <2>8
<1>4. \A k \in Orders : l2[k] \in Seq(Pages)
  <2> SUFFICES ASSUME NEW k \in Orders PROVE l2[k] \in Seq(Pages)
    OBVIOUS
  <2>1. l2[k] \in Seq(HeadsOf(ord, F \ {x}, k))
    BY <1>3 DEF ListOf
  <2>2. HeadsOf(ord, F \ {x}, k) \subseteq Pages
    BY DEF HeadsOf
  <2> QED
    BY <2>1, <2>2, SeqMonotonic
<1>5. l2 \in [Orders -> Seq(Pages)]
  BY <1>2, <1>4
<1> QED
  BY <1>3, <1>5 DEF Listed, Longer, l2

-----------------------------------------------------------------------------
(* The steps of the two recursions *)

\* A pool that callers have the chunks at H of, at the orders that ord says, and
\* that is at rest except around x.
Reached(q, H, x, ord) ==
    \E F : /\ Fits(q, F, H) /\ x \in F /\ OnlyAt(q.order, F, x)
           /\ \A h \in H : q.order[h] = ord[h]

Resting(q, H, ord) ==
    \E F : /\ Fits(q, F, H) /\ AtRest(q.order, F)
           /\ \A h \in H : q.order[h] = ord[h]

\* An aligned chunk has at most one buddy of its order.
LEMMA TwinIsUnique ==
  ASSUME NEW h \in Pages, NEW o \in Orders, Aligned(h, o),
         NEW b \in Pages, Twins(h, b, o), NEW c \in Pages, Twins(h, c, o)
  PROVE  b = c
BY BuddyIsTwin

\* One level of split_page().
LEMMA SplitOnceKeeps ==
  ASSUME NEW p, NEW F, NEW H, Fits(p, F, H), NEW page \in F, NEW o \in Orders,
         p.order[page] = o + 1, OnlyAt(p.order, F, page)
  PROVE  Reached(SplitOnce(p, page), H, page, p.order) /\ SplitOnce(p, page).order[page] = o
<1> DEFINE u == page + ChunkSize[o]
           p2 == SplitOnce(p, page)
<1>1. /\ page \in Pages /\ page \in Int /\ F \subseteq Pages /\ H \subseteq Pages
      /\ o + 1 \in Orders /\ o + 1 \in 0..MaxOrder /\ o \in 0..MaxOrder /\ o \in Int
  <2>1. page \in Pages /\ F \subseteq Pages /\ H \subseteq Pages
    BY FitsFields
  <2>2. p.order[page] \in Orders
    BY FitsFields
  <2> QED
    BY <2>1, <2>2, OrdersAre
<1>2. Aligned(page, o + 1) /\ Span(page, o + 1) \subseteq Pages
  BY DEF Fits, Tiles
<1>3. u \in Int /\ Halves(page, u, o)
  <2>1. ChunkSize[o] \in Nat
    BY <1>1, ChunkSizes
  <2> QED
    BY <2>1, <1>1, <1>2 DEF Halves
<1> HIDE DEF u
<1>4. /\ page < u /\ Aligned(page, o) /\ Aligned(u, o)
      /\ Span(page, o + 1) = Span(page, o) \cup Span(u, o)
  BY <1>1, <1>3, HalvesAre
<1>5. u \in Pages /\ u # page
  <2>1. u \in Span(u, o)
    BY <1>1, <1>3, SpanHasHead
  <2> QED
    BY <2>1, <1>1, <1>2, <1>4
<1>6. BuddyChunk(page, o) = u
  <2>1. Twins(page, u, o)
    BY <1>3 DEF Twins
  <2> QED
    BY <2>1, <1>1, <1>4, <1>5, BuddyIsTwin
<1> DEFINE ord1 == [p.order EXCEPT ![page] = o]
           ord2 == [p.order EXCEPT ![page] = o, ![u] = o]
           l1 == ListDel(p.list, page)
           l2 == ListAdd(l1, o, page)
           l3 == ListAdd(l2, o, u)
           nr == [p.nr_free EXCEPT ![o + 1] = @ - 1, ![o] = @ + 2]
<1>7. /\ p2.allocated = [p.allocated EXCEPT ![u] = FALSE]
      /\ p2.order = ord2 /\ p2.list = l3 /\ p2.nr_free = nr
      /\ p2 = [allocated |-> p2.allocated, order |-> p2.order, list |-> p2.list,
               nr_free |-> p2.nr_free]
  <2>1. p.order[page] - 1 = o
    BY <1>1
  <2> QED
    BY <2>1, <1>6 DEF SplitOnce
<1>8. /\ p.allocated \in [Pages -> BOOLEAN] /\ p.order \in [Pages -> Orders]
      /\ p.list \in [Orders -> Seq(Pages)] /\ p.nr_free \in [Orders -> Int]
  BY FitsFields
<1>9. /\ ord2 \in [Pages -> Orders] /\ ord2[page] = o /\ ord2[u] = o
      /\ \A h \in Pages \ {page, u} : ord2[h] = p.order[h]
      /\ \A h \in Pages : ord1[h] = IF h = page THEN o ELSE p.order[h]
  BY <1>1, <1>5, <1>8
<1>10. Tiles(ord2, (F \cup H) \cup {u}) /\ u \notin F \cup H
  <2>1. u \notin F \cup H
    <3>1. u \in Span(page, p.order[page])
      <4>1. u \in Span(u, o)
        BY <1>1, <1>3, SpanHasHead
      <4> QED
        BY <4>1, <1>4
    <3>2. u \in F \cup H => u \in Span(u, p.order[u])
      BY DEF Fits, Tiles
    <3> QED
      BY <3>1, <3>2, <1>5 DEF Fits, Tiles
  <2>2. \A h \in (F \cup H) \ {page} : ord2[h] = p.order[h]
    BY <2>1, <1>1, <1>9
  <2>3. Tiles(p.order, F \cup H) /\ page \in F \cup H
    BY DEF Fits
  <2> HIDE DEF ord2
  <2> QED
    BY <2>1, <2>2, <2>3, <1>3, <1>9, SplitTiles
<1> HIDE DEF ord1, ord2
<1>11. Listed(l1, p.order, F \ {page}) /\ Longer(l1, p.list, o + 1, -1)
  <2>1. Listed(p.list, p.order, F)
    BY DEF Fits
  <2> QED
    BY <2>1, <1>1, DelIs
<1> HIDE DEF l1
<1>12. Listed(l2, ord1, F) /\ Longer(l2, l1, o, 1)
  <2>1. ASSUME NEW k \in Orders
        PROVE  HeadsOf(ord1, F, k) = IF k = o THEN HeadsOf(p.order, F \ {page}, k) \cup {page}
                                     ELSE HeadsOf(p.order, F \ {page}, k)
    BY <1>1, <1>9 DEF HeadsOf
  <2>2. NewHead(p.order, F \ {page}, ord1, F, o, page)
    <3>1. page \notin HeadsOf(p.order, F \ {page}, o)
      BY DEF HeadsOf
    <3> QED
      BY <3>1, <2>1 DEF NewHead
  <2> QED
    BY <2>2, <1>1, <1>11, AddIs
<1> HIDE DEF l2
<1>13. Listed(l3, ord2, F \cup {u}) /\ Longer(l3, l2, o, 1)
  <2>1. ASSUME NEW k \in Orders
        PROVE  HeadsOf(ord2, F \cup {u}, k) = IF k = o THEN HeadsOf(ord1, F, k) \cup {u}
                                              ELSE HeadsOf(ord1, F, k)
    BY <1>1, <1>9, <1>10 DEF HeadsOf
  <2>2. NewHead(ord1, F, ord2, F \cup {u}, o, u)
    <3>1. u \notin HeadsOf(ord1, F, o)
      BY <1>10 DEF HeadsOf
    <3> QED
      BY <3>1, <2>1 DEF NewHead
  <2> QED
    BY <2>2, <1>5, <1>12, AddIs
<1> HIDE DEF l3
<1>14. ASSUME NEW k \in Orders PROVE nr[k] = Len(l3[k])
  <2>1. p.nr_free[k] = Len(p.list[k]) /\ p.nr_free[k] \in Int
    BY <1>8 DEF Fits
  <2>2. nr[k] = IF k = o + 1 THEN p.nr_free[k] - 1
                ELSE IF k = o THEN p.nr_free[k] + 2 ELSE p.nr_free[k]
    BY <1>1, <1>8
  <2> HIDE DEF nr
  <2>3. /\ Len(l1[k]) = IF k = o + 1 THEN Len(p.list[k]) + (-1) ELSE Len(p.list[k])
        /\ Len(l2[k]) = IF k = o THEN Len(l1[k]) + 1 ELSE Len(l1[k])
        /\ Len(l3[k]) = IF k = o THEN Len(l2[k]) + 1 ELSE Len(l2[k])
    BY <1>11, <1>12, <1>13 DEF Longer
  <2>4. CASE k = o + 1
    BY <2>1, <2>2, <2>3, <2>4, <1>1
  <2>5. CASE k = o
    BY <2>1, <2>2, <2>3, <2>5, <1>1
  <2>6. CASE k # o + 1 /\ k # o
    BY <2>1, <2>2, <2>3, <2>6
  <2> QED
    BY <2>4, <2>5, <2>6
<1>15. nr \in [Orders -> Int]
  BY <1>1, <1>8, SMTT(30)
<1> HIDE DEF nr, p2
<1>16. p2 \in PoolStates
  <2>1. p2.allocated \in [Pages -> BOOLEAN]
    BY <1>7, <1>8
  <2>2. p2.list \in [Orders -> Seq(Pages)]
    BY <1>7, <1>13 DEF Listed
  <2> QED
    BY <2>1, <2>2, <1>7, <1>9, <1>15 DEF PoolStates
<1>17. /\ \A h \in F \cup {u} : p2.allocated[h] = FALSE
       /\ \A h \in H : p2.allocated[h] = TRUE
  BY <1>1, <1>5, <1>7, <1>8, <1>10 DEF Fits
<1>18. Fits(p2, F \cup {u}, H)
  <2>1. (F \cup {u}) \cup H = (F \cup H) \cup {u} /\ (F \cup {u}) \cap H = {}
    BY <1>10 DEF Fits
  <2> QED
    BY <2>1, <1>7, <1>10, <1>13, <1>14, <1>16, <1>17 DEF Fits
<1>19. OnlyAt(ord2, F \cup {u}, page)
  <2> SUFFICES ASSUME NEW h \in F \cup {u}, NEW b \in F \cup {u},
                      Match(ord2, F \cup {u}, h, b), h # page, b # page
               PROVE  FALSE
    BY DEF OnlyAt
  <2>1. Twins(u, page, o)
    BY <1>3 DEF Twins
  <2>2. ASSUME NEW c \in F \cup {u}, Match(ord2, F \cup {u}, u, c) PROVE c = page
    <3>1. Twins(u, c, o) /\ c \in Pages
      BY <2>2, <1>1, <1>5, <1>9 DEF Match
    <3> QED
      BY <3>1, <2>1, <1>1, <1>4, <1>5, TwinIsUnique
  <2>3. Match(ord2, F \cup {u}, b, h)
    BY MatchIsSymmetric
  <2>4. h # u /\ b # u
    BY <2>2, <2>3
  <2>5. Match(p.order, F, h, b)
    BY <2>4, <1>1, <1>9 DEF Match
  <2> QED
    BY <2>5 DEF OnlyAt, Match
<1>20. \A h \in H : ord2[h] = p.order[h]
  <2>1. \A h \in H : h # page /\ h # u
    BY <1>10 DEF Fits
  <2> QED
    BY <2>1, <1>1, <1>9
<1>21. page \in F \cup {u}
  OBVIOUS
<1> QED
  BY <1>7, <1>9, <1>18, <1>19, <1>20, <1>21 DEF p2, Reached

\* One level of merge_page().
LEMMA MergeOnceKeeps ==
  ASSUME NEW p, NEW F, NEW H, Fits(p, F, H), NEW page \in F,
         Mergeable(p, page), OnlyAt(p.order, F, page)
  PROVE  LET m == MergeOnce(p, page)
         IN  /\ Reached(m.pool, H, m.page, p.order)
             /\ m.pool.order[m.page] = p.order[page] + 1
<1> DEFINE o == p.order[page]
           b == BuddyChunk(page, o)
           l == IF b < page THEN b ELSE page
           u == IF b < page THEN page ELSE b
           m == MergeOnce(p, page)
           p2 == m.pool
<1>1. Match(p.order, F, page, b)
  BY MergeableIs
<1> HIDE DEF b
<1>2. /\ b \in F /\ p.order[b] = o /\ o + 1 \in Orders /\ Twins(page, b, o)
      /\ F \subseteq Pages /\ H \subseteq Pages /\ Pages \subseteq Int
      /\ page \in Pages /\ b \in Pages /\ page \in Int /\ b \in Int
  <2>1. F \subseteq Pages /\ H \subseteq Pages /\ Pages \subseteq Int
    BY FitsFields, OrdersAre
  <2> QED
    BY <2>1, <1>1 DEF Match
<1>3. o \in Orders /\ o \in Int
  <2>1. o \in Orders
    BY FitsFields
  <2> QED
    BY <2>1, OrdersAre
<1>4. l \in F /\ u \in F /\ {l, u} = {page, b} /\ p.order[l] = o /\ p.order[u] = o /\ Halves(l, u, o)
  <2>1. CASE Halves(page, b, o)
    <3>1. page < b
      BY <2>1, <1>2, <1>3, HalvesAre
    <3> QED
      BY <2>1, <3>1, <1>2
  <2>2. CASE Halves(b, page, o)
    <3>1. b < page
      BY <2>2, <1>2, <1>3, HalvesAre
    <3> QED
      BY <2>2, <3>1, <1>2
  <2> QED
    BY <2>1, <2>2, <1>2 DEF Twins
<1>5. l # u
  <2>1. l < u
    BY <1>2, <1>3, <1>4, HalvesAre
  <2> QED
    BY <2>1, <1>2, <1>4
<1> DEFINE ord2 == [p.order EXCEPT ![l] = o + 1]
           l1 == ListDel(p.list, page)
           l2 == ListDel(l1, b)
           l3 == ListAdd(l2, o + 1, l)
           nr == [p.nr_free EXCEPT ![o] = @ - 2, ![o + 1] = @ + 1]
<1>6. /\ p2.allocated = p.allocated /\ p2.order = ord2 /\ p2.list = l3 /\ p2.nr_free = nr
      /\ p2 = [allocated |-> p2.allocated, order |-> p2.order, list |-> p2.list,
               nr_free |-> p2.nr_free]
      /\ m.page = l
  <2>1. p \in PoolStates
    BY DEF Fits
  <2> QED
    BY <2>1 DEF MergeOnce, PoolStates, b
<1>7. /\ p.allocated \in [Pages -> BOOLEAN] /\ p.order \in [Pages -> Orders]
      /\ p.list \in [Orders -> Seq(Pages)] /\ p.nr_free \in [Orders -> Int]
  BY FitsFields
<1> HIDE DEF l, u, m, o, p2
<1>8. /\ ord2 \in [Pages -> Orders] /\ ord2[l] = o + 1
      /\ \A h \in Pages \ {l} : ord2[h] = p.order[h]
  BY <1>2, <1>4, <1>7
<1>9. Tiles(ord2, (F \cup H) \ {u})
  <2>1. \A h \in (F \cup H) \ {l, u} : ord2[h] = p.order[h]
    BY <1>2, <1>8
  <2>2. Tiles(p.order, F \cup H) /\ l \in F \cup H /\ u \in F \cup H
    BY <1>4 DEF Fits
  <2> HIDE DEF ord2
  <2> QED
    BY <2>1, <2>2, <1>2, <1>3, <1>4, <1>8, MergeTiles
<1> HIDE DEF ord2
<1>10. Listed(l1, p.order, F \ {page}) /\ Longer(l1, p.list, o, -1)
  <2>1. Listed(p.list, p.order, F)
    BY DEF Fits
  <2> QED
    BY <2>1, <1>2, <1>3, DelIs DEF o
<1> HIDE DEF l1
<1>11. Listed(l2, p.order, (F \ {page}) \ {b}) /\ Longer(l2, l1, o, -1)
  <2>1. b \in F \ {page} /\ F \ {page} \subseteq Pages
    BY <1>2, <1>4, <1>5
  <2> QED
    BY <2>1, <1>2, <1>3, <1>10, DelIs
<1> HIDE DEF l2
<1>12. Listed(l3, ord2, F \ {u}) /\ Longer(l3, l2, o + 1, 1)
  <2>1. (F \ {page}) \ {b} = F \ {l, u}
    BY <1>4
  <2>2. ASSUME NEW k \in Orders
        PROVE  HeadsOf(ord2, F \ {u}, k) = IF k = o + 1 THEN HeadsOf(p.order, F \ {l, u}, k) \cup {l}
                                           ELSE HeadsOf(p.order, F \ {l, u}, k)
    BY <1>2, <1>4, <1>5, <1>8 DEF HeadsOf
  <2>3. NewHead(p.order, F \ {l, u}, ord2, F \ {u}, o + 1, l)
    <3>1. l \notin HeadsOf(p.order, F \ {l, u}, o + 1)
      BY DEF HeadsOf
    <3> QED
      BY <3>1, <2>2 DEF NewHead
  <2> QED
    BY <2>1, <2>3, <1>2, <1>4, <1>11, AddIs
<1> HIDE DEF l3
<1>13. ASSUME NEW k \in Orders PROVE nr[k] = Len(l3[k])
  <2>1. p.nr_free[k] = Len(p.list[k]) /\ p.nr_free[k] \in Int
    BY <1>7 DEF Fits
  <2>2. nr[k] = IF k = o THEN p.nr_free[k] - 2
                ELSE IF k = o + 1 THEN p.nr_free[k] + 1 ELSE p.nr_free[k]
    BY <1>2, <1>3, <1>7, SMTT(30)
  <2> HIDE DEF nr
  <2>3. /\ Len(l1[k]) = IF k = o THEN Len(p.list[k]) + (-1) ELSE Len(p.list[k])
        /\ Len(l2[k]) = IF k = o THEN Len(l1[k]) + (-1) ELSE Len(l1[k])
        /\ Len(l3[k]) = IF k = o + 1 THEN Len(l2[k]) + 1 ELSE Len(l2[k])
    BY <1>10, <1>11, <1>12 DEF Longer
  <2>4. CASE k = o + 1
    BY <2>1, <2>2, <2>3, <2>4, <1>3
  <2>5. CASE k = o
    BY <2>1, <2>2, <2>3, <2>5, <1>3
  <2>6. CASE k # o + 1 /\ k # o
    BY <2>1, <2>2, <2>3, <2>6
  <2> QED
    BY <2>4, <2>5, <2>6
<1>14. nr \in [Orders -> Int]
  BY <1>2, <1>3, <1>7, SMTT(30)
<1> HIDE DEF nr
<1>15. p2 \in PoolStates
  <2>1. p2.list \in [Orders -> Seq(Pages)]
    BY <1>6, <1>12 DEF Listed
  <2> QED
    BY <2>1, <1>6, <1>7, <1>8, <1>14 DEF PoolStates
<1>16. Fits(p2, F \ {u}, H)
  <2>1. (F \ {u}) \cup H = (F \cup H) \ {u} /\ (F \ {u}) \cap H = {}
    BY <1>4 DEF Fits
  <2>2. /\ \A h \in F \ {u} : p2.allocated[h] = FALSE
        /\ \A h \in H : p2.allocated[h] = TRUE
    BY <1>6 DEF Fits
  <2> QED
    BY <2>1, <2>2, <1>6, <1>9, <1>12, <1>13, <1>15 DEF Fits
<1>17. OnlyAt(ord2, F \ {u}, l)
  <2> SUFFICES ASSUME NEW h \in F \ {u}, NEW c \in F \ {u},
                      Match(ord2, F \ {u}, h, c), h # l, c # l
               PROVE  FALSE
    BY DEF OnlyAt
  <2>1. Match(p.order, F, h, c)
    BY <1>2, <1>8 DEF Match
  <2>2. page \in {h, c}
    BY <2>1 DEF OnlyAt, Match
  <2> QED
    BY <2>2, <1>4
<1>18. \A h \in H : ord2[h] = p.order[h]
  <2>1. \A h \in H : h # l
    BY <1>4 DEF Fits
  <2> QED
    BY <2>1, <1>2, <1>8
<1>19. l \in F \ {u}
  BY <1>4, <1>5
<1>20. Reached(p2, H, l, p.order)
  BY <1>6, <1>16, <1>17, <1>18, <1>19 DEF Reached
<1> QED
  BY <1>6, <1>8, <1>20 DEF m, p2, o

\* What buddy_get_pages() does when it has its chunk.
LEMMA TakeKeeps ==
  ASSUME NEW p, NEW F, NEW H, Fits(p, F, H), NEW page \in F, OnlyAt(p.order, F, page)
  PROVE  /\ Fits(Take(p, page), F \ {page}, H \cup {page})
         /\ AtRest(Take(p, page).order, F \ {page})
         /\ Take(p, page).order = p.order
<1> DEFINE p2 == Take(p, page)
           o == p.order[page]
           l1 == ListDel(p.list, page)
           nr == [p.nr_free EXCEPT ![o] = @ - 1]
<1>1. page \in Pages /\ F \subseteq Pages /\ H \subseteq Pages /\ o \in Orders
  BY FitsFields
<1>2. /\ p.allocated \in [Pages -> BOOLEAN] /\ p.order \in [Pages -> Orders]
      /\ p.list \in [Orders -> Seq(Pages)] /\ p.nr_free \in [Orders -> Int]
  BY FitsFields
<1>3. /\ p2.allocated = [p.allocated EXCEPT ![page] = TRUE]
      /\ p2.order = p.order /\ p2.list = l1 /\ p2.nr_free = nr
  <2>1. p \in PoolStates
    BY DEF Fits
  <2>2. p2.order = p.order
    BY <2>1 DEF Take, PoolStates
  <2>3. p2.list = l1
    BY <2>1 DEF Take, PoolStates
  <2>4. p2.nr_free = nr
    BY <2>1 DEF Take, PoolStates
  <2>5. p2.allocated = [p.allocated EXCEPT ![page] = TRUE]
    BY <2>1 DEF Take, PoolStates
  <2> QED
    BY <2>2, <2>3, <2>4, <2>5
<1>4. Listed(l1, p.order, F \ {page}) /\ Longer(l1, p.list, o, -1)
  <2>1. Listed(p.list, p.order, F)
    BY DEF Fits
  <2> QED
    BY <2>1, <1>1, DelIs
<1> HIDE DEF l1, p2
<1>5. ASSUME NEW k \in Orders PROVE nr[k] = Len(l1[k])
  <2>1. p.nr_free[k] = Len(p.list[k]) /\ p.nr_free[k] \in Int
    BY <1>2 DEF Fits
  <2>2. nr[k] = IF k = o THEN p.nr_free[k] - 1 ELSE p.nr_free[k]
    BY <1>1, <1>2
  <2> HIDE DEF nr
  <2>3. Len(l1[k]) = IF k = o THEN Len(p.list[k]) + (-1) ELSE Len(p.list[k])
    BY <1>4 DEF Longer
  <2> QED
    BY <2>1, <2>2, <2>3
<1>6. nr \in [Orders -> Int]
  BY <1>1, <1>2
<1> HIDE DEF nr
<1>7. p2 \in PoolStates
  <2>1. p \in PoolStates
    BY DEF Fits
  <2>2. l1 \in [Orders -> Seq(Pages)]
    BY <1>4 DEF Listed
  <2>3. [p.allocated EXCEPT ![page] = TRUE] \in [Pages -> BOOLEAN]
    BY <1>2
  <2> QED
    BY <2>1, <2>2, <2>3, <1>6 DEF PoolStates, p2, l1, nr, Take
<1>8. Fits(p2, F \ {page}, H \cup {page})
  <2>1. /\ (F \ {page}) \cup (H \cup {page}) = F \cup H
        /\ (F \ {page}) \cap (H \cup {page}) = {}
    BY DEF Fits
  <2>2. /\ \A h \in F \ {page} : p2.allocated[h] = FALSE
        /\ \A h \in H \cup {page} : p2.allocated[h] = TRUE
    BY <1>1, <1>2, <1>3 DEF Fits
  <2> QED
    BY <2>1, <2>2, <1>3, <1>4, <1>5, <1>7 DEF Fits
<1>9. AtRest(p.order, F \ {page})
  BY DEF AtRest, OnlyAt, Match
<1> QED
  BY <1>3, <1>8, <1>9 DEF p2

\* What buddy_free_pages() does before it merges.
GivenBack(p, page) ==
    [p EXCEPT !.allocated[page] = FALSE,
              !.list = ListAdd(@, p.order[page], page),
              !.nr_free[p.order[page]] = @ + 1]

\* A chunk put back on its list fits as a free one, and only it may have a free buddy.
LEMMA GivenBackKeeps ==
  ASSUME NEW p, NEW F, NEW H, Fits(p, F, H), NEW page \in H, AtRest(p.order, F)
  PROVE  /\ Fits(GivenBack(p, page), F \cup {page}, H \ {page})
         /\ OnlyAt(GivenBack(p, page).order, F \cup {page}, page)
         /\ GivenBack(p, page).order = p.order
<1> DEFINE p2 == GivenBack(p, page)
           o == p.order[page]
           l1 == ListAdd(p.list, o, page)
           nr == [p.nr_free EXCEPT ![o] = @ + 1]
<1>1. page \in Pages /\ F \subseteq Pages /\ H \subseteq Pages /\ o \in Orders /\ page \notin F
  <2>1. page \notin F
    BY DEF Fits
  <2> QED
    BY <2>1, FitsFields
<1>2. /\ p.allocated \in [Pages -> BOOLEAN] /\ p.order \in [Pages -> Orders]
      /\ p.list \in [Orders -> Seq(Pages)] /\ p.nr_free \in [Orders -> Int]
  BY FitsFields
<1>3. /\ p2.allocated = [p.allocated EXCEPT ![page] = FALSE]
      /\ p2.order = p.order /\ p2.list = l1 /\ p2.nr_free = nr
  <2>1. p \in PoolStates
    BY DEF Fits
  <2>2. p2.order = p.order
    BY <2>1 DEF GivenBack, PoolStates
  <2>3. p2.list = l1
    BY <2>1 DEF GivenBack, PoolStates
  <2>4. p2.nr_free = nr
    BY <2>1 DEF GivenBack, PoolStates
  <2>5. p2.allocated = [p.allocated EXCEPT ![page] = FALSE]
    BY <2>1 DEF GivenBack, PoolStates
  <2> QED
    BY <2>2, <2>3, <2>4, <2>5
<1>4. Listed(l1, p.order, F \cup {page}) /\ Longer(l1, p.list, o, 1)
  <2>1. Listed(p.list, p.order, F)
    BY DEF Fits
  <2>2. NewHead(p.order, F, p.order, F \cup {page}, o, page)
    BY <1>1 DEF NewHead, HeadsOf
  <2> QED
    BY <2>1, <2>2, <1>1, AddIs
<1> HIDE DEF l1, p2
<1>5. ASSUME NEW k \in Orders PROVE nr[k] = Len(l1[k])
  <2>1. p.nr_free[k] = Len(p.list[k]) /\ p.nr_free[k] \in Int
    BY <1>2 DEF Fits
  <2>2. nr[k] = IF k = o THEN p.nr_free[k] + 1 ELSE p.nr_free[k]
    BY <1>1, <1>2
  <2> HIDE DEF nr
  <2>3. Len(l1[k]) = IF k = o THEN Len(p.list[k]) + 1 ELSE Len(p.list[k])
    BY <1>4 DEF Longer
  <2> QED
    BY <2>1, <2>2, <2>3
<1>6. nr \in [Orders -> Int]
  BY <1>1, <1>2
<1> HIDE DEF nr
<1>7. p2 \in PoolStates
  <2>1. p \in PoolStates
    BY DEF Fits
  <2>2. l1 \in [Orders -> Seq(Pages)]
    BY <1>4 DEF Listed
  <2>3. [p.allocated EXCEPT ![page] = FALSE] \in [Pages -> BOOLEAN]
    BY <1>2
  <2> QED
    BY <2>1, <2>2, <2>3, <1>6 DEF PoolStates, p2, l1, nr, GivenBack
<1>8. Fits(p2, F \cup {page}, H \ {page})
  <2>1. /\ (F \cup {page}) \cup (H \ {page}) = F \cup H
        /\ (F \cup {page}) \cap (H \ {page}) = {}
    BY DEF Fits
  <2>2. /\ \A h \in F \cup {page} : p2.allocated[h] = FALSE
        /\ \A h \in H \ {page} : p2.allocated[h] = TRUE
    BY <1>1, <1>2, <1>3 DEF Fits
  <2> QED
    BY <2>1, <2>2, <1>3, <1>4, <1>5, <1>7 DEF Fits
<1>9. OnlyAt(p.order, F \cup {page}, page)
  BY DEF AtRest, OnlyAt, Match
<1> QED
  BY <1>3, <1>8, <1>9 DEF p2

-----------------------------------------------------------------------------
(* The recursions *)

\* The types of a pool in the middle of a split or a merge, and of its chunk.
LEMMA ReachedFields ==
  ASSUME NEW q, NEW H, NEW x, NEW ord, Reached(q, H, x, ord)
  PROVE  q \in PoolStates /\ x \in Pages /\ q.order[x] \in Orders
<1>1. PICK F : Fits(q, F, H) /\ x \in F
  BY DEF Reached
<1>2. q \in PoolStates
  BY <1>1 DEF Fits
<1> QED
  BY <1>1, <1>2, FitsFields

\* One split leaves a pool that a split or a merge may reach, its chunk one order down.
LEMMA SplitReaches ==
  ASSUME NEW q, NEW H, NEW x, NEW ord, Reached(q, H, x, ord),
         NEW o \in Orders, q.order[x] = o + 1
  PROVE  Reached(SplitOnce(q, x), H, x, ord) /\ SplitOnce(q, x).order[x] = o
<1>1. PICK F : /\ Fits(q, F, H) /\ x \in F /\ OnlyAt(q.order, F, x)
               /\ \A h \in H : q.order[h] = ord[h]
  BY DEF Reached
<1>2. Reached(SplitOnce(q, x), H, x, q.order) /\ SplitOnce(q, x).order[x] = o
  BY <1>1, SplitOnceKeeps
<1>3. Reached(SplitOnce(q, x), H, x, ord)
  BY <1>1, <1>2 DEF Reached
<1> QED
  BY <1>2, <1>3

\* One merge leaves a pool that a split or a merge may reach, its chunk one order up.
LEMMA MergeReaches ==
  ASSUME NEW q, NEW H, NEW x, NEW ord, Reached(q, H, x, ord), Mergeable(q, x)
  PROVE  LET m == MergeOnce(q, x)
         IN  Reached(m.pool, H, m.page, ord) /\ m.pool.order[m.page] = q.order[x] + 1
<1> DEFINE m == MergeOnce(q, x)
<1>1. PICK F : /\ Fits(q, F, H) /\ x \in F /\ OnlyAt(q.order, F, x)
               /\ \A h \in H : q.order[h] = ord[h]
  BY DEF Reached
<1>2. Reached(m.pool, H, m.page, q.order) /\ m.pool.order[m.page] = q.order[x] + 1
  BY <1>1, MergeOnceKeeps
<1> HIDE DEF m
<1>3. Reached(m.pool, H, m.page, ord)
  BY <1>1, <1>2 DEF Reached
<1> QED
  BY <1>2, <1>3 DEF m

\* A chunk that cannot be merged any further leaves the pool at rest.
LEMMA MergeEnds ==
  ASSUME NEW q, NEW H, NEW x, NEW ord, Reached(q, H, x, ord), ~ Mergeable(q, x)
  PROVE  Resting(q, H, ord)
<1>1. PICK F : /\ Fits(q, F, H) /\ x \in F /\ OnlyAt(q.order, F, x)
               /\ \A h \in H : q.order[h] = ord[h]
  BY DEF Reached
<1>2. ASSUME NEW h \in F, NEW b \in F, Match(q.order, F, h, b) PROVE FALSE
  <2>1. Match(q.order, F, b, h)
    BY <1>2, MatchIsSymmetric
  <2>2. \E c : Match(q.order, F, x, c)
    BY <2>1, <1>1, <1>2 DEF OnlyAt
  <2> QED
    BY <2>2, <1>1, MergeableIs
<1> QED
  BY <1>1, <1>2 DEF Resting, AtRest

\* merge_page()
LEMMA MergePageKeeps ==
  ASSUME NEW p, NEW H, NEW page, NEW ord, Reached(p, H, page, ord)
  PROVE  Resting(MergePage(p, page), H, ord)
<1> DEFINE M == [pool : PoolStates, page : Pages]
           Step(m) == IF Mergeable(m.pool, m.page) THEN MergeOnce(m.pool, m.page) ELSE m
           Good(n, m) == /\ Reached(m.pool, H, m.page, ord)
                         /\ m.pool.order[m.page] >= n \/ ~ Mergeable(m.pool, m.page)
           E == [n \in 0..MaxOrder |-> {m \in M : Good(n, m)}]
           G == [n \in 1..MaxOrder |-> [m \in M |-> Step(m)]]
           first == [pool |-> p, page |-> page]
           Body(f, n) == IF n = 0 THEN first ELSE Step(f[n - 1])
<1>1. MaxOrder \in Nat /\ \A n \in 1..MaxOrder : n - 1 \in 0..MaxOrder /\ n \in 0..MaxOrder
  BY PoolAssumption
<1>2. first \in E[0]
  <2>1. p \in PoolStates /\ page \in Pages /\ p.order[page] \in Orders
    BY ReachedFields
  <2>2. first \in M /\ first.pool = p /\ first.page = page
    BY <2>1
  <2>3. p.order[page] >= 0
    BY <2>1, PoolAssumption DEF Orders
  <2> HIDE DEF first, M
  <2>4. Good(0, first)
    BY <2>2, <2>3
  <2> HIDE DEF Good
  <2> QED
    BY <2>2, <2>4, <1>1
<1>3. ASSUME NEW n \in 1..MaxOrder, NEW m \in M, Good(n - 1, m)
      PROVE  Step(m) \in M /\ Good(n, Step(m))
  <2>1. CASE ~ Mergeable(m.pool, m.page)
    BY <2>1, <1>3
  <2>2. CASE Mergeable(m.pool, m.page)
    <3> DEFINE m2 == MergeOnce(m.pool, m.page)
    <3>1. Reached(m2.pool, H, m2.page, ord) /\ m2.pool.order[m2.page] = m.pool.order[m.page] + 1
      BY <2>2, <1>3, MergeReaches
    <3>2. m2 = [pool |-> m2.pool, page |-> m2.page]
      BY DEF MergeOnce
    <3> HIDE DEF m2
    <3>3. m2.pool \in PoolStates /\ m2.page \in Pages
      BY <3>1, ReachedFields
    <3>4. m2 \in M
      BY <3>2, <3>3
    <3>5. m2.pool.order[m2.page] >= n
      <4>1. m.pool.order[m.page] >= n - 1
        BY <2>2, <1>3
      <4>2. m.pool.order[m.page] \in Orders
        BY <1>3, ReachedFields
      <4>3. m.pool.order[m.page] \in Int
        BY <4>2, OrdersAre
      <4> QED
        BY <3>1, <4>1, <4>3
    <3>6. Step(m) = m2
      BY <2>2 DEF m2
    <3> QED
      BY <3>1, <3>4, <3>5, <3>6
  <2> QED
    BY <2>1, <2>2
<1> HIDE DEF M, Step, Good, first
<1>4. \A n \in 1..MaxOrder : \A m \in E[n - 1] : /\ m \in M /\ G[n][m] = Step(m)
                                                /\ Step(m) \in E[n]
  <2> SUFFICES ASSUME NEW n \in 1..MaxOrder, NEW m \in E[n - 1]
               PROVE  m \in M /\ G[n][m] = Step(m) /\ Step(m) \in E[n]
    OBVIOUS
  <2>1. m \in M /\ Good(n - 1, m)
    BY <1>1
  <2>2. Step(m) \in M /\ Good(n, Step(m))
    BY <2>1, <1>3
  <2> QED
    BY <2>1, <2>2, <1>1
<1> HIDE DEF E
<1>5. \A n \in 1..MaxOrder : \A m \in E[n - 1] : G[n][m] \in E[n]
  BY <1>4
<1>6. PICK f : Recursive(f, MaxOrder, first, G) /\ \A n \in 0..MaxOrder : f[n] \in E[n]
  <2> HIDE DEF G
  <2> QED
    BY <1>1, <1>2, <1>5, RecursionIs
<1>7. f = [n \in 0..MaxOrder |-> Body(f, n)]
  <2>1. \A n \in 0..MaxOrder : n # 0 => G[n][f[n - 1]] = Step(f[n - 1])
    <3> SUFFICES ASSUME NEW n \in 0..MaxOrder, n # 0 PROVE G[n][f[n - 1]] = Step(f[n - 1])
      OBVIOUS
    <3>1. n \in 1..MaxOrder /\ n - 1 \in 0..MaxOrder
      BY <1>1
    <3> HIDE DEF G
    <3> QED
      BY <3>1, <1>4, <1>6
  <2> HIDE DEF G
  <2> QED
    BY <2>1, <1>6 DEF Recursive
<1> DEFINE merge == CHOOSE g : g = [n \in 0..MaxOrder |-> Body(g, n)]
<1>8. merge = [n \in 0..MaxOrder |-> Body(merge, n)]
  <2> HIDE DEF Body
  <2> QED
    BY <1>7
<1>9. MergePage(p, page) = merge[MaxOrder].pool
  BY Zenon DEF MergePage, Step, first
<1> HIDE DEF merge
<1>10. 0..MaxOrder \subseteq {n \in Nat : merge[n] \in E[n]}
  <2> DEFINE Typed == {n \in Nat : merge[n] \in E[n]}
  <2>1. \A n \in 0..MaxOrder : merge[n] = Body(merge, n)
    <3> HIDE DEF Body
    <3> QED
      BY <1>8
  <2>2. 0 \in Typed
    BY <2>1, <1>1, <1>2
  <2>3. ASSUME NEW n \in 1..MaxOrder, n - 1 \in Typed PROVE n \in Typed
    <3>1. merge[n] = Step(merge[n - 1])
      BY <2>1, <1>1
    <3>2. merge[n - 1] \in E[n - 1] /\ n \in Nat
      BY <2>3
    <3> QED
      BY <3>1, <3>2, <1>4
  <2>4. 0..MaxOrder \subseteq Typed
    <3> HIDE DEF Typed
    <3> QED
      BY <1>1, <2>2, <2>3, UpTo
  <2> QED
    BY <2>4
<1>11. merge[MaxOrder] \in E[MaxOrder]
  BY <1>1, <1>10
<1> DEFINE m == merge[MaxOrder]
<1>12. Good(MaxOrder, m)
  BY <1>1, <1>11 DEF E
<1> HIDE DEF m
<1>13. Reached(m.pool, H, m.page, ord) /\ ~ Mergeable(m.pool, m.page)
  <2>1. /\ Reached(m.pool, H, m.page, ord)
        /\ m.pool.order[m.page] >= MaxOrder \/ ~ Mergeable(m.pool, m.page)
    BY <1>12 DEF Good
  <2>2. m.pool.order[m.page] \in Orders
    BY <2>1, ReachedFields
  <2> QED
    BY <2>1, <2>2, PoolAssumption DEF Orders
<1> QED
  BY <1>9, <1>13, MergeEnds DEF m

\* split_page()
LEMMA SplitPageKeeps ==
  ASSUME NEW p, NEW H, NEW page, NEW ord, Reached(p, H, page, ord),
         NEW order \in Orders, order <= p.order[page]
  PROVE  /\ Reached(SplitPage(p, order, page), H, page, ord)
         /\ SplitPage(p, order, page).order[page] = order
<1> DEFINE top == p.order[page]
           levels == top - order
           Good(n, q) == Reached(q, H, page, ord) /\ q.order[page] = top - n
           E == [n \in 0..levels |-> {q \in PoolStates : Good(n, q)}]
           G == [n \in 1..levels |-> [q \in PoolStates |-> SplitOnce(q, page)]]
           Body(f, n) == IF n = 0 THEN p ELSE SplitOnce(f[n - 1], page)
<1>1. top \in Orders /\ top \in Int /\ order \in Int /\ p \in PoolStates
  BY ReachedFields, OrdersAre
<1> HIDE DEF top
<1>2. levels \in Nat /\ \A n \in 1..levels : n - 1 \in 0..levels /\ n \in 0..levels
  BY <1>1 DEF top
<1>3. p \in E[0]
  <2>1. Good(0, p)
    BY <1>1 DEF top
  <2> HIDE DEF Good
  <2> QED
    BY <2>1, <1>1, <1>2
<1>4. ASSUME NEW n \in 1..levels, NEW q, Good(n - 1, q)
      PROVE  SplitOnce(q, page) \in PoolStates /\ Good(n, SplitOnce(q, page))
  <2> DEFINE o == top - n
  <2>1. o \in Orders /\ top - (n - 1) = o + 1
    BY <1>1, <1>2, PoolAssumption DEF Orders
  <2> HIDE DEF o
  <2>2. Reached(q, H, page, ord) /\ q.order[page] = o + 1
    BY <2>1, <1>4
  <2>3. Reached(SplitOnce(q, page), H, page, ord) /\ SplitOnce(q, page).order[page] = o
    BY <2>1, <2>2, SplitReaches
  <2> QED
    BY <2>3, ReachedFields DEF o
<1> HIDE DEF Good, levels
<1>5. \A n \in 1..levels : \A q \in E[n - 1] :
         G[n][q] = SplitOnce(q, page) /\ SplitOnce(q, page) \in E[n]
  <2> SUFFICES ASSUME NEW n \in 1..levels, NEW q \in E[n - 1]
               PROVE  G[n][q] = SplitOnce(q, page) /\ SplitOnce(q, page) \in E[n]
    OBVIOUS
  <2>1. q \in PoolStates /\ Good(n - 1, q)
    BY <1>2
  <2>2. SplitOnce(q, page) \in PoolStates /\ Good(n, SplitOnce(q, page))
    BY <2>1, <1>4
  <2> QED
    BY <2>1, <2>2, <1>2
<1> HIDE DEF E
<1>6. \A n \in 1..levels : \A q \in E[n - 1] : G[n][q] \in E[n]
  BY <1>5
<1>7. PICK f : Recursive(f, levels, p, G) /\ \A n \in 0..levels : f[n] \in E[n]
  <2> HIDE DEF G
  <2> QED
    BY <1>2, <1>3, <1>6, RecursionIs
<1>8. f = [n \in 0..levels |-> Body(f, n)]
  <2>1. \A n \in 0..levels : n # 0 => G[n][f[n - 1]] = SplitOnce(f[n - 1], page)
    <3> SUFFICES ASSUME NEW n \in 0..levels, n # 0
                 PROVE  G[n][f[n - 1]] = SplitOnce(f[n - 1], page)
      OBVIOUS
    <3>1. n \in 1..levels /\ n - 1 \in 0..levels
      BY <1>2
    <3> HIDE DEF G
    <3> QED
      BY <3>1, <1>5, <1>7
  <2> HIDE DEF G
  <2> QED
    BY <2>1, <1>7 DEF Recursive
<1> DEFINE split == CHOOSE g : g = [n \in 0..levels |-> Body(g, n)]
<1>9. split = [n \in 0..levels |-> Body(split, n)]
  <2> HIDE DEF Body
  <2> QED
    BY <1>8
<1>10. SplitPage(p, order, page) = split[levels]
  BY Zenon DEF SplitPage, levels, top
<1> HIDE DEF split
<1>11. 0..levels \subseteq {n \in Nat : split[n] \in E[n]}
  <2> DEFINE Typed == {n \in Nat : split[n] \in E[n]}
  <2>1. \A n \in 0..levels : split[n] = Body(split, n)
    <3> HIDE DEF Body
    <3> QED
      BY <1>9
  <2>2. 0 \in Typed
    BY <2>1, <1>2, <1>3
  <2>3. ASSUME NEW n \in 1..levels, n - 1 \in Typed PROVE n \in Typed
    <3>1. split[n] = SplitOnce(split[n - 1], page)
      BY <2>1, <1>2
    <3>2. split[n - 1] \in E[n - 1] /\ n \in Nat
      BY <2>3
    <3> QED
      BY <3>1, <3>2, <1>5
  <2>4. 0..levels \subseteq Typed
    <3> HIDE DEF Typed
    <3> QED
      BY <1>2, <2>2, <2>3, UpTo
  <2> QED
    BY <2>4
<1>12. split[levels] \in E[levels] /\ levels \in 0..levels
  BY <1>2, <1>11
<1>13. Good(levels, split[levels])
  BY <1>12 DEF E
<1>14. top - levels = order
  BY <1>1 DEF levels
<1> QED
  BY <1>10, <1>13, <1>14 DEF Good

\* buddy_get_pages(), when it finds a chunk
LEMMA GetKeeps ==
  ASSUME NEW p, NEW H, Resting(p, H, p.order), NEW order \in Orders, NEW k \in Fitting(p, order),
         NEW page, page = Head(p.list[k]),
         NEW p2, p2 = Take(SplitPage(p, order, page), page)
  PROVE  /\ page \in Pages /\ page \notin H
         /\ Resting(p2, H \cup {page}, p2.order)
         /\ p2.order[page] = order /\ \A h \in H : p2.order[h] = p.order[h]
<1> DEFINE q == SplitPage(p, order, page)
<1>1. PICK F : Fits(p, F, H) /\ AtRest(p.order, F)
  BY DEF Resting
<1>2. k \in Orders /\ order <= k /\ p.nr_free[k] >= 1
  BY PoolAssumption DEF Fitting, Orders
<1>3. page \in F /\ p.order[page] = k
  <2>1. ListOf(p.list[k], HeadsOf(p.order, F, k)) /\ Len(p.list[k]) >= 1
    BY <1>1, <1>2 DEF Fits, Listed
  <2>2. page \in HeadsOf(p.order, F, k)
    BY <2>1, ListMembers
  <2> QED
    BY <2>2 DEF HeadsOf
<1>4. Reached(p, H, page, p.order)
  BY <1>1, <1>3 DEF Reached, AtRest, OnlyAt
<1>5. Reached(q, H, page, p.order) /\ q.order[page] = order
  BY <1>2, <1>3, <1>4, SplitPageKeeps
<1>6. PICK F2 : /\ Fits(q, F2, H) /\ page \in F2 /\ OnlyAt(q.order, F2, page)
                /\ \A h \in H : q.order[h] = p.order[h]
  BY <1>5 DEF Reached
<1>7. /\ Fits(p2, F2 \ {page}, H \cup {page}) /\ AtRest(p2.order, F2 \ {page})
      /\ p2.order = q.order
  BY <1>6, TakeKeeps DEF q
<1>8. Resting(p2, H \cup {page}, p2.order)
  BY <1>7 DEF Resting
<1>9. page \in Pages /\ page \notin H
  <2>1. page \notin H
    BY <1>6 DEF Fits
  <2> QED
    BY <2>1, <1>5, ReachedFields
<1> QED
  BY <1>5, <1>6, <1>7, <1>8, <1>9

\* buddy_free_pages()
LEMMA FreeKeeps ==
  ASSUME NEW p, NEW H, NEW ord, Resting(p, H, ord), NEW page \in H
  PROVE  Resting(FreePages(p, page), H \ {page}, ord)
<1>1. PICK F : Fits(p, F, H) /\ AtRest(p.order, F) /\ \A h \in H : p.order[h] = ord[h]
  BY DEF Resting
<1> DEFINE q == GivenBack(p, page)
<1>2. /\ Fits(q, F \cup {page}, H \ {page}) /\ OnlyAt(q.order, F \cup {page}, page)
      /\ q.order = p.order
  BY <1>1, GivenBackKeeps
<1>3. FreePages(p, page) = MergePage(q, page)
  BY DEF FreePages, GivenBack
<1> HIDE DEF q
<1>4. Reached(q, H \ {page}, page, ord)
  BY <1>1, <1>2 DEF Reached
<1> QED
  BY <1>3, <1>4, MergePageKeeps

-----------------------------------------------------------------------------
(* init_buddy() *)

AllHeld == [allocated |-> [page \in Pages |-> TRUE],
            order     |-> [page \in Pages |-> 0],
            list      |-> [order \in Orders |-> <<>>],
            nr_free   |-> [order \in Orders |-> 0]]

\* The pool init_buddy() starts from, every page held at order 0, is at rest.
LEMMA AllHeldRests == Resting(AllHeld, Pages, [page \in Pages |-> 0])
<1> DEFINE zero == [page \in Pages |-> 0]
<1>1. 0 \in Orders /\ 0 \in 0..MaxOrder /\ ChunkSize[0] = 1 /\ Base \in Nat /\ Pages \subseteq Nat
  BY ChunkSizes, PoolAssumption DEF Orders, Pages
<1>2. /\ AllHeld.allocated = [page \in Pages |-> TRUE] /\ AllHeld.order = zero
      /\ AllHeld.list = [order \in Orders |-> <<>>]
      /\ AllHeld.nr_free = [order \in Orders |-> 0]
  BY DEF AllHeld
<1>3. \A h \in Pages : zero[h] = 0 /\ Span(h, 0) = {h}
  BY <1>1 DEF Span
<1>4. \A h \in Pages : Aligned(h, 0)
  <2> SUFFICES ASSUME NEW h \in Pages PROVE Aligned(h, 0)
    OBVIOUS
  <2>1. Base + h \in Nat /\ Base + h = (Base + h) * ChunkSize[0]
    BY <1>1
  <2> QED
    BY <2>1 DEF Aligned
<1> HIDE DEF zero
<1>5. Tiles(zero, Pages)
  BY <1>1, <1>3, <1>4 DEF Tiles
<1>6. \A o \in Orders : HeadsOf(zero, {}, o) = {} /\ ListOf(<<>>, {})
  BY DEF HeadsOf, ListOf, IsInjective
<1>7. Listed(AllHeld.list, zero, {})
  <2>1. AllHeld.list \in [Orders -> Seq(Pages)]
    BY <1>2
  <2>2. \A o \in Orders : AllHeld.list[o] = <<>>
    BY <1>2
  <2> QED
    BY <2>1, <2>2, <1>6 DEF Listed
<1>8. AllHeld \in PoolStates
  <2>1. [order \in Orders |-> <<>>] \in [Orders -> Seq(Pages)]
    OBVIOUS
  <2>2. [page \in Pages |-> 0] \in [Pages -> Orders]
    BY <1>1
  <2> QED
    BY <2>1, <2>2 DEF AllHeld, PoolStates
<1>9. Fits(AllHeld, {}, Pages)
  <2>1. \A h \in Pages : AllHeld.allocated[h] = TRUE
    BY <1>2
  <2>2. \A o \in Orders : AllHeld.nr_free[o] = Len(AllHeld.list[o])
    BY <1>2
  <2>3. {} \cup Pages = Pages /\ {} \cap Pages = {}
    OBVIOUS
  <2> QED
    BY <2>1, <2>2, <2>3, <1>2, <1>5, <1>7, <1>8 DEF Fits
<1> QED
  BY <1>2, <1>9 DEF Resting, AtRest, zero

\* Freeing every page, as init_buddy() does, leaves a pool at rest with nothing held.
LEMMA InitRests == Resting(InitPool, {}, [page \in Pages |-> 0])
<1> DEFINE zero == [page \in Pages |-> 0]
           Left(n) == n..(NPages - 1)
           Good(n, q) == Resting(q, Left(n), zero)
           E == [n \in 0..NPages |-> {q \in PoolStates : Good(n, q)}]
           G == [n \in 1..NPages |-> [q \in PoolStates |-> FreePages(q, n - 1)]]
           Body(f, n) == IF n = 0 THEN AllHeld ELSE FreePages(f[n - 1], n - 1)
<1> HIDE DEF zero
<1>1. NPages \in Nat /\ \A n \in 1..NPages : n - 1 \in 0..NPages /\ n \in 0..NPages
  BY PoolAssumption
<1>2. \A n, q : Good(n, q) => q \in PoolStates
  BY DEF Resting, Fits
<1>3. AllHeld \in E[0]
  <2>1. Left(0) = Pages
    BY DEF Pages
  <2>2. Good(0, AllHeld)
    BY <2>1, AllHeldRests DEF zero
  <2> HIDE DEF Good
  <2> QED
    BY <2>2, <1>1, <1>2
<1>4. ASSUME NEW n \in 1..NPages, NEW q, Good(n - 1, q)
      PROVE  Good(n, FreePages(q, n - 1))
  <2>1. n - 1 \in Left(n - 1) /\ Left(n - 1) \ {n - 1} = Left(n)
    BY <1>1
  <2> HIDE DEF Left
  <2>2. Resting(FreePages(q, n - 1), Left(n - 1) \ {n - 1}, zero)
    BY <2>1, <1>4, FreeKeeps
  <2> QED
    BY <2>1, <2>2
<1> HIDE DEF Good
<1>5. \A n \in 1..NPages : \A q \in E[n - 1] :
         G[n][q] = FreePages(q, n - 1) /\ FreePages(q, n - 1) \in E[n]
  <2> SUFFICES ASSUME NEW n \in 1..NPages, NEW q \in E[n - 1]
               PROVE  G[n][q] = FreePages(q, n - 1) /\ FreePages(q, n - 1) \in E[n]
    OBVIOUS
  <2>1. q \in PoolStates /\ Good(n - 1, q)
    BY <1>1
  <2>2. FreePages(q, n - 1) \in PoolStates /\ Good(n, FreePages(q, n - 1))
    BY <2>1, <1>2, <1>4
  <2> QED
    BY <2>1, <2>2, <1>1
<1> HIDE DEF E
<1>6. \A n \in 1..NPages : \A q \in E[n - 1] : G[n][q] \in E[n]
  BY <1>5
<1>7. PICK f : Recursive(f, NPages, AllHeld, G) /\ \A n \in 0..NPages : f[n] \in E[n]
  <2> HIDE DEF G
  <2> QED
    BY <1>1, <1>3, <1>6, RecursionIs
<1>8. f = [n \in 0..NPages |-> Body(f, n)]
  <2>1. \A n \in 0..NPages : n # 0 => G[n][f[n - 1]] = FreePages(f[n - 1], n - 1)
    <3> SUFFICES ASSUME NEW n \in 0..NPages, n # 0
                 PROVE  G[n][f[n - 1]] = FreePages(f[n - 1], n - 1)
      OBVIOUS
    <3>1. n \in 1..NPages /\ n - 1 \in 0..NPages
      BY <1>1
    <3> HIDE DEF G
    <3> QED
      BY <3>1, <1>5, <1>7
  <2> HIDE DEF G
  <2> QED
    BY <2>1, <1>7 DEF Recursive
<1> DEFINE freed == CHOOSE g : g = [n \in 0..NPages |-> Body(g, n)]
<1>9. freed = [n \in 0..NPages |-> Body(freed, n)]
  <2> HIDE DEF Body
  <2> QED
    BY <1>8
<1>10. InitPool = freed[NPages]
  BY Zenon DEF InitPool, AllHeld
<1> HIDE DEF freed
<1>11. 0..NPages \subseteq {n \in Nat : freed[n] \in E[n]}
  <2> DEFINE Typed == {n \in Nat : freed[n] \in E[n]}
  <2>1. \A n \in 0..NPages : freed[n] = Body(freed, n)
    <3> HIDE DEF Body
    <3> QED
      BY <1>9
  <2>2. 0 \in Typed
    BY <2>1, <1>1, <1>3
  <2>3. ASSUME NEW n \in 1..NPages, n - 1 \in Typed PROVE n \in Typed
    <3>1. freed[n] = FreePages(freed[n - 1], n - 1)
      BY <2>1, <1>1
    <3>2. freed[n - 1] \in E[n - 1] /\ n \in Nat
      BY <2>3
    <3> QED
      BY <3>1, <3>2, <1>5
  <2>4. 0..NPages \subseteq Typed
    <3> HIDE DEF Typed
    <3> QED
      BY <1>1, <2>2, <2>3, UpTo
  <2> QED
    BY <2>4
<1>12. Good(NPages, freed[NPages])
  <2>1. freed[NPages] \in E[NPages]
    BY <1>1, <1>11
  <2> QED
    BY <2>1, <1>1 DEF E
<1>13. Left(NPages) = {}
  BY <1>1
<1> QED
  BY <1>10, <1>12, <1>13 DEF Good, zero

-----------------------------------------------------------------------------
(* The invariant *)

\* The inductive invariant.
BuddyInv == Resting(pool, held, pool.order)

\* The buddy invariant holds when init_buddy() returns.
LEMMA BuddyBoots == Init => BuddyInv
<1> SUFFICES ASSUME Init PROVE BuddyInv
  OBVIOUS
<1>1. pool = InitPool /\ held = {}
  BY DEF Init
<1>2. Resting(pool, {}, [page \in Pages |-> 0])
  BY <1>1, InitRests
<1> QED
  BY <1>1, <1>2 DEF BuddyInv, Resting

\* buddy_get_pages() keeps the buddy invariant.
LEMMA GetPreserves ==
  ASSUME BuddyInv, NEW order \in Orders, Get(order)
  PROVE  BuddyInv'
<1>1. CASE UNCHANGED <<pool, held>>
  BY <1>1 DEF BuddyInv
<1>2. CASE \E k \in Fitting(pool, order) :
             LET page == Head(pool.list[k])
             IN  pool' = Take(SplitPage(pool, order, page), page) /\ held' = held \cup {page}
  <2>1. PICK k \in Fitting(pool, order) :
             LET page == Head(pool.list[k])
             IN  pool' = Take(SplitPage(pool, order, page), page) /\ held' = held \cup {page}
    BY <1>2
  <2> DEFINE page == Head(pool.list[k])
  <2>2. pool' = Take(SplitPage(pool, order, page), page) /\ held' = held \cup {page}
    BY <2>1
  <2> HIDE DEF page
  <2>3. Resting(pool', held \cup {page}, pool'.order)
    BY <2>2, GetKeeps DEF BuddyInv, page
  <2> QED
    BY <2>2, <2>3 DEF BuddyInv
<1> QED
  BY <1>1, <1>2 DEF Get

\* buddy_free_pages() keeps the buddy invariant, and the order of what stays held.
LEMMA FreePreserves ==
  ASSUME BuddyInv, NEW page \in held, Free(page)
  PROVE  BuddyInv' /\ \A h \in held' : pool'.order[h] = pool.order[h]
<1>1. pool' = FreePages(pool, page) /\ held' = held \ {page}
  BY DEF Free
<1>2. Resting(pool', held', pool.order)
  BY <1>1, FreeKeeps DEF BuddyInv
<1> QED
  BY <1>2 DEF BuddyInv, Resting

\* Every step of the buddy allocator keeps its invariant.
LEMMA BuddyStep == BuddyInv /\ [Next]_buddy => BuddyInv'
<1> SUFFICES ASSUME BuddyInv, [Next]_buddy PROVE BuddyInv'
  OBVIOUS
<1>1. CASE UNCHANGED buddy
  BY <1>1 DEF BuddyInv, buddy
<1>2. CASE \E order \in Orders : Get(order)
  BY <1>2, GetPreserves
<1>3. CASE \E page \in held : Free(page)
  BY <1>3, FreePreserves
<1> QED
  BY <1>1, <1>2, <1>3 DEF Next

\* The free lists hold the free heads, each in the list of its order.
LEMMA HeadsAre ==
  ASSUME NEW F, Fits(pool, F, held)
  PROVE  FreeHeads = F /\ \A o \in Orders : ToSet(pool.list[o]) = HeadsOf(pool.order, F, o)
<1>1. ASSUME NEW o \in Orders PROVE ToSet(pool.list[o]) = HeadsOf(pool.order, F, o)
  BY ListMembers DEF Fits, Listed
<1>2. \A h \in F : pool.order[h] \in Orders
  BY FitsFields
<1> QED
  BY <1>1, <1>2 DEF FreeHeads, HeadsOf

\* The invariant of the allocator: lists, metadata and the chunks of callers fit
\* together, and the pool is at rest between two calls, for any pool.
THEOREM BuddyInvariant == Spec => []BuddyInv
BY BuddyBoots, BuddyStep, PTL DEF Spec

\* buddy_get_pages() and buddy_free_pages() never lose a page nor hand one out twice,
\* wherever the pool starts and ends.
THEOREM ChunksTile == Spec => []ChunksTilePool
<1>1. BuddyInv => ChunksTilePool
  <2> SUFFICES ASSUME BuddyInv PROVE ChunksTilePool
    OBVIOUS
  <2>1. PICK F : Fits(pool, F, held)
    BY DEF BuddyInv, Resting
  <2>2. FreeHeads = F
    BY <2>1, HeadsAre
  <2>3. \A page : Chunk(page) = Span(page, pool.order[page])
    BY DEF Chunk, Span
  <2>4. F \cap held = {} /\ Tiles(pool.order, F \cup held)
    BY <2>1 DEF Fits
  <2>5. UNION {Chunk(page) : page \in F \cup held} = Pages
    BY <2>3, <2>4 DEF Tiles
  <2>6. ASSUME NEW p \in F \cup held, NEW q \in F \cup held, p # q
        PROVE  Chunk(p) \cap Chunk(q) = {}
    BY <2>3, <2>4, <2>6 DEF Tiles
  <2> QED
    BY <2>2, <2>4, <2>5, <2>6 DEF ChunksTilePool
<1> QED
  BY <1>1, BuddyInvariant, PTL

\* The free lists, their counters and the metadata of the chunks in them agree, so
\* that list_del() always finds its node in the list that loses it.
THEOREM ListsStayExact == Spec => []ListsExact
<1>1. BuddyInv => ListsExact
  <2> SUFFICES ASSUME BuddyInv, NEW o \in Orders
               PROVE  /\ pool.nr_free[o] = Len(pool.list[o])
                      /\ IsInjective(pool.list[o])
                      /\ \A page \in ToSet(pool.list[o]) :
                            pool.order[page] = o /\ ~ pool.allocated[page]
    BY DEF ListsExact
  <2>1. PICK F : Fits(pool, F, held)
    BY DEF BuddyInv, Resting
  <2>2. ToSet(pool.list[o]) = HeadsOf(pool.order, F, o)
    BY <2>1, HeadsAre
  <2>3. \A page \in HeadsOf(pool.order, F, o) : pool.order[page] = o /\ ~ pool.allocated[page]
    BY <2>1 DEF Fits, HeadsOf
  <2>4. pool.nr_free[o] = Len(pool.list[o]) /\ IsInjective(pool.list[o])
    BY <2>1 DEF Fits, Listed, ListOf
  <2> QED
    BY <2>2, <2>3, <2>4
<1> QED
  BY <1>1, BuddyInvariant, PTL

\* merge_page() and split_page() leave no two free buddies unmerged.
THEOREM MergedFully == Spec => []FullyMerged
<1>1. BuddyInv => FullyMerged
  <2> SUFFICES ASSUME BuddyInv PROVE FullyMerged
    OBVIOUS
  <2>1. PICK F : Fits(pool, F, held) /\ AtRest(pool.order, F)
    BY DEF BuddyInv, Resting
  <2>2. FreeHeads = F
    BY <2>1, HeadsAre
  <2>3. ASSUME NEW page \in F PROVE ~ Mergeable(pool, page)
    BY <2>1, MergeableIs DEF AtRest, Match
  <2> QED
    BY <2>2, <2>3 DEF FullyMerged
<1> QED
  BY <1>1, BuddyInvariant, PTL

-----------------------------------------------------------------------------
(* The refinement of PageAllocator *)

\* Every chunk is one half of an aligned chunk of the next order, which may lie
\* outside of the pool.
LEMMA HasTwin ==
  ASSUME NEW h \in Pages, NEW o \in Orders, Aligned(h, o)
  PROVE  \E t \in Int : /\ Twins(h, t, o)
                        /\ \E l \in Int : /\ Aligned(l, o + 1)
                                          /\ h \in Span(l, o + 1) /\ t \in Span(l, o + 1)
<1> DEFINE d == ChunkSize[o]
<1>1. /\ o \in 0..MaxOrder /\ o + 1 \in 1..MaxOrder /\ (o + 1) - 1 = o /\ h \in Nat
      /\ Base \in Nat
  BY PoolAssumption DEF Orders, Pages
<1>2. d \in Nat \ {0} /\ ChunkSize[o + 1] = 2 * d
  BY <1>1, ChunkSizes
<1>3. PICK a \in Nat : Base + h = a * d
  BY DEF Aligned
<1> HIDE DEF d
<1>4. PICK m \in Nat : a = 2 * m \/ a = 2 * m + 1
  <2>1. a \div 2 \in Nat /\ (a = 2 * (a \div 2) \/ a = 2 * (a \div 2) + 1)
    OBVIOUS
  <2> QED
    BY <2>1
<1>5. \E l, u \in Int : Halves(l, u, o) /\ h \in {l, u}
  <2>1. CASE a = 2 * m
    <3>1. Base + h = m * (2 * d)
      BY <1>2, <1>3, <2>1
    <3>2. Halves(h, h + d, o)
      BY <1>2, <3>1 DEF Halves, Aligned, d
    <3> QED
      BY <3>2, <1>1, <1>2
  <2>2. CASE a = 2 * m + 1
    <3>1. Base + (h - d) = m * (2 * d)
      BY <1>1, <1>2, <1>3, <2>2
    <3>2. (h - d) + d = h
      BY <1>1, <1>2
    <3>3. Halves(h - d, h, o)
      BY <1>2, <3>1, <3>2 DEF Halves, Aligned, d
    <3> QED
      BY <3>3, <1>1, <1>2
  <2> QED
    BY <1>4, <2>1, <2>2
<1>6. PICK l \in Int, u \in Int : Halves(l, u, o) /\ h \in {l, u}
  BY <1>5
<1>7. Span(l, o + 1) = Span(l, o) \cup Span(u, o) /\ Aligned(l, o + 1)
  BY <1>6, HalvesAre DEF Halves
<1>8. l \in Span(l, o) /\ u \in Span(u, o)
  BY <1>1, SpanHasHead
<1>9. CASE h = l
  BY <1>6, <1>7, <1>8, <1>9 DEF Twins
<1>10. CASE h = u
  BY <1>6, <1>7, <1>8, <1>10 DEF Twins
<1> QED
  BY <1>6, <1>9, <1>10

\* buddy_get_pages() gives up only if there is no free block: the least chunk inside
\* such a block would have a free buddy.
LEMMA NothingFits ==
  ASSUME NEW F, Fits(pool, F, held), AtRest(pool.order, F),
         NEW order \in Orders, Fitting(pool, order) = {},
         NEW x \in Pages, Aligned(x, order), Span(x, order) \subseteq Pages,
         \A h \in held : Span(x, order) \cap Span(h, pool.order[h]) = {}
  PROVE  FALSE
<1> DEFINE ord == pool.order
<1>1. /\ F \subseteq Pages /\ held \subseteq Pages /\ Pages \subseteq Int
      /\ Orders \subseteq 0..MaxOrder /\ Orders \subseteq Nat /\ order \in 0..MaxOrder
      /\ \A h \in F \cup held : /\ ord[h] \in Orders /\ ord[h] \in 0..MaxOrder
                                /\ Aligned(h, ord[h]) /\ h \in Span(h, ord[h])
  <2>1. Orders \subseteq Nat
    BY DEF Orders
  <2>2. \A h \in F \cup held : h \in Span(h, ord[h])
    BY DEF Fits, Tiles
  <2> QED
    BY <2>1, <2>2, OrdersAre, FitsFields
<1>2. \A k \in Orders : k >= order => pool.nr_free[k] = 0
  <2> DEFINE some == {k \in Orders : k >= order /\ pool.nr_free[k] >= 1}
  <2>1. some = {}
    <3> SUFFICES ASSUME some # {} PROVE FALSE
      OBVIOUS
    <3>1. some \subseteq Nat
      BY <1>1
    <3>2. PICK k \in some : \A j \in some : k <= j
      <4> HIDE DEF some
      <4> QED
        BY <3>1, LeastNat
    <3>3. \A j \in Orders : pool.nr_free[j] \in Nat
      <4>1. \A j \in Orders : pool.nr_free[j] = Len(pool.list[j]) /\ pool.list[j] \in Seq(Pages)
        BY DEF Fits, Listed
      <4> QED
        BY <4>1, LenProperties
    <3>4. k \in order..(MaxOrder - 1)
      BY PoolAssumption DEF Orders
    <3>5. ASSUME NEW j \in order..(k - 1) PROVE pool.nr_free[j] = 0
      <4>1. j \in Orders /\ j >= order /\ ~(k <= j)
        BY <3>4, PoolAssumption DEF Orders
      <4>2. ~(pool.nr_free[j] >= 1)
        BY <4>1, <3>2
      <4> QED
        BY <4>1, <4>2, <3>3
    <3>6. k \in Fitting(pool, order)
      BY <3>4, <3>5 DEF Fitting
    <3> QED
      BY <3>6
  <2>2. \A j \in Orders : pool.nr_free[j] \in Nat
    <3>1. \A j \in Orders : pool.nr_free[j] = Len(pool.list[j]) /\ pool.list[j] \in Seq(Pages)
      BY DEF Fits, Listed
    <3> QED
      BY <3>1, LenProperties
  <2> QED
    BY <2>1, <2>2
<1>3. \A h \in F : ord[h] < order
  <2> SUFFICES ASSUME NEW h \in F, ord[h] >= order PROVE FALSE
    BY <1>1
  <2>1. ord[h] \in Orders /\ pool.nr_free[ord[h]] = 0
    BY <1>1, <1>2
  <2>2. ListOf(pool.list[ord[h]], HeadsOf(ord, F, ord[h])) /\ Len(pool.list[ord[h]]) = 0
    BY <2>1 DEF Fits, Listed
  <2>3. HeadsOf(ord, F, ord[h]) # {}
    BY DEF HeadsOf
  <2> QED
    BY <2>2, <2>3, ListMembers
<1> DEFINE C == {h \in F : h \in Span(x, order)}
<1>4. C # {}
  <2>1. x \in Span(x, order)
    BY <1>1, SpanHasHead
  <2>2. PICK g \in F \cup held : x \in Span(g, ord[g])
    BY DEF Fits, Tiles
  <2>3. g \in F
    BY <2>1, <2>2
  <2>4. order \in ord[g]..MaxOrder
    BY <1>1, <1>3, <2>3
  <2>5. Span(g, ord[g]) \subseteq Span(x, order)
    BY <2>1, <2>2, <2>3, <2>4, <1>1, Nested
  <2>6. g \in Span(g, ord[g])
    BY <1>1, <2>3
  <2> QED
    BY <2>3, <2>5, <2>6
<1>5. PICK c \in C : \A h \in C : ord[c] <= ord[h]
  <2> DEFINE B == {ord[h] : h \in C}
  <2>1. B \subseteq Nat /\ B # {}
    <3>1. ASSUME NEW h \in C PROVE ord[h] \in Nat
      BY <1>1
    <3> HIDE DEF C, ord
    <3> QED
      BY <3>1, <1>4
  <2>2. PICK n \in B : \A k \in B : n <= k
    <3> HIDE DEF B
    <3> QED
      BY <2>1, LeastNat
  <2> QED
    BY <2>2
<1> DEFINE j == ord[c]
<1>6. c \in F /\ c \in Pages /\ c \in Span(x, order) /\ j \in Orders /\ Aligned(c, j) /\ j < order
  BY <1>1, <1>3
<1>7. PICK t \in Int, l \in Int : /\ Twins(c, t, j) /\ Aligned(l, j + 1)
                                  /\ c \in Span(l, j + 1) /\ t \in Span(l, j + 1)
  BY <1>6, HasTwin
<1>8. t \in Span(x, order)
  <2>1. j + 1 \in 0..MaxOrder /\ order \in (j + 1)..MaxOrder
    <3>1. j \in Nat /\ order \in Nat /\ order <= MaxOrder /\ MaxOrder \in Nat
      BY <1>1, <1>6, PoolAssumption DEF Orders
    <3> HIDE DEF j
    <3> QED
      BY <3>1, <1>6
  <2>2. Span(l, j + 1) \subseteq Span(x, order)
    <3>1. /\ l \in Int /\ x \in Int /\ c \in Int /\ Aligned(l, j + 1) /\ Aligned(x, order)
          /\ c \in Span(l, j + 1) /\ c \in Span(x, order)
      BY <1>1, <1>6, <1>7
    <3> HIDE DEF j
    <3> QED
      BY <2>1, <3>1, Nested
  <2> QED
    BY <2>2, <1>7
<1>9. t \in F \cup held /\ ord[t] <= j
  <2>1. t \in Pages /\ c \in F \cup held
    BY <1>6, <1>8
  <2> QED
    BY <2>1, <1>7, BuddyIsHead DEF Fits
<1>10. t \in C
  BY <1>1, <1>8, <1>9
<1>11. ord[t] = j
  <2>1. j <= ord[t]
    BY <1>5, <1>10
  <2> QED
    BY <2>1, <1>1, <1>6, <1>9
<1>12. j + 1 \in Orders
  BY <1>6, PoolAssumption DEF Orders
<1>13. Match(ord, F, c, t)
  BY <1>6, <1>7, <1>10, <1>11, <1>12 DEF Match
<1> QED
  BY <1>6, <1>10, <1>13 DEF AtRest

\* The block of PageAllocator that a chunk is.
Blk(h, order) == [head |-> Base + h, order |-> order]

\* The frames of an abstract block are the pages of a chunk, moved by the base.
LEMMA BlockIs ==
  ASSUME NEW h \in Int, NEW o \in 0..MaxOrder
  PROVE  /\ \A x \in Int : Base + x \in Allocator!Block(Blk(h, o)) <=> x \in Span(h, o)
         /\ \A f \in Allocator!Block(Blk(h, o)) : f - Base \in Span(h, o) /\ f = Base + (f - Base)
<1>1. ChunkSize[o] \in Nat \ {0} /\ Base \in Nat
  BY ChunkSizes, PoolAssumption
<1>2. Allocator!Block(Blk(h, o)) = (Base + h)..(Base + h + ChunkSize[o] - 1)
  BY DEF Allocator!Block, Blk
<1>3. Span(h, o) = h..(h + ChunkSize[o] - 1)
  BY DEF Span
<1> QED
  BY <1>1, <1>2, <1>3

\* A chunk aligned in the pool is aligned in memory, the base being aligned to the largest.
LEMMA AlignedIs ==
  ASSUME NEW h \in Pages, NEW o \in Orders
  PROVE  Aligned(h, o) <=> (Base + h) % ChunkSize[o] = 0
<1> DEFINE d == ChunkSize[o]
<1>1. d \in Nat \ {0} /\ Base + h \in Nat
  BY ChunkSizes, OrdersAre, PoolAssumption DEF Pages
<1>2. Aligned(h, o) <=> \E a \in Nat : Base + h = a * d
  BY DEF Aligned
<1> DEFINE n == Base + h
<1> HIDE DEF d, n
<1>3. ASSUME NEW a \in Nat, n = a * d PROVE n % d = 0
  <2>1. (a * d) % d = 0
    BY <1>1
  <2> QED
    BY <1>3, <2>1
<1>4. ASSUME n % d = 0 PROVE \E a \in Nat : n = a * d
  <2>1. n \div d \in Nat /\ n = (n \div d) * d
    BY <1>1, <1>4 DEF n
  <2> QED
    BY <2>1
<1> QED
  BY <1>2, <1>3, <1>4 DEF n, d

\* Whether the chunk at x of an order could be handed out.
Vacant(x, order) ==
    /\ x \in Pages /\ Aligned(x, order) /\ Span(x, order) \subseteq Pages
    /\ \A h \in held : Span(x, order) \cap Span(h, pool.order[h]) = {}

\* A held chunk is a page with an order of the allocator.
LEMMA HeldAre ==
  ASSUME BuddyInv, NEW h \in held
  PROVE  /\ h \in Pages /\ h \in Int /\ pool.order[h] \in Orders
         /\ pool.order[h] \in 0..MaxOrder
<1>1. PICK F : Fits(pool, F, held)
  BY DEF BuddyInv, Resting
<1> QED
  BY <1>1, FitsFields, OrdersAre

\* The frames the abstract allocator has in use are those of the held chunks.
LEMMA UsedAre ==
  ASSUME BuddyInv, NEW x \in Int
  PROVE  Base + x \in Allocator!Used <=> \E h \in held : x \in Span(h, pool.order[h])
<1>1. Base + x \in Allocator!Used <=>
        \E h \in held : Base + x \in Allocator!Block(Blk(h, pool.order[h]))
  BY DEF Allocator!Used, Blk
<1>2. ASSUME NEW h \in held
      PROVE  Base + x \in Allocator!Block(Blk(h, pool.order[h])) <=> x \in Span(h, pool.order[h])
  <2>1. h \in Int /\ pool.order[h] \in 0..MaxOrder
    BY HeldAre
  <2> QED
    BY <2>1, BlockIs
<1> QED
  BY <1>1, <1>2

\* What the abstract allocator may give at an order is what is vacant in the pool.
LEMMA AvailableAre ==
  ASSUME BuddyInv, NEW order \in Orders
  PROVE  /\ \A x : Vacant(x, order) => Blk(x, order) \in Allocator!Available(order)
         /\ \A b \in Allocator!Available(order) : \E x : Vacant(x, order) /\ b = Blk(x, order)
<1> DEFINE Frames == {Base + page : page \in Pages}
<1>1. order \in 0..MaxOrder /\ Pages \subseteq Int /\ Base \in Nat
  BY OrdersAre, PoolAssumption
<1>2. ASSUME NEW b
      PROVE  b \in Allocator!Available(order) <=>
               /\ \E f \in Frames : b = [head |-> f, order |-> order] /\ f % ChunkSize[order] = 0
               /\ Allocator!Block(b) \subseteq Frames \ Allocator!Used
  BY DEF Allocator!Available, Allocator!Blocks
<1>3. ASSUME NEW x \in Int PROVE Base + x \in Frames <=> x \in Pages
  BY <1>1
<1>4. ASSUME NEW x, Vacant(x, order) PROVE Blk(x, order) \in Allocator!Available(order)
  <2>1. x \in Pages /\ x \in Int /\ Base + x \in Frames /\ (Base + x) % ChunkSize[order] = 0
    BY <1>1, <1>4, AlignedIs DEF Vacant
  <2>2. ASSUME NEW f \in Allocator!Block(Blk(x, order)) PROVE f \in Frames \ Allocator!Used
    <3> DEFINE y == f - Base
    <3>1. y \in Span(x, order) /\ f = Base + y
      BY <1>1, <2>1, BlockIs
    <3> HIDE DEF y
    <3>2. y \in Pages /\ y \in Int /\ ~ \E h \in held : y \in Span(h, pool.order[h])
      BY <1>1, <1>4, <3>1 DEF Vacant
    <3> QED
      BY <3>1, <3>2, <1>3, UsedAre
  <2> QED
    BY <1>2, <2>1, <2>2 DEF Blk
<1>5. ASSUME NEW b \in Allocator!Available(order)
      PROVE  \E x : Vacant(x, order) /\ b = Blk(x, order)
  <2>1. PICK f \in Frames : b = [head |-> f, order |-> order] /\ f % ChunkSize[order] = 0
    BY <1>2
  <2>2. PICK x \in Pages : f = Base + x
    BY DEF Frames
  <2>3. b = Blk(x, order) /\ Aligned(x, order) /\ x \in Int
    BY <1>1, <2>1, <2>2, AlignedIs DEF Blk
  <2>4. ASSUME NEW y \in Span(x, order)
        PROVE  y \in Pages /\ ~ \E h \in held : y \in Span(h, pool.order[h])
    <3>1. y \in Int
      BY <1>1, <2>3, SpanHasHead
    <3>2. Base + y \in Allocator!Block(b)
      BY <1>1, <2>3, <3>1, BlockIs
    <3>3. Base + y \in Frames /\ Base + y \notin Allocator!Used
      BY <1>2, <3>2
    <3> QED
      BY <3>1, <3>3, <1>3, UsedAre
  <2>5. Vacant(x, order)
    BY <2>2, <2>3, <2>4 DEF Vacant
  <2> QED
    BY <2>3, <2>5
<1> QED
  BY <1>4, <1>5

\* The initial pool is an initial state of the page allocator.
LEMMA AllocatorBoots == Init => Allocator!Init
BY DEF Init, Allocator!Init

\* A successful buddy_get_pages() is a get of PageAllocator.
LEMMA GetIsGet ==
  ASSUME BuddyInv, NEW order \in Orders, Get(order), BuddyInv'
  PROVE  Allocator!Get(order)
<1> DEFINE Owned(ord, H) == {[head |-> Base + page, order |-> ord[page]] : page \in H}
<1>1. PICK F : Fits(pool, F, held) /\ AtRest(pool.order, F)
  BY DEF BuddyInv, Resting
<1>2. CASE Fitting(pool, order) = {} /\ result' = NULL /\ UNCHANGED <<pool, held>>
  <2>1. Allocator!Available(order) = {}
    <3> SUFFICES ASSUME NEW b \in Allocator!Available(order) PROVE FALSE
      OBVIOUS
    <3>1. PICK x : Vacant(x, order)
      BY AvailableAre
    <3> QED
      BY <1>1, <1>2, <3>1, NothingFits DEF Vacant
  <2>2. Owned(pool'.order, held') = Owned(pool.order, held)
    BY <1>2
  <2> QED
    BY <1>2, <2>1, <2>2 DEF Allocator!Get
<1>3. CASE \E k \in Fitting(pool, order) :
             LET page == Head(pool.list[k])
             IN  /\ pool' = Take(SplitPage(pool, order, page), page)
                 /\ held' = held \cup {page}
                 /\ result' = page
  <2>1. PICK k \in Fitting(pool, order) :
             LET page == Head(pool.list[k])
             IN  /\ pool' = Take(SplitPage(pool, order, page), page)
                 /\ held' = held \cup {page}
                 /\ result' = page
    BY <1>3
  <2> DEFINE page == Head(pool.list[k])
  <2>2. /\ page \in Pages /\ page \notin held
        /\ pool'.order[page] = order /\ \A h \in held : pool'.order[h] = pool.order[h]
    <3>1. pool' = Take(SplitPage(pool, order, page), page)
      BY <2>1
    <3> HIDE DEF page
    <3>2. Resting(pool, held, pool.order) /\ page = Head(pool.list[k])
      BY DEF BuddyInv, page
    <3>3. /\ page \in Pages /\ page \notin held
          /\ Resting(pool', held \cup {page}, pool'.order)
          /\ pool'.order[page] = order /\ \A h \in held : pool'.order[h] = pool.order[h]
      BY <3>1, <3>2, GetKeeps
    <3> QED
      BY <3>3
  <2>3. held' = held \cup {page} /\ result' = page
    BY <2>1
  <2> HIDE DEF page
  <2>4. PICK F2 : Tiles(pool'.order, F2 \cup held')
    BY DEF BuddyInv, Resting, Fits
  <2>5. Vacant(page, order)
    <3>1. Aligned(page, order) /\ Span(page, order) \subseteq Pages
      BY <2>2, <2>3, <2>4 DEF Tiles
    <3>2. ASSUME NEW h \in held PROVE Span(page, order) \cap Span(h, pool.order[h]) = {}
      BY <2>2, <2>3, <2>4, <3>1 DEF Tiles
    <3> QED
      BY <2>2, <3>1, <3>2 DEF Vacant
  <2>6. Blk(page, order) \in Allocator!Available(order)
    BY <2>5, AvailableAre
  <2>7. Owned(pool'.order, held') = Owned(pool.order, held) \cup {Blk(page, order)}
    BY <2>2, <2>3 DEF Blk
  <2>8. (IF result' = NULL THEN NULL ELSE Base + result') = Blk(page, order).head
    BY <2>2, <2>3 DEF Blk, NULL, Pages
  <2> QED
    BY <2>6, <2>7, <2>8 DEF Allocator!Get
<1> QED
  BY <1>2, <1>3 DEF Get

\* buddy_free_pages() is a free of PageAllocator.
LEMMA FreeIsFree ==
  ASSUME BuddyInv, NEW page \in held, Free(page),
         NEW b, b = Blk(page, pool.order[page])
  PROVE  Allocator!Free(b)
<1> DEFINE Owned(ord, H) == {[head |-> Base + h, order |-> ord[h]] : h \in H}
<1>1. held' = held \ {page} /\ result' = result
  BY DEF Free
<1>2. \A h \in held' : pool'.order[h] = pool.order[h]
  BY FreePreserves
<1>3. Blk(page, pool.order[page]) \in Owned(pool.order, held)
  BY DEF Blk
<1>4. Owned(pool'.order, held') = Owned(pool.order, held) \ {Blk(page, pool.order[page])}
  <2>1. Owned(pool'.order, held') = Owned(pool.order, held \ {page})
    BY <1>1, <1>2
  <2>2. ASSUME NEW h \in held, NEW g \in held, h # g
        PROVE  [head |-> Base + h, order |-> pool.order[h]] # [head |-> Base + g, order |-> pool.order[g]]
    <3>1. Base + h # Base + g
      BY <2>2, HeldAre, PoolAssumption
    <3> QED
      BY <3>1
  <2>3. Owned(pool.order, held \ {page}) = Owned(pool.order, held) \ {Blk(page, pool.order[page])}
    BY <2>2 DEF Blk
  <2> QED
    BY <2>1, <2>3
<1> QED
  BY <1>1, <1>3, <1>4 DEF Allocator!Free

\* A step of the buddy allocator is a step of the page allocator, or a stutter.
LEMMA AllocatorSteps ==
  ASSUME BuddyInv, [Next]_buddy
  PROVE  [Allocator!Next]_(Allocator!vars)
<1>1. BuddyInv'
  BY BuddyStep
<1>2. CASE UNCHANGED buddy
  BY <1>2 DEF buddy, Allocator!vars
<1>3. CASE \E order \in Orders : Get(order)
  BY <1>1, <1>3, GetIsGet DEF Allocator!Next, Orders
<1>4. CASE \E page \in held : Free(page)
  <2>1. PICK page \in held : Free(page)
    BY <1>4
  <2>2. PICK b \in {[head |-> Base + h, order |-> pool.order[h]] : h \in held} :
             b = Blk(page, pool.order[page])
    BY DEF Blk
  <2>3. Allocator!Free(b)
    BY <2>1, <2>2, FreeIsFree
  <2> QED
    BY <2>3 DEF Allocator!Next
<1> QED
  BY <1>2, <1>3, <1>4 DEF Next

\* buddy.c keeps what PageAllocator promises: it hands out aligned blocks that do not
\* overlap, and NULL only when no block of the order that was asked for is free.
THEOREM RefinesAllocator == Spec => ImplementsAllocator
<1>1. Init => Allocator!Init
  BY AllocatorBoots
<1>2. BuddyInv /\ [Next]_buddy => [Allocator!Next]_(Allocator!vars)
  BY AllocatorSteps
<1> QED
  BY <1>1, <1>2, BuddyInvariant, PTL DEF Spec, ImplementsAllocator, Allocator!Spec

-----------------------------------------------------------------------------
(* Sizes of kmalloc() *)

\* The size of a class doubles from each order to the next.
LEMMA OrderSizes ==
  /\ OrderToSize[0] = 1
  /\ \A n \in 0..30 : OrderToSize[n] \in Nat \ {0}
  /\ \A n \in 1..30 : OrderToSize[n] = 2 * OrderToSize[n - 1]
<1>1. 30 \in Nat /\ 2 \in Nat \ {0}
  OBVIOUS
<1>2. OrderToSize = Power(2, 30)
  BY Zenon DEF OrderToSize, Power
<1> QED
  BY <1>1, <1>2, Powers

\* A larger order has a size at least as large.
LEMMA OrdersGrow ==
  ASSUME NEW i \in 0..30, NEW j \in i..30
  PROVE  OrderToSize[i] <= OrderToSize[j]
<1> DEFINE Grown == {d \in Nat : i + d <= 30 => OrderToSize[i] <= OrderToSize[i + d]}
<1>1. 0 \in Grown
  BY OrderSizes
<1>2. ASSUME NEW d \in 1..(j - i), d - 1 \in Grown PROVE d \in Grown
  <2>1. /\ i + d \in 1..30 /\ i \in 0..30 /\ i + d - 1 \in 0..30 /\ i + (d - 1) = i + d - 1
        /\ i + (d - 1) <= 30
    OBVIOUS
  <2>2. /\ OrderToSize[i + d] = 2 * OrderToSize[i + d - 1]
        /\ OrderToSize[i + d - 1] \in Nat /\ OrderToSize[i] \in Nat
    BY <2>1, OrderSizes
  <2>3. OrderToSize[i] <= OrderToSize[i + d - 1]
    BY <1>2, <2>1
  <2>4. OrderToSize[i] <= OrderToSize[i + d]
    BY <2>2, <2>3
  <2> QED
    BY <2>4
<1>3. j - i \in Nat /\ j - i \in 0..(j - i) /\ i + (j - i) = j /\ j <= 30
  OBVIOUS
<1>4. 0..(j - i) \subseteq Grown
  <2> HIDE DEF Grown
  <2> QED
    BY <1>1, <1>2, <1>3, UpTo
<1> QED
  BY <1>3, <1>4

\* The chunks of the buddy allocator and the objects of slabs have the same sizes.
LEMMA ChunksAreOrders ==
  ASSUME NEW n \in 0..MaxOrder, n <= 30
  PROVE  ChunkSize[n] = OrderToSize[n]
<1> DEFINE Same == {d \in Nat : d <= n => ChunkSize[d] = OrderToSize[d]}
<1>1. 0 \in Same
  BY ChunkSizes, OrderSizes
<1>2. ASSUME NEW d \in 1..n, d - 1 \in Same PROVE d \in Same
  <2>1. d \in 1..MaxOrder /\ d \in 1..30 /\ d - 1 <= n
    BY PoolAssumption
  <2>2. ChunkSize[d] = 2 * ChunkSize[d - 1] /\ OrderToSize[d] = 2 * OrderToSize[d - 1]
    BY <2>1, ChunkSizes, OrderSizes
  <2> QED
    BY <1>2, <2>1, <2>2
<1>3. n \in Nat /\ n \in 0..n
  BY PoolAssumption
<1>4. 0..n \subseteq Same
  <2> HIDE DEF Same
  <2> QED
    BY <1>1, <1>2, <1>3, UpTo
<1> QED
  BY <1>3, <1>4

\* The loop of size_to_order() shifts one bit out in each turn.
LEMMA HalvedIs ==
  ASSUME NEW size \in Nat
  PROVE  /\ Halved(size)[0] = size
         /\ \A n \in 0..30 : Halved(size)[n] \in Nat
         /\ \A n \in 1..30 : Halved(size)[n] = Halved(size)[n - 1] \div 2
<1> DEFINE E == [n \in 0..30 |-> Nat]
           G == [n \in 1..30 |-> [x \in Nat |-> x \div 2]]
           Body(f, n) == IF n = 0 THEN size ELSE f[n - 1] \div 2
           t == Halved(size)
<1>1. 30 \in Nat /\ size \in E[0] /\ \A n \in 1..30 : \A x \in E[n - 1] : G[n][x] \in E[n]
  <2>1. size \in E[0]
    OBVIOUS
  <2>2. ASSUME NEW n \in 1..30, NEW x \in E[n - 1] PROVE G[n][x] \in E[n]
    <3>1. n - 1 \in 0..30 /\ n \in 0..30
      OBVIOUS
    <3>2. x \in Nat /\ x \div 2 \in Nat
      BY <2>2, <3>1
    <3> QED
      BY <3>1, <3>2
  <2> QED
    BY <2>1, <2>2
<1>2. PICK f : Recursive(f, 30, size, G) /\ \A n \in 0..30 : f[n] \in E[n]
  <2> HIDE DEF E, G
  <2> QED
    BY <1>1, RecursionIs
<1>3. \A n \in 0..30 : n # 0 => G[n][f[n - 1]] = f[n - 1] \div 2
  <2> SUFFICES ASSUME NEW n \in 0..30, n # 0 PROVE G[n][f[n - 1]] = f[n - 1] \div 2
    OBVIOUS
  <2>1. n \in 1..30 /\ n - 1 \in 0..30
    OBVIOUS
  <2>2. f[n - 1] \in Nat
    BY <1>2, <2>1
  <2> QED
    BY <2>1, <2>2
<1>4. f = [n \in 0..30 |-> Body(f, n)]
  <2> HIDE DEF G
  <2> QED
    BY <1>2, <1>3 DEF Recursive
<1>5. t = [n \in 0..30 |-> Body(t, n)]
  <2>1. t = CHOOSE g : g = [n \in 0..30 |-> Body(g, n)]
    BY Zenon DEF Halved
  <2> HIDE DEF t, Body
  <2> QED
    BY <1>4, <2>1, Zenon
<1> HIDE DEF t
<1>6. \A n \in 0..30 : t[n] = IF n = 0 THEN size ELSE t[n - 1] \div 2
  BY <1>5
<1>7. 0..30 \subseteq {n \in 0..30 : t[n] \in Nat}
  <2> DEFINE Typed == {n \in 0..30 : t[n] \in Nat}
  <2>1. 0 \in Typed
    BY <1>6
  <2>2. ASSUME NEW n \in 1..30, n - 1 \in Typed PROVE n \in Typed
    <3>1. n \in 0..30 /\ n # 0 /\ t[n - 1] \in Nat
      BY <2>2
    <3>2. t[n] = t[n - 1] \div 2
      BY <1>6, <3>1
    <3> QED
      BY <3>1, <3>2
  <2> HIDE DEF Typed
  <2>3. 0..30 \subseteq Typed
    BY <1>1, <2>1, <2>2, UpTo
  <2> QED
    BY <2>3 DEF Typed
<1>8. /\ t[0] = size /\ \A n \in 0..30 : t[n] \in Nat
      /\ \A n \in 1..30 : t[n] = t[n - 1] \div 2
  BY <1>6, <1>7
<1> QED
  BY <1>8 DEF t

\* Its result is the least order whose size is large enough.
LEMMA SizeFits ==
  ASSUME NEW size \in 1..OrderToSize[30]
  PROVE  /\ SizeToOrder(size) \in 0..30 /\ size <= OrderToSize[SizeToOrder(size)]
         /\ \A k \in 0..30 : size <= OrderToSize[k] => SizeToOrder(size) <= k
<1> DEFINE t == Halved(size)
           p == OrderToSize
           Turns == {turn \in 0..30 : t[turn] <= 1}
<1>1. /\ t[0] = size /\ \A n \in 0..30 : t[n] \in Nat
      /\ \A n \in 1..30 : t[n] = t[n - 1] \div 2
  BY HalvedIs
<1>2. /\ p[0] = 1 /\ \A n \in 0..30 : p[n] \in Nat \ {0}
      /\ \A n \in 1..30 : p[n] = 2 * p[n - 1]
  BY OrderSizes
<1>3. \A i \in 0..30 : \A j \in i..30 : p[i] <= p[j]
  BY OrdersGrow
<1>4. SizeToOrder(size) = IF size > p[Min(Turns)] THEN Min(Turns) + 1 ELSE Min(Turns)
  BY DEF SizeToOrder
<1> HIDE DEF t, p
<1>5. ASSUME NEW n \in 0..30 PROVE t[n] * p[n] <= size /\ size < (t[n] + 1) * p[n]
  <2> DEFINE Held == {m \in 0..30 : t[m] * p[m] <= size /\ size < (t[m] + 1) * p[m]}
  <2>1. 0 \in Held
    BY <1>1, <1>2
  <2>2. ASSUME NEW m \in 1..30, m - 1 \in Held PROVE m \in Held
    <3> DEFINE x == t[m - 1]
               y == p[m - 1]
               q == x \div 2
    <3>1. x \in Nat /\ y \in Nat /\ m \in 0..30 /\ t[m] = q /\ p[m] = 2 * y
      <4>1. m - 1 \in 0..30 /\ m \in 0..30
        OBVIOUS
      <4> QED
        BY <1>1, <1>2, <4>1
    <3>2. x * y <= size /\ size < (x + 1) * y
      BY <2>2
    <3>3. q \in Nat /\ 2 * q <= x /\ x + 1 <= 2 * q + 2
      BY <3>1
    <3> HIDE DEF x, y, q
    <3>4. (2 * q) * y <= x * y /\ (x + 1) * y <= (2 * q + 2) * y
      BY <3>1, <3>3
    <3>5. (2 * q) * y = q * (2 * y) /\ (2 * q + 2) * y = (q + 1) * (2 * y)
      BY <3>1, <3>3
    <3>6. x * y \in Int /\ (x + 1) * y \in Int /\ q * (2 * y) \in Int /\ (q + 1) * (2 * y) \in Int
      BY <3>1, <3>3
    <3>7. q * (2 * y) <= size /\ size < (q + 1) * (2 * y)
      BY <3>2, <3>4, <3>5, <3>6
    <3> QED
      BY <3>1, <3>7
  <2>3. 30 \in Nat
    OBVIOUS
  <2> HIDE DEF Held
  <2>4. 0..30 \subseteq Held
    BY <2>1, <2>2, <2>3, UpTo
  <2> QED
    BY <2>4 DEF Held
<1>6. t[30] <= 1
  <2>1. t[30] \in Nat /\ p[30] \in Nat \ {0} /\ size <= p[30] /\ t[30] * p[30] <= size
    BY <1>1, <1>2, <1>5 DEF p
  <2>2. ASSUME t[30] >= 2 PROVE FALSE
    <3>1. 2 * p[30] <= t[30] * p[30]
      BY <2>1, <2>2
    <3> QED
      BY <2>1, <3>1
  <2> QED
    BY <2>1, <2>2
<1> DEFINE m == Min(Turns)
<1>7. m \in Turns /\ \A n \in Turns : m <= n
  <2>1. 30 \in Turns /\ Turns \subseteq Nat
    BY <1>6
  <2> HIDE DEF Turns
  <2>2. \E n \in Turns : \A o \in Turns : n <= o
    BY <2>1, LeastNat
  <2> QED
    BY <2>2 DEF Min
<1>8. m \in 0..30 /\ t[m] <= 1 /\ \A n \in 0..30 : t[n] <= 1 => m <= n
  <2> HIDE DEF m
  <2> QED
    BY <1>6, <1>7
<1> HIDE DEF m, Turns
<1>9. t[m] = 1
  <2>0. t[m] \in Nat /\ t[m] <= 1
    BY <1>1, <1>8
  <2> SUFFICES ASSUME t[m] = 0 PROVE FALSE
    BY <2>0
  <2>1. m # 0
    <3>1. size # 0
      BY <1>2 DEF p
    <3> QED
      BY <1>1, <3>1
  <2>2. m \in 1..30 /\ m - 1 \in 0..30
    BY <1>8, <2>1
  <2>3. t[m - 1] \in Nat /\ t[m - 1] \div 2 = 0
    BY <1>1, <2>2
  <2>4. t[m - 1] <= 1
    BY <2>3
  <2> QED
    BY <1>8, <2>2, <2>4
<1>10. /\ m \in 0..30 /\ p[m] \in Nat /\ p[m] <= size /\ size < 2 * p[m]
  <2>1. m \in 0..30
    BY <1>8
  <2>2. p[m] \in Nat /\ t[m] * p[m] <= size /\ size < (t[m] + 1) * p[m]
    BY <1>2, <1>5, <2>1
  <2>3. 1 * p[m] <= size /\ size < 2 * p[m]
    BY <1>9, <2>2
  <2> QED
    BY <2>1, <2>2, <2>3
<1>11. ASSUME NEW k \in 0..30, p[m] <= p[k] PROVE m <= k
  <2> SUFFICES ASSUME k < m PROVE FALSE
    BY <1>10
  <2>1. k + 1 \in 1..30 /\ (k + 1) - 1 = k /\ k + 1 \in 0..30 /\ m \in (k + 1)..30
    BY <1>10
  <2>2. p[k + 1] = 2 * p[k] /\ p[k + 1] <= p[m] /\ p[k] \in Nat \ {0} /\ p[m] \in Nat
    BY <1>2, <1>3, <1>10, <2>1
  <2> QED
    BY <1>11, <2>2
<1>12. CASE size > p[m]
  <2>1. SizeToOrder(size) = m + 1
    BY <1>4, <1>12 DEF m
  <2>2. ASSUME NEW k \in 0..30, size <= p[k] PROVE m + 1 <= k
    <3>1. p[k] \in Nat /\ p[m] < p[k] /\ m \in Int /\ k \in Int
      BY <1>2, <1>10, <1>12, <2>2
    <3>2. m <= k /\ m # k
      BY <1>10, <1>11, <3>1
    <3> QED
      BY <3>1, <3>2
  <2>3. m + 1 \in 0..30 /\ size <= p[m + 1]
    <3>1. m # 30
      <4>1. size \in Int /\ p[30] \in Int /\ size <= p[30]
        BY <1>2 DEF p
      <4> QED
        BY <1>12, <4>1
    <3>2. m + 1 \in 1..30 /\ (m + 1) - 1 = m
      BY <1>10, <3>1
    <3>3. p[m + 1] = 2 * p[m]
      BY <1>2, <3>2
    <3> QED
      BY <1>10, <3>2, <3>3
  <2> QED
    BY <2>1, <2>2, <2>3 DEF p
<1>13. CASE ~(size > p[m])
  <2>1. SizeToOrder(size) = m
    BY <1>4, <1>13 DEF m
  <2>2. size = p[m]
    BY <1>10, <1>13
  <2>3. size <= p[m]
    BY <1>10, <2>2
  <2> QED
    BY <1>10, <1>11, <2>1, <2>2, <2>3 DEF p
<1> QED
  BY <1>12, <1>13

-----------------------------------------------------------------------------
(* The memory of pages and slabs *)

\* The objects of a slab; the first place is that of its header.
ObjectAt(head, class, i) == PageToVirt(head) + i * OrderToSize[class]
Count(class) == (ChunkSize[SlabPages] * PageSize) \div OrderToSize[class] - 1
Objects(head, class) == {ObjectAt(head, class, i) : i \in 1..Count(class)}

\* A slab of any class holds its header and at least one object, and all of them fit.
LEMMA ClassesAre ==
  ASSUME NEW class \in Classes
  PROVE  /\ class \in 0..30 /\ OrderToSize[class] \in Nat \ {0}
         /\ PageSize \in Nat \ {0} /\ ChunkSize[SlabPages] \in Nat \ {0}
         /\ Count(class) \in Nat \ {0}
         /\ (Count(class) + 1) * OrderToSize[class] <= ChunkSize[SlabPages] * PageSize
<1> DEFINE s == OrderToSize[class]
           c == ChunkSize[SlabPages]
<1>1. class \in 0..30 /\ SlabMax \in 0..30 /\ class <= SlabMax
  BY SizesAssumption DEF Classes
<1>2. s \in Nat \ {0} /\ OrderToSize[SlabMax] \in Nat /\ s <= OrderToSize[SlabMax]
  <2>1. SlabMax \in class..30
    BY <1>1
  <2> QED
    BY <1>1, <2>1, OrderSizes, OrdersGrow
<1>3. c \in Nat \ {0}
  BY SizesAssumption, PoolAssumption, ChunkSizes DEF Orders
<1>4. PageSize \in Nat \ {0} /\ 2 * s <= PageSize
  BY <1>2, SizesAssumption
<1> HIDE DEF s, c
<1>5. c * PageSize \in Nat /\ 2 * s <= c * PageSize
  <2>1. 1 * PageSize <= c * PageSize /\ c * PageSize \in Nat
    BY <1>3, <1>4
  <2> QED
    BY <1>2, <1>4, <2>1
<1> DEFINE q == (c * PageSize) \div s
<1>6. q \in Nat /\ q * s <= c * PageSize /\ c * PageSize < (q + 1) * s
  BY <1>2, <1>5
<1> HIDE DEF q
<1>7. 2 <= q
  <2>1. 2 * s < (q + 1) * s
    BY <1>2, <1>5, <1>6
  <2>2. 2 < q + 1
    BY <1>2, <1>6, <2>1, Cancel
  <2> QED
    BY <1>6, <2>2
<1>8. Count(class) = q - 1
  BY DEF Count, q, c, s
<1> QED
  BY <1>1, <1>2, <1>3, <1>4, <1>6, <1>7, <1>8 DEF s, c

\* virt_to_page() of an address in a run of pages.
LEMMA PageOfByte ==
  ASSUME NEW h \in Nat, NEW n \in Nat, NEW b \in Int, PageSize \in Nat \ {0}
  PROVE  /\ VirtToPage(b) \in Int
         /\ VirtToPage(b) \in h..(h + n - 1)
               <=> PageToVirt(h) <= b /\ b < PageToVirt(h) + n * PageSize
<1> DEFINE s == PageSize
           q == b \div s
<1>1. q \in Int /\ q * s <= b /\ b < (q + 1) * s
  BY Z3T(30)
<1> HIDE DEF q
<1>2. h * s \in Int /\ (h + n) * s = h * s + n * s /\ (h + n) * s \in Int /\ q * s \in Int
      /\ (q + 1) * s \in Int
  BY <1>1
<1>3. ASSUME q \in h..(h + n - 1) PROVE h * s <= b /\ b < h * s + n * s
  <2>1. h * s <= q * s /\ (q + 1) * s <= (h + n) * s
    BY <1>1, <1>3
  <2> QED
    BY <1>1, <1>2, <2>1
<1>4. ASSUME h * s <= b, b < h * s + n * s PROVE q \in h..(h + n - 1)
  <2>1. h * s < (q + 1) * s /\ q * s < (h + n) * s
    BY <1>1, <1>2, <1>4
  <2>2. h < q + 1 /\ q < h + n
    BY <1>1, <2>1, Cancel
  <2> QED
    BY <1>1, <2>2
<1> QED
  BY <1>1, <1>3, <1>4 DEF PageToVirt, VirtToPage, q

\* An address where a page starts.
LEMMA PageStart ==
  ASSUME NEW h \in Nat
  PROVE  PageToVirt(h) \in Nat /\ VirtToPage(PageToVirt(h)) = h
<1>1. PageSize \in Nat \ {0}
  BY SizesAssumption, OrderSizes
<1>2. PICK b \in Nat : b = PageToVirt(h)
  BY <1>1 DEF PageToVirt
<1>3. b \in Int /\ 1 \in Nat /\ PageToVirt(h) <= b /\ b < PageToVirt(h) + 1 * PageSize
  BY <1>1, <1>2
<1>4. VirtToPage(b) \in h..(h + 1 - 1)
  BY <1>1, <1>3, PageOfByte
<1> QED
  BY <1>2, <1>4

\* The objects of a slab and its header lie in its pages,
LEMMA ObjectInSlab ==
  ASSUME NEW class \in Classes, NEW h \in Pages, NEW i \in 0..Count(class),
         NEW b \in ObjectAt(h, class, i)..(ObjectAt(h, class, i) + OrderToSize[class] - 1)
  PROVE  ObjectAt(h, class, i) \in Nat /\ b \in Nat /\ VirtToPage(b) \in Span(h, SlabPages)
<1> DEFINE s == OrderToSize[class]
           c == ChunkSize[SlabPages]
           n == Count(class)
<1>1. /\ s \in Nat \ {0} /\ PageSize \in Nat \ {0} /\ c \in Nat \ {0} /\ n \in Nat
      /\ (n + 1) * s <= c * PageSize /\ h \in Nat
  BY ClassesAre DEF Pages
<1>2. i \in Nat /\ i <= n /\ i * s \in Nat /\ PageToVirt(h) \in Nat
  BY <1>1 DEF PageToVirt
<1>3. ObjectAt(h, class, i) = PageToVirt(h) + i * s
  BY DEF ObjectAt
<1> HIDE DEF s, c, n
<1>4. i * s + s = (i + 1) * s /\ (i + 1) * s <= (n + 1) * s /\ (i + 1) * s \in Nat
      /\ (n + 1) * s \in Nat /\ c * PageSize \in Nat
  BY <1>1, <1>2
<1>5. b \in PageToVirt(h) + i * s..(PageToVirt(h) + i * s + s - 1)
  BY <1>3 DEF s
<1>6. b \in Int /\ PageToVirt(h) <= b /\ b < PageToVirt(h) + c * PageSize
  BY <1>1, <1>2, <1>4, <1>5
<1>7. VirtToPage(b) \in h..(h + c - 1)
  BY <1>1, <1>6, PageOfByte
<1> QED
  BY <1>1, <1>2, <1>3, <1>6, <1>7 DEF Span, c

\*   and are apart.
LEMMA ObjectsApart ==
  ASSUME NEW class \in Classes, NEW h \in Pages, NEW i \in Nat, NEW j \in Nat, NEW b \in Int,
         b \in ObjectAt(h, class, i)..(ObjectAt(h, class, i) + OrderToSize[class] - 1),
         b \in ObjectAt(h, class, j)..(ObjectAt(h, class, j) + OrderToSize[class] - 1)
  PROVE  i = j
<1> DEFINE s == OrderToSize[class]
           a == PageToVirt(h)
<1>1. s \in Nat \ {0} /\ a \in Int
  BY ClassesAre DEF PageToVirt, Pages
<1>2. /\ b \in (a + i * s)..(a + i * s + s - 1)
      /\ b \in (a + j * s)..(a + j * s + s - 1)
  BY DEF ObjectAt
<1> HIDE DEF s, a
<1>3. /\ i * s \in Int /\ j * s \in Int /\ (i + 1) * s = i * s + s /\ (j + 1) * s = j * s + s
  BY <1>1
<1>4. i * s < (j + 1) * s /\ j * s < (i + 1) * s
  BY <1>1, <1>2, <1>3
<1>5. i < j + 1 /\ j < i + 1
  BY <1>1, <1>4, Cancel
<1> QED
  BY <1>5

\* The objects of a slab are at its numbered places, each inside the chunk of the slab.
LEMMA ObjectsAre ==
  ASSUME NEW class \in Classes, NEW h \in Pages, NEW a \in Objects(h, class)
  PROVE  \E i \in 1..Count(class) :
            /\ i \in 0..Count(class) /\ i \in Nat /\ a = ObjectAt(h, class, i)
            /\ a \in a..(a + OrderToSize[class] - 1) /\ a \in Nat
            /\ VirtToPage(a) \in Span(h, SlabPages)
<1>1. PICK i \in 1..Count(class) : a = ObjectAt(h, class, i)
  BY DEF Objects
<1>2. OrderToSize[class] \in Nat \ {0} /\ Count(class) \in Nat
  BY ClassesAre
<1>3. i \in 0..Count(class) /\ i \in Nat
  BY <1>2
<1>4. a \in Nat
  <2>1. PageToVirt(h) \in Nat /\ i * OrderToSize[class] \in Nat
    BY <1>2, <1>3, PageStart DEF Pages
  <2> QED
    BY <1>1, <2>1 DEF ObjectAt
<1>5. a \in a..(a + OrderToSize[class] - 1)
  BY <1>2, <1>4
<1>6. VirtToPage(a) \in Span(h, SlabPages)
  BY <1>1, <1>3, <1>5, ObjectInSlab
<1> QED
  BY <1>1, <1>3, <1>4, <1>5, <1>6

\* init_slab_cache() links the objects of the slab, each once.
LEMMA NewSlotsAre ==
  ASSUME NEW class \in Classes, NEW h \in Pages
  PROVE  /\ ListOf(NewSlots(h, class), Objects(h, class))
         /\ Len(NewSlots(h, class)) = Count(class)
<1> DEFINE s == OrderToSize[class]
           n == Count(class)
           new == NewSlots(h, class)
<1>1. n \in Nat \ {0}
  BY ClassesAre
<1>2. new = [i \in 1..n |-> ObjectAt(h, class, i)]
  BY DEF NewSlots, ObjectAt, Count
<1>3. \A a : a \in Objects(h, class) <=> \E i \in 1..n : a = ObjectAt(h, class, i)
  BY DEF Objects
<1> HIDE DEF new, n
<1>4. new \in Seq(Objects(h, class)) /\ Len(new) = n
  BY <1>1, <1>2, <1>3
<1>5. ASSUME NEW i \in 1..n, NEW j \in 1..n, new[i] = new[j] PROVE i = j
  <2> DEFINE a == ObjectAt(h, class, i)
  <2>1. a = ObjectAt(h, class, j) /\ a \in Objects(h, class) /\ i \in Nat /\ j \in Nat
    BY <1>1, <1>2, <1>3, <1>5
  <2>2. a \in a..(a + OrderToSize[class] - 1) /\ a \in Int
    BY <2>1, ObjectsAre
  <2> QED
    BY <2>1, <2>2, ObjectsApart
<1>6. IsInjective(new)
  BY <1>1, <1>2, <1>5 DEF IsInjective
<1>7. \A a \in Objects(h, class) : \E i \in 1..Len(new) : new[i] = a
  BY <1>2, <1>3, <1>4
<1> QED
  BY <1>4, <1>6, <1>7 DEF ListOf, new, n

-----------------------------------------------------------------------------
(* What kmalloc() keeps *)

\* The chunks of callers do not share pages.
Apart(H, ord) ==
    /\ \A h \in H : /\ h \in Pages /\ h \in Nat /\ ord[h] \in Orders /\ ord[h] \in 0..MaxOrder
                    /\ h \in Span(h, ord[h]) /\ Span(h, ord[h]) \subseteq Pages
    /\ \A h, g \in H : \A x : x \in Span(h, ord[h]) /\ x \in Span(g, ord[g]) => h = g

\* S[class] has the slabs of a class; the pages of each, and no others, point to it.
SlabsFit(H, ord, S, sl) ==
    /\ \A c \in Classes : \A h \in S[c] :
          /\ h \in H /\ ord[h] = SlabPages
          /\ \A page \in Span(h, SlabPages) : sl[page] = h
    /\ \A c, d \in Classes : \A h \in S[c] : h \in S[d] => c = d
    /\ \A page \in Pages : sl[page] # NULL =>
          /\ page \in Span(sl[page], SlabPages)
          /\ \E c \in Classes : sl[page] \in S[c]

InUse(L) == {o.addr : o \in L}

\* The objects of a slab are on its free list or in use.
Shared(objects, list, L) ==
    \E F : /\ ListOf(list, F) /\ F \subseteq objects
           /\ \A a \in F : a \notin InUse(L)
           /\ \A a \in objects : a \in F \/ a \in InUse(L)

FreeFit(S, ss, L) ==
    \A c \in Classes : \A h \in S[c] : Shared(Objects(h, c), ss[h], L)

\* What a caller has is an object of a slab or whole pages.
InSlab(S, o) ==
    \E c \in Classes : \E h \in S[c] : o.addr \in Objects(h, c) /\ o.size <= OrderToSize[c]
InPages(H, ord, S, o) ==
    \E h \in H : /\ \A c \in Classes : h \notin S[c]
                 /\ o.addr = PageToVirt(h) /\ o.size <= ChunkSize[ord[h]] * PageSize

LiveFit(H, ord, S, L) ==
    /\ \A o \in L : o.size \in Nat /\ (InSlab(S, o) \/ InPages(H, ord, S, o))
    /\ \A o, p \in L : o.addr = p.addr => o = p
    /\ \A h \in H : (\E c \in Classes : h \in S[c]) \/ PageToVirt(h) \in InUse(L)

HeapFits(H, ord, S, sl, ss, L) ==
    SlabsFit(H, ord, S, sl) /\ FreeFit(S, ss, L) /\ LiveFit(H, ord, S, L)

SlabSets == [class \in Classes |-> ToSet(slabs[class])]

KmallocInv ==
    /\ BuddyInv
    /\ slabs \in [Classes -> Seq(Pages)]
    /\ slots = [page \in Pages |-> slots[page]]
    /\ slab \in [Pages -> Pages \cup {NULL}]
    /\ HeapFits(held, pool.order, SlabSets, slab, slots, live)

\* Chunks that are held in a pool at rest share no page.
LEMMA HeldApart ==
  ASSUME NEW p, NEW H, Resting(p, H, p.order)
  PROVE  Apart(H, p.order)
<1>1. PICK F : Fits(p, F, H)
  BY DEF Resting
<1>2. Tiles(p.order, F \cup H)
  BY <1>1 DEF Fits
<1>3. Orders \subseteq 0..MaxOrder /\ Pages \subseteq Nat
  BY OrdersAre DEF Pages
<1> QED
  BY <1>2, <1>3 DEF Apart, Tiles

\* NULL is not the head of a chunk.
LEMMA NullIsNoPage == NULL \notin Pages
BY DEF NULL, Pages

\* The slab of an object is that of its page.
LEMMA SlabOf ==
  ASSUME NEW H, NEW ord, NEW S, NEW sl, SlabsFit(H, ord, S, sl), Apart(H, ord),
         NEW c \in Classes, NEW h \in S[c], NEW a \in Objects(h, c)
  PROVE  /\ a \in Nat /\ VirtToPage(a) \in Pages /\ sl[VirtToPage(a)] = h /\ h \in H
         /\ h \in Pages /\ VirtToPage(a) \in Span(h, ord[h])
<1>1. h \in H /\ h \in Pages /\ ord[h] = SlabPages /\ Span(h, SlabPages) \subseteq Pages
  BY DEF SlabsFit, Apart
<1>2. a \in Nat /\ VirtToPage(a) \in Span(h, SlabPages)
  BY <1>1, ObjectsAre
<1>3. sl[VirtToPage(a)] = h
  BY <1>2 DEF SlabsFit
<1> QED
  BY <1>1, <1>2, <1>3

\* An object belongs to one slab.
LEMMA OneSlab ==
  ASSUME NEW H, NEW ord, NEW S, NEW sl, SlabsFit(H, ord, S, sl), Apart(H, ord),
         NEW c \in Classes, NEW h \in S[c], NEW a, a \in Objects(h, c),
         NEW d \in Classes, NEW g \in S[d], a \in Objects(g, d)
  PROVE  h = g /\ c = d
<1>1. h = g
  BY SlabOf
<1> QED
  BY <1>1 DEF SlabsFit

\* Every object in use has its address in a chunk that is held.
LEMMA AddrHome ==
  ASSUME NEW H, NEW ord, NEW S, NEW sl, NEW L, SlabsFit(H, ord, S, sl), Apart(H, ord),
         LiveFit(H, ord, S, L), NEW o \in L
  PROVE  \E h \in H : VirtToPage(o.addr) \in Span(h, ord[h])
<1>1. CASE InSlab(S, o)
  <2>1. PICK c \in Classes : \E h \in S[c] : o.addr \in Objects(h, c)
    BY <1>1 DEF InSlab
  <2>2. PICK h \in S[c] : o.addr \in Objects(h, c)
    BY <2>1
  <2> QED
    BY <2>2, SlabOf
<1>2. CASE InPages(H, ord, S, o)
  <2>1. PICK h \in H : o.addr = PageToVirt(h)
    BY <1>2 DEF InPages
  <2>2. h \in Nat /\ h \in Span(h, ord[h])
    BY DEF Apart
  <2> QED
    BY <2>1, <2>2, PageStart
<1> QED
  BY <1>1, <1>2 DEF LiveFit

\* Whole pages are not in a slab.
LEMMA PagesAlone ==
  ASSUME NEW H, NEW ord, NEW S, NEW sl, SlabsFit(H, ord, S, sl), Apart(H, ord),
         NEW h \in H, \A c \in Classes : h \notin S[c]
  PROVE  /\ sl[h] = NULL /\ VirtToPage(PageToVirt(h)) = h
         /\ \A c \in Classes : \A g \in S[c] : PageToVirt(h) \notin Objects(g, c)
<1>1. h \in Pages /\ h \in Nat /\ h \in Span(h, ord[h]) /\ VirtToPage(PageToVirt(h)) = h
  BY PageStart DEF Apart
<1>2. sl[h] = NULL
  <2> SUFFICES ASSUME sl[h] # NULL PROVE FALSE
    OBVIOUS
  <2>1. h \in Span(sl[h], SlabPages) /\ \E c \in Classes : sl[h] \in S[c]
    BY <1>1 DEF SlabsFit
  <2>2. PICK c \in Classes : sl[h] \in S[c]
    BY <2>1
  <2>3. sl[h] \in H /\ ord[sl[h]] = SlabPages
    BY <2>2 DEF SlabsFit
  <2>4. sl[h] = h
    BY <1>1, <2>1, <2>3 DEF Apart
  <2> QED
    BY <2>2, <2>4
<1>3. ASSUME NEW c \in Classes, NEW g \in S[c], PageToVirt(h) \in Objects(g, c) PROVE FALSE
  <2>1. sl[h] = g /\ g \in Pages
    BY <1>1, <1>3, SlabOf
  <2> QED
    BY <1>2, <2>1, NullIsNoPage
<1> QED
  BY <1>1, <1>2, <1>3

\* The addresses in use when one object is handed out or given back.
LEMMA InUseWith ==
  ASSUME NEW L, NEW o
  PROVE  /\ InUse(L \cup {o}) = InUse(L) \cup {o.addr}
         /\ InUse(L \ {o}) \subseteq InUse(L)
         /\ (\A x, y \in L : x.addr = y.addr => x = y) /\ o \in L
               => InUse(L \ {o}) = InUse(L) \ {o.addr}
BY DEF InUse

\* The free list of a slab is taken from and given back to,
LEMMA SharedTaken ==
  ASSUME NEW objects, NEW list, NEW L, Shared(objects, list, L), list # <<>>,
         NEW o, o.addr = Head(list)
  PROVE  /\ Shared(objects, Tail(list), L \cup {o})
         /\ o.addr \in objects /\ o.addr \notin InUse(L)
<1>1. PICK F : /\ ListOf(list, F) /\ F \subseteq objects
               /\ \A a \in F : a \notin InUse(L)
               /\ \A a \in objects : a \in F \/ a \in InUse(L)
  BY DEF Shared
<1>2. ListOf(Tail(list), F \ {Head(list)}) /\ Head(list) \in F
  BY <1>1, ListTail
<1>3. InUse(L \cup {o}) = InUse(L) \cup {o.addr}
  BY InUseWith
<1> DEFINE G == F \ {o.addr}
<1>4. /\ ListOf(Tail(list), G) /\ G \subseteq objects
      /\ \A a \in G : a \notin InUse(L \cup {o})
      /\ \A a \in objects : a \in G \/ a \in InUse(L \cup {o})
  BY <1>1, <1>2, <1>3
<1> HIDE DEF G
<1> QED
  BY <1>1, <1>2, <1>4 DEF Shared

\* A freed object goes from the live ones to the free list of its slab.
LEMMA SharedGiven ==
  ASSUME NEW objects, NEW list, NEW L, Shared(objects, list, L), NEW o \in L,
         o.addr \in objects, \A x, y \in L : x.addr = y.addr => x = y
  PROVE  Shared(objects, <<o.addr>> \o list, L \ {o})
<1>1. PICK F : /\ ListOf(list, F) /\ F \subseteq objects
               /\ \A a \in F : a \notin InUse(L)
               /\ \A a \in objects : a \in F \/ a \in InUse(L)
  BY DEF Shared
<1>2. InUse(L \ {o}) = InUse(L) \ {o.addr} /\ o.addr \in InUse(L)
  BY InUseWith DEF InUse
<1> DEFINE G == F \cup {o.addr}
<1>3. ListOf(<<o.addr>> \o list, G)
  BY <1>1, <1>2, ListWith
<1>4. /\ G \subseteq objects
      /\ \A a \in G : a \notin InUse(L \ {o})
      /\ \A a \in objects : a \in G \/ a \in InUse(L \ {o})
  BY <1>1, <1>2
<1> HIDE DEF G
<1> QED
  BY <1>3, <1>4 DEF Shared

\*   and what happens to other objects does not touch it.
LEMMA SharedKept ==
  ASSUME NEW objects, NEW list, NEW L, Shared(objects, list, L), NEW L2,
         \A a \in objects : a \in InUse(L2) <=> a \in InUse(L)
  PROVE  Shared(objects, list, L2)
<1>1. PICK F : /\ ListOf(list, F) /\ F \subseteq objects
               /\ \A a \in F : a \notin InUse(L)
               /\ \A a \in objects : a \in F \/ a \in InUse(L)
  BY DEF Shared
<1>2. /\ \A a \in F : a \notin InUse(L2)
      /\ \A a \in objects : a \in F \/ a \in InUse(L2)
  BY <1>1
<1> QED
  BY <1>1, <1>2 DEF Shared

-----------------------------------------------------------------------------
(* What each call changes *)

\* Only the free list of one slab changes.
Relinked(ss, ss2, h, list) ==
    (h \in Pages => ss2[h] = list) /\ \A page \in Pages \ {h} : ss2[page] = ss[page]

\* alloc_in_slab() takes the first free object of a slab.
LEMMA TakenFits ==
  ASSUME NEW H, NEW ord, NEW S, NEW sl, NEW ss, NEW L, HeapFits(H, ord, S, sl, ss, L),
         Apart(H, ord), NEW c \in Classes, NEW h \in S[c], ss[h] # <<>>,
         NEW o, o.addr = Head(ss[h]), o.size \in Nat, o.size <= OrderToSize[c],
         NEW ss2, Relinked(ss, ss2, h, Tail(ss[h]))
  PROVE  HeapFits(H, ord, S, sl, ss2, L \cup {o})
<1> DEFINE L2 == L \cup {o}
<1>1. SlabsFit(H, ord, S, sl) /\ FreeFit(S, ss, L) /\ LiveFit(H, ord, S, L)
  BY DEF HeapFits
<1>2. /\ Shared(Objects(h, c), ss[h], L)
      /\ ss2[h] = Tail(ss[h]) /\ \A page \in Pages \ {h} : ss2[page] = ss[page]
  BY <1>1 DEF FreeFit, SlabsFit, Apart, Relinked
<1>3. /\ Shared(Objects(h, c), Tail(ss[h]), L2) /\ o.addr \in Objects(h, c)
      /\ o.addr \notin InUse(L)
  BY <1>2, SharedTaken
<1>4. InUse(L2) = InUse(L) \cup {o.addr}
  BY InUseWith
<1> HIDE DEF L2
<1>5. ASSUME NEW d \in Classes, NEW g \in S[d]
      PROVE  Shared(Objects(g, d), ss2[g], L2)
  <2>1. CASE g = h
    <3>1. c = d
      BY <1>1, <2>1 DEF SlabsFit
    <3> QED
      BY <1>2, <1>3, <2>1, <3>1
  <2>2. CASE g # h
    <3>1. Shared(Objects(g, d), ss[g], L) /\ g \in Pages
      BY <1>1 DEF FreeFit, SlabsFit, Apart
    <3>2. ss2[g] = ss[g]
      BY <1>2, <2>2, <3>1
    <3>3. o.addr \notin Objects(g, d)
      BY <1>1, <1>3, <2>2, OneSlab
    <3>4. \A a \in Objects(g, d) : a \in InUse(L2) <=> a \in InUse(L)
      BY <1>4, <3>3
    <3> QED
      BY <3>1, <3>2, <3>4, SharedKept
  <2> QED
    BY <2>1, <2>2
<1>6. LiveFit(H, ord, S, L2)
  <2>1. o.size \in Nat /\ InSlab(S, o)
    BY <1>3 DEF InSlab
  <2>2. \A p \in L : p.addr # o.addr
    BY <1>3 DEF InUse
  <2>3. \A p, q \in L2 : p.addr = q.addr => p = q
    BY <1>1, <2>2 DEF LiveFit, L2
  <2>4. \A p \in L2 : p.size \in Nat /\ (InSlab(S, p) \/ InPages(H, ord, S, p))
    BY <1>1, <2>1 DEF LiveFit, L2
  <2>5. \A g \in H : (\E d \in Classes : g \in S[d]) \/ PageToVirt(g) \in InUse(L2)
    BY <1>1, <1>4 DEF LiveFit
  <2> QED
    BY <2>3, <2>4, <2>5 DEF LiveFit
<1>7. FreeFit(S, ss2, L2)
  BY <1>5 DEF FreeFit
<1> QED
  BY <1>1, <1>6, <1>7 DEF HeapFits, L2

\* One more chunk: the others stay where they are.
Gained(H, ord, r, ord2) ==
    /\ r \notin H /\ Apart(H, ord) /\ Apart(H \cup {r}, ord2)
    /\ \A h \in H : ord2[h] = ord[h]

\* The chunk get_pages() gave is apart from every chunk, object and slab there was.
LEMMA GainedPages ==
  ASSUME NEW H, NEW ord, NEW r, NEW ord2, Gained(H, ord, r, ord2),
         NEW S, NEW sl, NEW L, SlabsFit(H, ord, S, sl), LiveFit(H, ord, S, L)
  PROVE  /\ \A h \in H : \A x : x \in Span(h, ord[h]) => x \notin Span(r, ord2[r])
         /\ \A o \in L : VirtToPage(o.addr) \notin Span(r, ord2[r])
         /\ \A c \in Classes : \A h \in S[c] : h # r
<1>1. ASSUME NEW h \in H, NEW x \in Span(h, ord[h]) PROVE x \notin Span(r, ord2[r])
  <2>1. x \in Span(h, ord2[h]) /\ h # r
    BY DEF Gained
  <2> QED
    BY <2>1 DEF Gained, Apart
<1>2. ASSUME NEW o \in L PROVE VirtToPage(o.addr) \notin Span(r, ord2[r])
  <2>1. PICK h \in H : VirtToPage(o.addr) \in Span(h, ord[h])
    BY AddrHome DEF Gained
  <2> QED
    BY <1>1, <2>1
<1>3. \A c \in Classes : \A h \in S[c] : h # r
  BY DEF Gained, SlabsFit
<1> QED
  BY <1>1, <1>2, <1>3

\* One more slab in a class.
Extended(S, S2, c, r) ==
    S2[c] = S[c] \cup {r} /\ \A d \in Classes \ {c} : S2[d] = S[d]

\* init_slab_cache(): the new slab has all its objects on its free list.
LEMMA GrownFits ==
  ASSUME NEW H, NEW ord, NEW S, NEW sl, NEW ss, NEW L, HeapFits(H, ord, S, sl, ss, L),
         NEW r, NEW ord2, Gained(H, ord, r, ord2), ord2[r] = SlabPages, NEW c \in Classes,
         NEW S2, Extended(S, S2, c, r), NEW ss2, Relinked(ss, ss2, r, NewSlots(r, c))
  PROVE  HeapFits(H \cup {r}, ord2, S2, Mark(sl, r), ss2, L)
<1> DEFINE H2 == H \cup {r}
           sl2 == Mark(sl, r)
<1>1. /\ SlabsFit(H, ord, S, sl) /\ FreeFit(S, ss, L) /\ LiveFit(H, ord, S, L)
      /\ Apart(H, ord) /\ Apart(H2, ord2) /\ r \notin H
      /\ \A h \in H : ord2[h] = ord[h]
  BY DEF HeapFits, Gained
<1>2. r \in Pages /\ r \in H2 /\ Span(r, SlabPages) \subseteq Pages
  BY <1>1 DEF Apart
<1>3. /\ \A page \in Span(r, SlabPages) : sl2[page] = r
      /\ \A page \in Pages : page \notin Span(r, SlabPages) => sl2[page] = sl[page]
  BY <1>2 DEF Mark, Span
<1>4. /\ \A h \in H : \A x : x \in Span(h, ord[h]) => x \notin Span(r, SlabPages)
      /\ \A o \in L : VirtToPage(o.addr) \notin Span(r, SlabPages)
      /\ \A d \in Classes : \A h \in S[d] : h # r
  BY <1>1, GainedPages
<1>5. \A d \in Classes : \A h : h \in S2[d] <=> h \in S[d] \/ (h = r /\ d = c)
  BY DEF Extended
<1> HIDE DEF H2, sl2
<1>6. SlabsFit(H2, ord2, S2, sl2)
  <2>1. ASSUME NEW d \in Classes, NEW h \in S2[d]
        PROVE  /\ h \in H2 /\ ord2[h] = SlabPages
               /\ \A page \in Span(h, SlabPages) : sl2[page] = h
    <3>1. CASE h = r
      BY <1>2, <1>3, <3>1
    <3>2. CASE h # r
      <4>1. h \in S[d]
        BY <1>5, <3>2
      <4>2. h \in H /\ ord[h] = SlabPages /\ ord2[h] = SlabPages
        BY <1>1, <4>1 DEF SlabsFit
      <4>3. ASSUME NEW page \in Span(h, SlabPages) PROVE sl2[page] = h
        <5>1. sl[page] = h
          BY <1>1, <4>1 DEF SlabsFit
        <5>2. page \in Pages /\ page \notin Span(r, SlabPages)
          BY <1>1, <1>4, <4>2 DEF Apart
        <5> QED
          BY <1>3, <5>1, <5>2
      <4> QED
        BY <4>2, <4>3 DEF H2
    <3> QED
      BY <3>1, <3>2
  <2>2. \A d, e \in Classes : \A h \in S2[d] : h \in S2[e] => d = e
    BY <1>1, <1>4, <1>5 DEF SlabsFit
  <2>3. ASSUME NEW page \in Pages, sl2[page] # NULL
        PROVE  /\ page \in Span(sl2[page], SlabPages)
               /\ \E d \in Classes : sl2[page] \in S2[d]
    <3>1. CASE page \in Span(r, SlabPages)
      BY <1>3, <1>5, <3>1
    <3>2. CASE page \notin Span(r, SlabPages)
      <4>1. sl2[page] = sl[page]
        BY <1>3, <3>2
      <4>2. page \in Span(sl[page], SlabPages) /\ \E d \in Classes : sl[page] \in S[d]
        BY <1>1, <2>3, <4>1 DEF SlabsFit
      <4> QED
        BY <1>5, <4>1, <4>2
    <3> QED
      BY <3>1, <3>2
  <2> QED
    BY <2>1, <2>2, <2>3 DEF SlabsFit
<1>7. FreeFit(S2, ss2, L)
  <2>1. Shared(Objects(r, c), ss2[r], L)
    <3>1. ListOf(NewSlots(r, c), Objects(r, c)) /\ ss2[r] = NewSlots(r, c)
      BY <1>2, NewSlotsAre DEF Relinked
    <3>2. ASSUME NEW a \in Objects(r, c) PROVE a \notin InUse(L)
      <4>1. VirtToPage(a) \in Span(r, SlabPages)
        BY <1>2, ObjectsAre
      <4> QED
        BY <1>4, <4>1 DEF InUse
    <3> QED
      BY <3>1, <3>2 DEF Shared
  <2>2. ASSUME NEW d \in Classes, NEW h \in S[d] PROVE Shared(Objects(h, d), ss2[h], L)
    <3>1. h \in Pages /\ h # r /\ Shared(Objects(h, d), ss[h], L)
      BY <1>1, <1>4 DEF SlabsFit, Apart, FreeFit
    <3> QED
      BY <3>1 DEF Relinked
  <2> QED
    BY <1>5, <2>1, <2>2 DEF FreeFit
<1>8. LiveFit(H2, ord2, S2, L)
  <2>1. ASSUME NEW o \in L PROVE o.size \in Nat /\ (InSlab(S2, o) \/ InPages(H2, ord2, S2, o))
    <3>1. o.size \in Nat
      BY <1>1 DEF LiveFit
    <3>2. CASE InSlab(S, o)
      BY <1>5, <3>1, <3>2 DEF InSlab
    <3>3. CASE InPages(H, ord, S, o)
      <4>1. PICK h \in H : /\ \A d \in Classes : h \notin S[d]
                           /\ o.addr = PageToVirt(h) /\ o.size <= ChunkSize[ord[h]] * PageSize
        BY <3>3 DEF InPages
      <4>2. h \in H2 /\ h # r /\ ord2[h] = ord[h]
        BY <1>1 DEF H2
      <4>3. \A d \in Classes : h \notin S2[d]
        BY <1>5, <4>1, <4>2
      <4> QED
        BY <3>1, <4>1, <4>2, <4>3 DEF InPages
    <3> QED
      BY <1>1, <3>2, <3>3 DEF LiveFit
  <2>2. \A h \in H2 : (\E d \in Classes : h \in S2[d]) \/ PageToVirt(h) \in InUse(L)
    BY <1>1, <1>5 DEF LiveFit, H2
  <2>3. \A o, p \in L : o.addr = p.addr => o = p
    BY <1>1 DEF LiveFit
  <2> QED
    BY <2>1, <2>2, <2>3 DEF LiveFit
<1> QED
  BY <1>6, <1>7, <1>8 DEF HeapFits, H2, sl2

\* free_in_slab(): an object whose page has a slab goes back to that slab.
LEMMA GivenFits ==
  ASSUME NEW H, NEW ord, NEW S, NEW sl, NEW ss, NEW L, HeapFits(H, ord, S, sl, ss, L),
         Apart(H, ord), NEW o \in L, NEW h, h = sl[VirtToPage(o.addr)], h # NULL,
         NEW ss2, Relinked(ss, ss2, h, <<o.addr>> \o ss[h])
  PROVE  h \in Pages /\ HeapFits(H, ord, S, sl, ss2, L \ {o})
<1> DEFINE L2 == L \ {o}
<1>1. SlabsFit(H, ord, S, sl) /\ FreeFit(S, ss, L) /\ LiveFit(H, ord, S, L)
  BY DEF HeapFits
<1>2. InSlab(S, o)
  <2> SUFFICES ASSUME InPages(H, ord, S, o) PROVE FALSE
    BY <1>1 DEF LiveFit
  <2>1. PICK g \in H : (\A c \in Classes : g \notin S[c]) /\ o.addr = PageToVirt(g)
    BY DEF InPages
  <2> QED
    BY <1>1, <2>1, PagesAlone
<1>3. PICK c \in Classes : \E g \in S[c] : o.addr \in Objects(g, c) /\ o.size <= OrderToSize[c]
  BY <1>2 DEF InSlab
<1>4. h \in S[c] /\ o.addr \in Objects(h, c) /\ h \in Pages
  BY <1>1, <1>3, SlabOf
<1>5. \A x, y \in L : x.addr = y.addr => x = y
  BY <1>1 DEF LiveFit
<1>6. InUse(L2) = InUse(L) \ {o.addr}
  BY <1>5, InUseWith
<1>7. Shared(Objects(h, c), ss2[h], L2)
  <2>1. Shared(Objects(h, c), ss[h], L)
    BY <1>1, <1>4 DEF FreeFit
  <2>2. Shared(Objects(h, c), <<o.addr>> \o ss[h], L2)
    BY <1>4, <1>5, <2>1, SharedGiven
  <2> QED
    BY <1>4, <2>2 DEF Relinked
<1> HIDE DEF L2
<1>8. ASSUME NEW d \in Classes, NEW g \in S[d] PROVE Shared(Objects(g, d), ss2[g], L2)
  <2>1. CASE g = h
    <3>1. c = d
      BY <1>1, <1>4, <2>1 DEF SlabsFit
    <3> QED
      BY <1>7, <2>1, <3>1
  <2>2. CASE g # h
    <3>1. Shared(Objects(g, d), ss[g], L) /\ g \in Pages
      BY <1>1 DEF FreeFit, SlabsFit, Apart
    <3>2. ss2[g] = ss[g]
      BY <2>2, <3>1 DEF Relinked
    <3>3. o.addr \notin Objects(g, d)
      BY <1>1, <1>4, <2>2, OneSlab
    <3>4. \A a \in Objects(g, d) : a \in InUse(L2) <=> a \in InUse(L)
      BY <1>6, <3>3
    <3> QED
      BY <3>1, <3>2, <3>4, SharedKept
  <2> QED
    BY <2>1, <2>2
<1>9. LiveFit(H, ord, S, L2)
  <2>1. ASSUME NEW g \in H PROVE (\E d \in Classes : g \in S[d]) \/ PageToVirt(g) \in InUse(L2)
    <3> SUFFICES ASSUME \A d \in Classes : g \notin S[d] PROVE PageToVirt(g) \in InUse(L2)
      OBVIOUS
    <3>1. PageToVirt(g) \in InUse(L) /\ PageToVirt(g) \notin Objects(h, c)
      BY <1>1, <1>4, PagesAlone DEF LiveFit
    <3> QED
      BY <1>4, <1>6, <3>1
  <2>2. \A p \in L2 : p.size \in Nat /\ (InSlab(S, p) \/ InPages(H, ord, S, p))
    BY <1>1 DEF LiveFit, L2
  <2>3. \A x, y \in L2 : x.addr = y.addr => x = y
    BY <1>5 DEF L2
  <2> QED
    BY <2>1, <2>2, <2>3 DEF LiveFit
<1>10. FreeFit(S, ss2, L2)
  BY <1>8 DEF FreeFit
<1> QED
  BY <1>1, <1>4, <1>9, <1>10 DEF HeapFits, L2

\* kmalloc() of whole pages.
LEMMA GotPagesFit ==
  ASSUME NEW H, NEW ord, NEW S, NEW sl, NEW ss, NEW L, HeapFits(H, ord, S, sl, ss, L),
         NEW r, NEW ord2, Gained(H, ord, r, ord2),
         NEW o, o.addr = PageToVirt(r), o.size \in Nat, o.size <= ChunkSize[ord2[r]] * PageSize
  PROVE  HeapFits(H \cup {r}, ord2, S, sl, ss, L \cup {o})
<1> DEFINE H2 == H \cup {r}
           L2 == L \cup {o}
<1>1. /\ SlabsFit(H, ord, S, sl) /\ FreeFit(S, ss, L) /\ LiveFit(H, ord, S, L)
      /\ Apart(H, ord) /\ Apart(H2, ord2) /\ r \notin H
      /\ \A h \in H : ord2[h] = ord[h]
  BY DEF HeapFits, Gained
<1>2. VirtToPage(o.addr) = r /\ r \in Span(r, ord2[r])
  <2>1. r \in Nat /\ r \in Span(r, ord2[r])
    BY <1>1 DEF Apart
  <2> QED
    BY <2>1, PageStart
<1>3. /\ \A h \in H : \A x : x \in Span(h, ord[h]) => x \notin Span(r, ord2[r])
      /\ \A p \in L : VirtToPage(p.addr) \notin Span(r, ord2[r])
      /\ \A d \in Classes : \A h \in S[d] : h # r
  BY <1>1, GainedPages
<1>4. InUse(L2) = InUse(L) \cup {o.addr}
  BY InUseWith
<1>5. SlabsFit(H2, ord2, S, sl)
  BY <1>1 DEF SlabsFit
<1>6. ASSUME NEW d \in Classes, NEW h \in S[d] PROVE Shared(Objects(h, d), ss[h], L2)
  <2>1. o.addr \notin Objects(h, d)
    <3> SUFFICES ASSUME o.addr \in Objects(h, d) PROVE FALSE
      OBVIOUS
    <3>1. h \in H /\ VirtToPage(o.addr) \in Span(h, ord[h])
      BY <1>1, SlabOf
    <3> QED
      BY <1>2, <1>3, <3>1
  <2>2. Shared(Objects(h, d), ss[h], L)
    BY <1>1 DEF FreeFit
  <2>3. \A a \in Objects(h, d) : a \in InUse(L2) <=> a \in InUse(L)
    BY <1>4, <2>1
  <2> HIDE DEF L2
  <2> QED
    BY <2>2, <2>3, SharedKept
<1>7. FreeFit(S, ss, L2)
  BY <1>6 DEF FreeFit
<1>8. LiveFit(H2, ord2, S, L2)
  <2>1. InPages(H2, ord2, S, o)
    BY <1>3 DEF InPages
  <2>2. ASSUME NEW p \in L PROVE p.size \in Nat /\ (InSlab(S, p) \/ InPages(H2, ord2, S, p))
    BY <1>1 DEF LiveFit, InPages
  <2>3. \A p \in L : p.addr # o.addr
    BY <1>2, <1>3
  <2>4. \A x, y \in L2 : x.addr = y.addr => x = y
    BY <1>1, <2>3 DEF LiveFit
  <2>5. \A h \in H2 : (\E d \in Classes : h \in S[d]) \/ PageToVirt(h) \in InUse(L2)
    BY <1>1, <1>4 DEF LiveFit
  <2> HIDE DEF H2
  <2>6. \A p \in L2 : p.size \in Nat /\ (InSlab(S, p) \/ InPages(H2, ord2, S, p))
    BY <2>1, <2>2
  <2> HIDE DEF L2
  <2> QED
    BY <2>4, <2>5, <2>6 DEF LiveFit
<1> QED
  BY <1>5, <1>7, <1>8 DEF HeapFits

\* kfree() of whole pages: the chunk is that of the object.
LEMMA GavePagesFit ==
  ASSUME NEW H, NEW ord, NEW S, NEW sl, NEW ss, NEW L, HeapFits(H, ord, S, sl, ss, L),
         Apart(H, ord), NEW o \in L, NEW h, h = VirtToPage(o.addr), sl[h] = NULL,
         NEW ord2, \A g \in H \ {h} : ord2[g] = ord[g]
  PROVE  h \in H /\ HeapFits(H \ {h}, ord2, S, sl, ss, L \ {o})
<1> DEFINE L2 == L \ {o}
           H2 == H \ {h}
<1>1. SlabsFit(H, ord, S, sl) /\ FreeFit(S, ss, L) /\ LiveFit(H, ord, S, L)
  BY DEF HeapFits
<1>2. ASSUME InSlab(S, o) PROVE FALSE
  <2>1. PICK c \in Classes : \E g \in S[c] : o.addr \in Objects(g, c)
    BY <1>2 DEF InSlab
  <2>2. PICK g \in S[c] : o.addr \in Objects(g, c)
    BY <2>1
  <2>3. sl[h] = g /\ g \in Pages
    BY <1>1, <2>2, SlabOf
  <2> QED
    BY <2>3, NullIsNoPage
<1>3. PICK g \in H : (\A c \in Classes : g \notin S[c]) /\ o.addr = PageToVirt(g)
  BY <1>1, <1>2 DEF LiveFit, InPages
<1>4. /\ h \in H /\ \A c \in Classes : h \notin S[c]
      /\ o.addr = PageToVirt(h)
      /\ \A c \in Classes : \A k \in S[c] : o.addr \notin Objects(k, c)
  BY <1>1, <1>3, PagesAlone
<1>5. \A x, y \in L : x.addr = y.addr => x = y
  BY <1>1 DEF LiveFit
<1>6. InUse(L2) = InUse(L) \ {o.addr}
  BY <1>5, InUseWith
<1>7. HeapFits(H2, ord2, S, sl, ss, L2)
  <2>1. SlabsFit(H2, ord2, S, sl)
    BY <1>1, <1>4 DEF SlabsFit
  <2>2. ASSUME NEW d \in Classes, NEW k \in S[d] PROVE Shared(Objects(k, d), ss[k], L2)
    <3>1. Shared(Objects(k, d), ss[k], L)
      BY <1>1 DEF FreeFit
    <3>2. \A a \in Objects(k, d) : a \in InUse(L2) <=> a \in InUse(L)
      BY <1>4, <1>6
    <3> HIDE DEF L2
    <3> QED
      BY <3>1, <3>2, SharedKept
  <2>3. FreeFit(S, ss, L2)
    BY <2>2 DEF FreeFit
  <2>4. ASSUME NEW p \in L2 PROVE p.size \in Nat /\ (InSlab(S, p) \/ InPages(H2, ord2, S, p))
    <3>1. p \in L /\ p.size \in Nat /\ (InSlab(S, p) \/ InPages(H, ord, S, p))
      BY <1>1 DEF LiveFit
    <3>2. ASSUME InPages(H, ord, S, p) PROVE InPages(H2, ord2, S, p)
      <4>1. PICK k \in H : /\ \A c \in Classes : k \notin S[c]
                           /\ p.addr = PageToVirt(k) /\ p.size <= ChunkSize[ord[k]] * PageSize
        BY <3>2 DEF InPages
      <4>2. k # h
        BY <1>4, <1>5, <3>1, <4>1
      <4> QED
        BY <4>1, <4>2 DEF InPages
    <3> QED
      BY <3>1, <3>2
  <2>5. \A x, y \in L2 : x.addr = y.addr => x = y
    BY <1>5
  <2>6. ASSUME NEW k \in H2 PROVE (\E d \in Classes : k \in S[d]) \/ PageToVirt(k) \in InUse(L2)
    <3> SUFFICES ASSUME \A d \in Classes : k \notin S[d] PROVE PageToVirt(k) \in InUse(L2)
      OBVIOUS
    <3>1. PageToVirt(k) \in InUse(L) /\ VirtToPage(PageToVirt(k)) = k /\ k # h
      BY <1>1, PagesAlone DEF LiveFit
    <3>2. PageToVirt(k) # o.addr
      BY <3>1
    <3> QED
      BY <1>6, <3>1, <3>2
  <2> HIDE DEF L2, H2
  <2> QED
    BY <2>1, <2>3, <2>4, <2>5, <2>6 DEF HeapFits, LiveFit
<1> QED
  BY <1>4, <1>7

-----------------------------------------------------------------------------
(* Every step keeps it *)

\* buddy_get_pages() gives a chunk that nobody has, or nothing.
LEMMA GetGives ==
  ASSUME BuddyInv, NEW order \in Nat, Get(order)
  PROVE  /\ BuddyInv'
         /\ result' = NULL => UNCHANGED <<pool, held>>
         /\ result' # NULL =>
               /\ order \in Orders /\ result' \in Pages /\ held' = held \cup {result'}
               /\ pool'.order[result'] = order
               /\ Gained(held, pool.order, result', pool'.order)
<1>1. CASE result' = NULL /\ UNCHANGED <<pool, held>>
  BY <1>1 DEF BuddyInv
<1>2. CASE \E k \in Fitting(pool, order) :
             LET page == Head(pool.list[k])
             IN  /\ pool' = Take(SplitPage(pool, order, page), page)
                 /\ held' = held \cup {page}
                 /\ result' = page
  <2>1. PICK k \in Fitting(pool, order) :
             /\ pool' = Take(SplitPage(pool, order, Head(pool.list[k])), Head(pool.list[k]))
             /\ held' = held \cup {Head(pool.list[k])}
             /\ result' = Head(pool.list[k])
    BY <1>2
  <2>2. order \in Orders
    BY PoolAssumption DEF Fitting, Orders
  <2>3. /\ result' \in Pages /\ result' \notin held
        /\ Resting(pool', held \cup {result'}, pool'.order)
        /\ pool'.order[result'] = order
        /\ \A h \in held : pool'.order[h] = pool.order[h]
    BY <2>1, <2>2, GetKeeps DEF BuddyInv
  <2>4. held' = held \cup {result'}
    BY <2>1
  <2>5. Apart(held, pool.order)
    BY HeldApart DEF BuddyInv
  <2>6. Apart(held \cup {result'}, pool'.order)
    BY <2>3, HeldApart
  <2>7. Gained(held, pool.order, result', pool'.order)
    BY <2>3, <2>5, <2>6 DEF Gained
  <2>8. BuddyInv'
    BY <2>3, <2>4 DEF BuddyInv
  <2> QED
    BY <2>2, <2>3, <2>4, <2>7, <2>8, NullIsNoPage
<1> QED
  BY <1>1, <1>2 DEF Get

\* list_add() of a slab.
LEMMA InFront ==
  ASSUME NEW T, NEW x \in T, NEW list \in Seq(T)
  PROVE  <<x>> \o list \in Seq(T) /\ ToSet(<<x>> \o list) = ToSet(list) \cup {x}
<1> DEFINE with == <<x>> \o list
<1>1. Len(list) \in Nat /\ DOMAIN list = 1..Len(list)
  BY LenProperties
<1>2. /\ with \in Seq(T) /\ Len(with) = Len(list) + 1
      /\ \A i \in 1..Len(with) : with[i] = IF i = 1 THEN x ELSE list[i - 1]
  BY <1>1, ConcatProperties
<1> HIDE DEF with
<1>3. DOMAIN with = 1..Len(with)
  BY <1>2, LenProperties
<1>4. ASSUME NEW y \in ToSet(with) PROVE y \in ToSet(list) \cup {x}
  <2>1. PICK i \in 1..Len(with) : with[i] = y
    BY <1>3 DEF ToSet
  <2>2. CASE i = 1
    BY <1>2, <2>1, <2>2
  <2>3. CASE i # 1
    <3>1. i - 1 \in 1..Len(list) /\ list[i - 1] = y
      BY <1>1, <1>2, <2>1, <2>3
    <3> QED
      BY <1>1, <3>1 DEF ToSet
  <2> QED
    BY <2>2, <2>3
<1>5. ASSUME NEW y \in ToSet(list) PROVE y \in ToSet(with)
  <2>1. PICK i \in 1..Len(list) : list[i] = y
    BY <1>1 DEF ToSet
  <2>2. i + 1 \in 1..Len(with) /\ i + 1 # 1 /\ (i + 1) - 1 = i
    BY <1>1, <1>2
  <2>3. with[i + 1] = y
    BY <1>2, <2>1, <2>2
  <2> QED
    BY <1>3, <2>2, <2>3 DEF ToSet
<1>6. x \in ToSet(with)
  <2>1. 1 \in 1..Len(with) /\ with[1] = x
    BY <1>1, <1>2
  <2> QED
    BY <1>3, <2>1 DEF ToSet
<1>7. ToSet(with) = ToSet(list) \cup {x}
  BY <1>4, <1>5, <1>6
<1> QED
  BY <1>2, <1>7 DEF with

\* A small object fits in its class,
LEMMA ClassFits ==
  ASSUME NEW size \in Sizes, size <= OrderToSize[SlabMax]
  PROVE  /\ size \in Nat /\ SlabClass(size) \in Classes
         /\ size <= OrderToSize[SlabClass(size)]
<1> DEFINE order == SizeToOrder(size)
<1>1. size \in 1..OrderToSize[30] /\ SlabMin \in Nat /\ SlabMax \in 0..30 /\ SlabMin <= SlabMax
  BY SizesAssumption
<1>2. /\ order \in 0..30 /\ size <= OrderToSize[order] /\ order <= SlabMax
  BY <1>1, SizeFits
<1>3. size \in Nat /\ SlabMin \in 0..30
  BY <1>1
<1>4. CASE order < SlabMin
  <2>1. OrderToSize[order] <= OrderToSize[SlabMin]
    <3>1. SlabMin \in order..30
      BY <1>2, <1>3, <1>4
    <3> QED
      BY <1>2, <3>1, OrdersGrow
  <2>2. SlabClass(size) = SlabMin
    BY <1>4 DEF SlabClass
  <2>3. OrderToSize[order] \in Nat /\ OrderToSize[SlabMin] \in Nat
    BY <1>2, <1>3, OrderSizes
  <2> HIDE DEF order
  <2> QED
    BY <1>1, <1>2, <1>3, <2>1, <2>2, <2>3 DEF Classes
<1>5. CASE ~(order < SlabMin)
  <2>1. SlabClass(size) = order
    BY <1>5 DEF SlabClass
  <2> HIDE DEF order
  <2> QED
    BY <1>1, <1>2, <1>3, <1>5, <2>1 DEF Classes
<1> QED
  BY <1>4, <1>5

\*   and a large one in its pages.
LEMMA PagesFit ==
  ASSUME NEW size \in Sizes, NEW order,
         order = IF size <= PageSize THEN 0 ELSE SizeToPageOrder(size)
  PROVE  /\ size \in Nat /\ order \in Nat
         /\ order \in Orders => size <= ChunkSize[order] * PageSize
<1>1. size \in 1..OrderToSize[30] /\ size \in Nat
  BY SizesAssumption
<1>2. PageSize \in Nat \ {0}
  BY SizesAssumption, OrderSizes
<1>3. CASE size <= PageSize
  <2>1. order = 0 /\ ChunkSize[0] = 1
    BY <1>3, ChunkSizes
  <2> QED
    BY <1>1, <1>2, <1>3, <2>1
<1>4. CASE ~(size <= PageSize)
  <2> DEFINE pages == (size + PageSize - 1) \div PageSize
  <2>1. /\ pages \in Nat /\ pages * PageSize <= size + PageSize - 1
        /\ size + PageSize - 1 < (pages + 1) * PageSize
    BY <1>1, <1>2
  <2>2. order = SizeToOrder(pages)
    BY <1>4 DEF SizeToPageOrder
  <2> HIDE DEF pages
  <2>3. size <= pages * PageSize /\ pages # 0
    BY <1>1, <1>2, <2>1
  <2>4. pages <= size
    <3> SUFFICES ASSUME size + 1 <= pages PROVE FALSE
      BY <1>1, <2>1
    <3>1. (size + 1) * PageSize <= pages * PageSize
      BY <1>1, <1>2, <2>1
    <3>2. (size + 1) * PageSize = size * PageSize + PageSize /\ size <= size * PageSize
      BY <1>1, <1>2
    <3> QED
      BY <1>1, <1>2, <2>1, <3>1, <3>2
  <2>5. pages \in 1..OrderToSize[30]
    <3>1. OrderToSize[30] \in Nat
      BY OrderSizes
    <3> QED
      BY <1>1, <2>1, <2>3, <2>4, <3>1
  <2>6. order \in 0..30 /\ pages <= OrderToSize[order]
    BY <2>2, <2>5, SizeFits
  <2>7. ASSUME order \in Orders PROVE size <= ChunkSize[order] * PageSize
    <3>1. order \in 0..MaxOrder /\ order <= 30
      BY <2>6, <2>7, OrdersAre
    <3>2. ChunkSize[order] = OrderToSize[order] /\ OrderToSize[order] \in Nat
      BY <2>6, <3>1, ChunksAreOrders, OrderSizes
    <3>3. pages * PageSize <= OrderToSize[order] * PageSize
      BY <1>2, <2>1, <2>6, <3>2
    <3> QED
      BY <1>1, <1>2, <2>1, <2>3, <3>2, <3>3
  <2> QED
    BY <1>1, <2>6, <2>7
<1> QED
  BY <1>3, <1>4

\* The lists of slabs, and what they stand for.
LEMMA SlabSetsAre ==
  ASSUME KmallocInv, NEW c \in Classes
  PROVE  slabs[c] \in Seq(Pages) /\ SlabSets[c] = ToSet(slabs[c])
BY DEF KmallocInv, SlabSets

\* The slab alloc_in_slab() picks is one of its class with a free slot.
LEMMA UsableIs ==
  ASSUME KmallocInv, NEW c \in Classes, NEW head \in UsableSlab(c)
  PROVE  head \in SlabSets[c] /\ head \in Pages /\ slots[head] # <<>>
<1>1. slabs[c] \in Seq(Pages) /\ SlabSets[c] = ToSet(slabs[c])
  BY SlabSetsAre
<1>2. PICK i \in 1..Len(slabs[c]) : head = slabs[c][i] /\ slots[slabs[c][i]] # <<>>
  BY DEF UsableSlab
<1>3. DOMAIN slabs[c] = 1..Len(slabs[c]) /\ head \in Pages
  BY <1>1, <1>2, LenProperties, ElementOfSeq
<1> QED
  BY <1>1, <1>2, <1>3 DEF ToSet

\* The invariant of kmalloc() holds after boot.
LEMMA KmallocBoots == KmallocInit => KmallocInv
<1> SUFFICES ASSUME KmallocInit PROVE KmallocInv
  OBVIOUS
<1>1. /\ BuddyInv /\ held = {} /\ live = {}
      /\ slabs = [class \in Classes |-> <<>>]
      /\ slots = [page \in Pages |-> <<>>]
      /\ slab = [page \in Pages |-> NULL]
  BY BuddyBoots DEF KmallocInit, Init
<1>2. slabs \in [Classes -> Seq(Pages)]
  BY <1>1, EmptySeq
<1>3. slots = [page \in Pages |-> slots[page]] /\ slab \in [Pages -> Pages \cup {NULL}]
  BY <1>1
<1>4. \A c \in Classes : SlabSets[c] = {}
  BY <1>1 DEF SlabSets, ToSet
<1>5. SlabsFit(held, pool.order, SlabSets, slab)
  BY <1>1, <1>4 DEF SlabsFit
<1>6. FreeFit(SlabSets, slots, live)
  BY <1>4 DEF FreeFit
<1>7. LiveFit(held, pool.order, SlabSets, live)
  BY <1>1 DEF LiveFit
<1> QED
  BY <1>1, <1>2, <1>3, <1>5, <1>6, <1>7 DEF KmallocInv, HeapFits

\* kmalloc() from a slab with a free slot keeps the invariant.
LEMMA AllocFromSlabKeeps ==
  ASSUME KmallocInv, NEW size \in Sizes, size <= OrderToSize[SlabMax], AllocFromSlab(size)
  PROVE  KmallocInv'
<1> DEFINE c == SlabClass(size)
<1>1. size \in Nat /\ c \in Classes /\ size <= OrderToSize[c]
  BY ClassFits
<1> HIDE DEF c
<1>2. PICK head \in UsableSlab(c) :
          /\ slots' = [slots EXCEPT ![head] = Tail(@)]
          /\ live' = live \cup {[addr |-> Head(slots[head]), size |-> size]}
  BY DEF AllocFromSlab, Handed, c
<1>3. /\ pool' = pool /\ held' = held /\ slabs' = slabs /\ slab' = slab
      /\ BuddyInv' /\ SlabSets' = SlabSets
  BY DEF AllocFromSlab, buddy, KmallocInv, BuddyInv, SlabSets
<1>4. head \in SlabSets[c] /\ head \in Pages /\ slots[head] # <<>>
  BY <1>1, UsableIs
<1> DEFINE o == [addr |-> Head(slots[head]), size |-> size]
<1>5. o.addr = Head(slots[head]) /\ o.size \in Nat /\ o.size <= OrderToSize[c]
  BY <1>1
<1>6. live' = live \cup {o}
  BY <1>2
<1> HIDE DEF o
<1>7. /\ slots = [page \in Pages |-> slots[page]]
      /\ HeapFits(held, pool.order, SlabSets, slab, slots, live)
  BY DEF KmallocInv
<1>8. /\ slots' = [page \in Pages |-> slots'[page]]
      /\ Relinked(slots, slots', head, Tail(slots[head]))
  BY <1>2, <1>4, <1>7 DEF Relinked
<1>9. Apart(held, pool.order)
  BY HeldApart DEF KmallocInv, BuddyInv
<1>10. HeapFits(held, pool.order, SlabSets, slab, slots', live \cup {o})
  BY <1>1, <1>4, <1>5, <1>7, <1>8, <1>9, TakenFits
<1> QED
  BY <1>3, <1>6, <1>8, <1>10 DEF KmallocInv

\* init_slab_cache(): the slab with all its objects fits, and then n of them are left out.
LEMMA NewSlabKeeps ==
  ASSUME KmallocInv, NEW c \in Classes, NEW n \in Nat, NewSlab(c, n), result' # NULL,
         NEW ss, ss = [slots EXCEPT ![result'] = NewSlots(result', c)]
  PROVE  /\ BuddyInv' /\ Apart(held', pool'.order)
         /\ slabs' \in [Classes -> Seq(Pages)]
         /\ slab' \in [Pages -> Pages \cup {NULL}]
         /\ result' \in Pages /\ result' \in SlabSets'[c]
         /\ ss = [page \in Pages |-> ss[page]] /\ ss[result'] = NewSlots(result', c)
         /\ slots' = [ss EXCEPT ![result'] = SubSeq(ss[result'], n + 1, Len(ss[result']))]
         /\ HeapFits(held', pool'.order, SlabSets', slab', ss, live)
<1> DEFINE r == result'
<1>1. Get(SlabPages) /\ SlabPages \in Nat
  BY SizesAssumption DEF NewSlab, Orders
<1>2. /\ BuddyInv' /\ r \in Pages /\ held' = held \cup {r} /\ pool'.order[r] = SlabPages
      /\ Gained(held, pool.order, r, pool'.order)
  BY <1>1, GetGives DEF KmallocInv
<1>3. /\ slabs' = [slabs EXCEPT ![c] = <<r>> \o @]
      /\ slab' = Mark(slab, r)
      /\ slots' = [slots EXCEPT ![r] = SubSeq(NewSlots(r, c), n + 1, Len(NewSlots(r, c)))]
  BY DEF NewSlab
<1> HIDE DEF r
<1>4. /\ slabs \in [Classes -> Seq(Pages)] /\ slab \in [Pages -> Pages \cup {NULL}]
      /\ slots = [page \in Pages |-> slots[page]]
      /\ HeapFits(held, pool.order, SlabSets, slab, slots, live)
  BY DEF KmallocInv
<1>5. slabs[c] \in Seq(Pages) /\ SlabSets[c] = ToSet(slabs[c])
  BY SlabSetsAre
<1>6. <<r>> \o slabs[c] \in Seq(Pages) /\ ToSet(<<r>> \o slabs[c]) = SlabSets[c] \cup {r}
  BY <1>2, <1>5, InFront
<1>7. slabs' \in [Classes -> Seq(Pages)]
  BY <1>3, <1>4, <1>6
<1>8. Extended(SlabSets, SlabSets', c, r) /\ r \in SlabSets'[c]
  <2>1. /\ slabs'[c] = <<r>> \o slabs[c]
        /\ \A d \in Classes \ {c} : slabs'[d] = slabs[d]
    BY <1>3, <1>4
  <2> QED
    BY <1>6, <2>1 DEF SlabSets, Extended
<1>9. slab' \in [Pages -> Pages \cup {NULL}]
  BY <1>2, <1>3, <1>4 DEF Mark
<1>10. /\ ss = [page \in Pages |-> ss[page]] /\ ss[r] = NewSlots(r, c)
       /\ Relinked(slots, ss, r, NewSlots(r, c))
  BY <1>2, <1>4 DEF r, Relinked
<1>11. slots' = [ss EXCEPT ![r] = SubSeq(ss[r], n + 1, Len(ss[r]))]
  <2> DEFINE rest == SubSeq(NewSlots(r, c), n + 1, Len(NewSlots(r, c)))
  <2>1. slots' = [slots EXCEPT ![r] = rest] /\ SubSeq(ss[r], n + 1, Len(ss[r])) = rest
    BY <1>3, <1>10
  <2> HIDE DEF rest
  <2>2. ss = [slots EXCEPT ![r] = NewSlots(r, c)]
    BY DEF r
  <2> DEFINE left == [page \in Pages |-> IF page = r THEN rest ELSE slots[page]]
  <2>3. slots' = left
    BY <1>2, <1>4, <2>1
  <2>4. [ss EXCEPT ![r] = rest] = left
    BY <1>2, <1>10 DEF Relinked
  <2> HIDE DEF left
  <2> QED
    BY <2>1, <2>3, <2>4
<1>12. HeapFits(held \cup {r}, pool'.order, SlabSets', Mark(slab, r), ss, live)
  BY <1>2, <1>4, <1>8, <1>10, GrownFits
<1>13. Apart(held', pool'.order) /\ r \in SlabSets'[c]
  BY <1>2, <1>8 DEF Gained
<1> QED
  BY <1>2, <1>3, <1>7, <1>9, <1>10, <1>11, <1>12, <1>13 DEF r

\* Without memory for a slab nothing changes.
LEMMA NoSlabKeeps ==
  ASSUME KmallocInv, NEW c, NEW n, NewSlab(c, n), result' = NULL, UNCHANGED live
  PROVE  KmallocInv' /\ hung'
<1>1. Get(SlabPages) /\ SlabPages \in Nat
  BY SizesAssumption DEF NewSlab, Orders
<1>2. pool' = pool /\ held' = held /\ BuddyInv'
  BY <1>1, GetGives DEF KmallocInv
<1>3. slabs' = slabs /\ slots' = slots /\ slab' = slab /\ hung'
  BY DEF NewSlab
<1>4. SlabSets' = SlabSets
  BY <1>3 DEF SlabSets
<1> QED
  BY <1>2, <1>3, <1>4 DEF KmallocInv

\* A new slab, cut into free slots, keeps the invariant.
LEMMA InitSlabKeeps ==
  ASSUME KmallocInv, NEW c \in Classes, InitSlab(c)
  PROVE  KmallocInv'
<1>1. NewSlab(c, 0) /\ UNCHANGED live
  BY DEF InitSlab
<1>2. CASE result' = NULL
  BY <1>1, <1>2, NoSlabKeeps
<1>3. CASE result' # NULL
  <2> DEFINE ss == [slots EXCEPT ![result'] = NewSlots(result', c)]
  <2>1. /\ BuddyInv' /\ slabs' \in [Classes -> Seq(Pages)] /\ slab' \in [Pages -> Pages \cup {NULL}]
        /\ result' \in Pages /\ ss = [page \in Pages |-> ss[page]]
        /\ ss[result'] = NewSlots(result', c)
        /\ slots' = [ss EXCEPT ![result'] = SubSeq(ss[result'], 0 + 1, Len(ss[result']))]
        /\ HeapFits(held', pool'.order, SlabSets', slab', ss, live)
    BY <1>1, <1>3, NewSlabKeeps
  <2> HIDE DEF ss
  <2>2. SubSeq(ss[result'], 0 + 1, Len(ss[result'])) = ss[result']
    <3>1. ss[result'] \in Seq(Objects(result', c))
      BY <2>1, NewSlotsAre DEF ListOf
    <3> QED
      BY <3>1, SubSeqFull
  <2>3. slots' = ss
    BY <2>1, <2>2
  <2> QED
    BY <1>1, <2>1, <2>3 DEF KmallocInv
<1> QED
  BY <1>2, <1>3

\* kmalloc() from a slab made for it keeps the invariant.
LEMMA AllocFromNewSlabKeeps ==
  ASSUME KmallocInv, NEW size \in Sizes, size <= OrderToSize[SlabMax], ~hung,
         AllocFromNewSlab(size)
  PROVE  KmallocInv'
<1> DEFINE c == SlabClass(size)
           r == result'
<1>1. size \in Nat /\ c \in Classes /\ size <= OrderToSize[c]
  BY ClassFits
<1>2. NewSlab(c, 1) /\ IF hung' THEN UNCHANGED live ELSE Handed(Head(NewSlots(r, c)), size)
  BY DEF AllocFromNewSlab
<1> HIDE DEF c
<1>3. CASE r = NULL
  <2>1. hung'
    BY <1>2, <1>3 DEF NewSlab
  <2> QED
    BY <1>2, <1>3, <2>1, NoSlabKeeps
<1>4. CASE r # NULL
  <2> DEFINE ss == [slots EXCEPT ![result'] = NewSlots(result', c)]
             o  == [addr |-> Head(ss[r]), size |-> size]
  <2>1. /\ BuddyInv' /\ Apart(held', pool'.order)
        /\ slabs' \in [Classes -> Seq(Pages)] /\ slab' \in [Pages -> Pages \cup {NULL}]
        /\ r \in Pages /\ r \in SlabSets'[c]
        /\ ss = [page \in Pages |-> ss[page]]
        /\ ss[r] = NewSlots(r, c)
        /\ slots' = [ss EXCEPT ![r] = SubSeq(ss[r], 1 + 1, Len(ss[r]))]
        /\ HeapFits(held', pool'.order, SlabSets', slab', ss, live)
    BY <1>1, <1>2, <1>4, NewSlabKeeps
  <2>2. live' = live \cup {o}
    <3>1. ~hung'
      BY <1>2, <1>4 DEF NewSlab
    <3> QED
      BY <1>2, <2>1, <3>1 DEF Handed
  <2>3. o.addr = Head(ss[r]) /\ o.size \in Nat /\ o.size <= OrderToSize[c]
    BY <1>1
  <2> HIDE DEF ss, o, r
  <2>4. ss[r] \in Seq(Objects(r, c)) /\ Len(ss[r]) \in Nat \ {0}
    BY <1>1, <2>1, NewSlotsAre, ClassesAre DEF ListOf
  <2>5. ss[r] # <<>> /\ SubSeq(ss[r], 1 + 1, Len(ss[r])) = Tail(ss[r])
    <3>1. ss[r] # <<>>
      BY <2>4, EmptySeq
    <3> QED
      BY <2>4, <3>1, TailIsSubSeq
  <2>6. /\ slots' = [page \in Pages |-> slots'[page]]
        /\ Relinked(ss, slots', r, Tail(ss[r]))
    BY <2>1, <2>5 DEF Relinked
  <2>7. HeapFits(held', pool'.order, SlabSets', slab', slots', live \cup {o})
    BY <1>1, <2>1, <2>3, <2>5, <2>6, TakenFits
  <2> QED
    BY <2>1, <2>2, <2>6, <2>7 DEF KmallocInv
<1> QED
  BY <1>3, <1>4

\* kmalloc() of more than a slab serves keeps the invariant.
LEMMA AllocPagesKeeps ==
  ASSUME KmallocInv, NEW size \in Sizes, NEW order,
         order = IF size <= PageSize THEN 0 ELSE SizeToPageOrder(size), AllocPages(order, size)
  PROVE  KmallocInv'
<1>1. size \in Nat /\ order \in Nat /\ (order \in Orders => size <= ChunkSize[order] * PageSize)
  BY PagesFit
<1>2. Get(order) /\ slabs' = slabs /\ slots' = slots /\ slab' = slab
      /\ IF result' = NULL THEN UNCHANGED live ELSE Handed(PageToVirt(result'), size)
  BY DEF AllocPages
<1>3. SlabSets' = SlabSets
  BY <1>2 DEF SlabSets
<1>4. KmallocInv
  OBVIOUS
<1>5. BuddyInv'
  BY <1>1, <1>2, GetGives DEF KmallocInv
<1>6. CASE result' = NULL
  <2>1. pool' = pool /\ held' = held
    BY <1>1, <1>2, <1>6, GetGives DEF KmallocInv
  <2> QED
    BY <1>2, <1>3, <1>5, <1>6, <2>1 DEF KmallocInv
<1>7. CASE result' # NULL
  <2> DEFINE o == [addr |-> PageToVirt(result'), size |-> size]
  <2>1. /\ order \in Orders /\ held' = held \cup {result'} /\ pool'.order[result'] = order
        /\ Gained(held, pool.order, result', pool'.order)
    BY <1>1, <1>2, <1>7, GetGives DEF KmallocInv
  <2>2. /\ o.addr = PageToVirt(result') /\ o.size \in Nat
        /\ o.size <= ChunkSize[pool'.order[result']] * PageSize
    BY <1>1, <2>1
  <2>3. live' = live \cup {o}
    BY <1>2, <1>7 DEF Handed
  <2> HIDE DEF o
  <2>4. HeapFits(held \cup {result'}, pool'.order, SlabSets, slab, slots, live \cup {o})
    BY <2>1, <2>2, GotPagesFit DEF KmallocInv
  <2> QED
    BY <1>2, <1>3, <1>5, <2>1, <2>3, <2>4 DEF KmallocInv
<1> QED
  BY <1>6, <1>7

\* kfree() of a live object keeps the invariant.
LEMMA KfreeKeeps ==
  ASSUME KmallocInv, NEW obj \in live, Kfree(obj)
  PROVE  KmallocInv'
<1> DEFINE page == VirtToPage(obj.addr)
           h    == slab[page]
<1>1. live' = live \ {obj}
  BY DEF Kfree
<1>2. /\ slots = [p \in Pages |-> slots[p]]
      /\ HeapFits(held, pool.order, SlabSets, slab, slots, live)
      /\ Apart(held, pool.order) /\ BuddyInv
  BY HeldApart DEF KmallocInv, BuddyInv
<1>3. CASE h # NULL
  <2>1. /\ slots' = [slots EXCEPT ![h] = <<obj.addr>> \o @]
        /\ UNCHANGED <<buddy, slabs, slab, hung>>
    BY <1>3 DEF Kfree, FreeInSlab
  <2> HIDE DEF h, page
  <2>2. /\ Relinked(slots, slots', h, <<obj.addr>> \o slots[h])
        /\ slots' = [p \in Pages |-> slots'[p]]
    BY <1>2, <2>1 DEF Relinked
  <2>3. h = slab[VirtToPage(obj.addr)]
    BY DEF h, page
  <2>4. HeapFits(held, pool.order, SlabSets, slab, slots', live \ {obj})
    BY <1>2, <1>3, <2>2, <2>3, GivenFits
  <2>5. /\ pool' = pool /\ held' = held /\ slabs' = slabs /\ slab' = slab
        /\ BuddyInv' /\ SlabSets' = SlabSets
    BY <1>2, <2>1 DEF buddy, BuddyInv, SlabSets
  <2> QED
    BY <1>1, <2>2, <2>4, <2>5 DEF KmallocInv
<1>4. CASE h = NULL
  <2>1. Free(page) /\ UNCHANGED <<slabs, slots, slab, hung>>
    BY <1>4 DEF Kfree
  <2>2. slab[page] = NULL /\ page = VirtToPage(obj.addr)
    BY <1>4
  <2> HIDE DEF page, h
  <2>3. page \in held
    BY <1>2, <2>2, GavePagesFit
  <2>4. BuddyInv' /\ \A g \in held' : pool'.order[g] = pool.order[g]
    BY <1>2, <2>1, <2>3, FreePreserves
  <2>5. held' = held \ {page} /\ SlabSets' = SlabSets
    BY <2>1 DEF Free, SlabSets
  <2>6. HeapFits(held \ {page}, pool'.order, SlabSets, slab, slots, live \ {obj})
    BY <1>2, <2>2, <2>4, <2>5, GavePagesFit
  <2> QED
    BY <1>1, <2>1, <2>4, <2>5, <2>6 DEF KmallocInv
<1> QED
  BY <1>3, <1>4

\* Every step of kmalloc() and kfree() keeps the invariant.
LEMMA KmallocStep == KmallocInv /\ [KmallocNext]_vars => KmallocInv'
<1> SUFFICES ASSUME KmallocInv, [KmallocNext]_vars PROVE KmallocInv'
  OBVIOUS
<1>1. CASE UNCHANGED vars
  BY <1>1 DEF vars, heap, buddy, KmallocInv, BuddyInv, SlabSets
<1>2. ASSUME NEW class \in Classes, InitSlab(class) PROVE KmallocInv'
  BY <1>2, InitSlabKeeps
<1>3. ASSUME NEW size \in Sizes, Kmalloc(size) PROVE KmallocInv'
  <2>1. CASE size <= OrderToSize[SlabMax]
    BY <1>3, <2>1, AllocFromSlabKeeps, AllocFromNewSlabKeeps DEF Kmalloc
  <2>2. CASE ~(size <= OrderToSize[SlabMax])
    BY <1>3, <2>2, AllocPagesKeeps DEF Kmalloc
  <2> QED
    BY <2>1, <2>2
<1>4. ASSUME NEW obj \in live, Kfree(obj) PROVE KmallocInv'
  BY <1>4, KfreeKeeps
<1> QED
  BY <1>1, <1>2, <1>3, <1>4 DEF KmallocNext

\* The free lists of the slabs, the pages of the slabs and the objects of callers fit.
THEOREM KmallocInvariant == KmallocSpec => []KmallocInv
<1> QED
  BY KmallocBoots, KmallocStep, PTL DEF KmallocSpec

-----------------------------------------------------------------------------
(* What the invariant shows *)

\* The chunk that an object in use is part of.
HomeInSlab(o, h) ==
    \E c \in Classes : h \in SlabSets[c] /\ o.addr \in Objects(h, c) /\ o.size <= OrderToSize[c]
HomeInPages(o, h) ==
    /\ \A c \in Classes : h \notin SlabSets[c]
    /\ o.addr = PageToVirt(h) /\ o.size <= ChunkSize[pool.order[h]] * PageSize

\* A live object is in a slab, or is the head of a held chunk.
LEMMA HomeOf ==
  ASSUME KmallocInv, NEW o \in live
  PROVE  \E h \in held : h \in Pages /\ (HomeInSlab(o, h) \/ HomeInPages(o, h))
<1>1. /\ InSlab(SlabSets, o) \/ InPages(held, pool.order, SlabSets, o)
      /\ SlabsFit(held, pool.order, SlabSets, slab) /\ Apart(held, pool.order)
  BY HeldApart DEF KmallocInv, BuddyInv, HeapFits, LiveFit
<1>2. CASE InSlab(SlabSets, o)
  <2>1. PICK c \in Classes : \E h \in SlabSets[c] :
             o.addr \in Objects(h, c) /\ o.size <= OrderToSize[c]
    BY <1>2 DEF InSlab
  <2>2. PICK h \in SlabSets[c] : o.addr \in Objects(h, c) /\ o.size <= OrderToSize[c]
    BY <2>1
  <2>3. h \in held /\ h \in Pages
    BY <1>1, <2>2 DEF SlabsFit, Apart
  <2> QED
    BY <2>2, <2>3 DEF HomeInSlab
<1>3. CASE InPages(held, pool.order, SlabSets, o)
  <2>1. PICK h \in held : /\ \A c \in Classes : h \notin SlabSets[c]
                          /\ o.addr = PageToVirt(h)
                          /\ o.size <= ChunkSize[pool.order[h]] * PageSize
    BY <1>3 DEF InPages
  <2> QED
    BY <1>1, <2>1 DEF Apart, HomeInPages
<1> QED
  BY <1>1, <1>2, <1>3

\* A byte of an object of a slab is at the place of that object.
LEMMA ByteOfObject ==
  ASSUME NEW c \in Classes, NEW h \in Pages, NEW o, o.addr \in Objects(h, c),
         o.size \in Nat, o.size <= OrderToSize[c], NEW b \in Bytes(o)
  PROVE  \E i \in 1..Count(c) :
            /\ i \in Nat /\ i # 0 /\ i \in 0..Count(c) /\ b \in Int
            /\ o.addr = ObjectAt(h, c, i)
            /\ b \in ObjectAt(h, c, i)..(ObjectAt(h, c, i) + OrderToSize[c] - 1)
<1>1. PICK i \in 1..Count(c) : /\ i \in 0..Count(c) /\ i \in Nat /\ o.addr = ObjectAt(h, c, i)
                               /\ o.addr \in Nat
  BY ObjectsAre
<1>2. OrderToSize[c] \in Nat
  BY ClassesAre
<1> DEFINE a == ObjectAt(h, c, i)
<1>3. a \in Nat /\ b \in a..(a + o.size - 1)
  BY <1>1 DEF Bytes
<1> HIDE DEF a
<1>4. b \in a..(a + OrderToSize[c] - 1) /\ b \in Int
  BY <1>2, <1>3
<1>5. i # 0
  BY <1>1
<1> QED
  BY <1>1, <1>4, <1>5 DEF a

\* All of an object lies in its chunk.
LEMMA BytesAtHome ==
  ASSUME KmallocInv, NEW o \in live, NEW h \in held, HomeInSlab(o, h) \/ HomeInPages(o, h),
         NEW b \in Bytes(o)
  PROVE  b \in Int /\ VirtToPage(b) \in Span(h, pool.order[h])
<1>1. /\ o.size \in Nat /\ h \in Pages /\ h \in Nat /\ pool.order[h] \in 0..MaxOrder
      /\ SlabsFit(held, pool.order, SlabSets, slab)
  BY HeldApart DEF KmallocInv, BuddyInv, HeapFits, LiveFit, Apart
<1>2. CASE HomeInSlab(o, h)
  <2>1. PICK c \in Classes : h \in SlabSets[c] /\ o.addr \in Objects(h, c)
                             /\ o.size <= OrderToSize[c]
    BY <1>2 DEF HomeInSlab
  <2>2. PICK i \in 1..Count(c) :
            /\ i \in 0..Count(c) /\ b \in Int
            /\ b \in ObjectAt(h, c, i)..(ObjectAt(h, c, i) + OrderToSize[c] - 1)
    BY <1>1, <2>1, ByteOfObject
  <2>3. VirtToPage(b) \in Span(h, SlabPages) /\ pool.order[h] = SlabPages
    BY <1>1, <2>1, <2>2, ObjectInSlab DEF SlabsFit
  <2> QED
    BY <2>2, <2>3
<1>3. CASE HomeInPages(o, h)
  <2> DEFINE n == ChunkSize[pool.order[h]]
  <2>1. o.addr = PageToVirt(h) /\ o.size <= n * PageSize
    BY <1>3 DEF HomeInPages
  <2>2. /\ n \in Nat /\ PageToVirt(h) \in Nat /\ PageSize \in Nat \ {0}
    BY <1>1, ChunkSizes, PoolAssumption, PageStart, SizesAssumption, OrderSizes
  <2>3. b \in PageToVirt(h)..(PageToVirt(h) + o.size - 1)
    BY <2>1 DEF Bytes
  <2> HIDE DEF n
  <2>4. n * PageSize \in Nat
    BY <2>2
  <2>5. b \in Int /\ PageToVirt(h) <= b /\ b < PageToVirt(h) + n * PageSize
    BY <1>1, <2>1, <2>2, <2>3, <2>4
  <2>6. VirtToPage(b) \in h..(h + n - 1)
    BY <1>1, <2>2, <2>5, PageOfByte
  <2> QED
    BY <2>5, <2>6 DEF Span, n
<1> QED
  BY <1>2, <1>3

\* Two chunks do not share a byte.
LEMMA OneHome ==
  ASSUME KmallocInv, NEW h \in held, NEW g \in held, NEW page,
         page \in Span(h, pool.order[h]), page \in Span(g, pool.order[g])
  PROVE  h = g
BY HeldApart DEF KmallocInv, BuddyInv, Apart

\* Two objects do not share a byte,
LEMMA ObjectsShareNothing ==
  ASSUME KmallocInv, NEW o \in live, NEW p \in live, NEW b \in Bytes(o), b \in Bytes(p)
  PROVE  o = p
<1>1. PICK h \in held : h \in Pages /\ (HomeInSlab(o, h) \/ HomeInPages(o, h))
  BY HomeOf
<1>2. PICK g \in held : g \in Pages /\ (HomeInSlab(p, g) \/ HomeInPages(p, g))
  BY HomeOf
<1>3. h = g
  BY <1>1, <1>2, BytesAtHome, OneHome
<1>4. /\ o.size \in Nat /\ p.size \in Nat /\ (o.addr = p.addr => o = p)
      /\ SlabsFit(held, pool.order, SlabSets, slab)
  BY DEF KmallocInv, HeapFits, LiveFit
<1>5. CASE HomeInPages(o, h)
  BY <1>2, <1>3, <1>4, <1>5 DEF HomeInPages, HomeInSlab
<1>6. CASE HomeInSlab(o, h)
  <2>1. PICK c \in Classes : h \in SlabSets[c] /\ o.addr \in Objects(h, c)
                             /\ o.size <= OrderToSize[c]
    BY <1>6 DEF HomeInSlab
  <2>2. HomeInSlab(p, h)
    BY <1>2, <1>3, <2>1 DEF HomeInPages
  <2>3. PICK d \in Classes : h \in SlabSets[d] /\ p.addr \in Objects(h, d)
                             /\ p.size <= OrderToSize[d]
    BY <2>2 DEF HomeInSlab
  <2>4. c = d
    BY <1>4, <2>1, <2>3 DEF SlabsFit
  <2>5. PICK i \in 1..Count(c) :
            /\ i \in Nat /\ b \in Int /\ o.addr = ObjectAt(h, c, i)
            /\ b \in ObjectAt(h, c, i)..(ObjectAt(h, c, i) + OrderToSize[c] - 1)
    BY <1>1, <1>4, <2>1, ByteOfObject
  <2>6. PICK j \in 1..Count(c) :
            /\ j \in Nat /\ p.addr = ObjectAt(h, c, j)
            /\ b \in ObjectAt(h, c, j)..(ObjectAt(h, c, j) + OrderToSize[c] - 1)
    BY <1>1, <1>4, <2>3, <2>4, ByteOfObject
  <2>7. i = j
    BY <1>1, <2>5, <2>6, ObjectsApart
  <2> QED
    BY <1>4, <2>5, <2>6, <2>7
<1> QED
  BY <1>1, <1>5, <1>6

\*   and an object shares none with another place of a slab that it does not have.
LEMMA PlacesShareNothing ==
  ASSUME KmallocInv, NEW o \in live, NEW b \in Bytes(o),
         NEW c \in Classes, NEW g \in SlabSets[c], NEW j \in 0..Count(c), j \in Nat,
         b \in ObjectAt(g, c, j)..(ObjectAt(g, c, j) + OrderToSize[c] - 1)
  PROVE  j # 0 /\ ObjectAt(g, c, j) = o.addr
<1>1. PICK h \in held : h \in Pages /\ (HomeInSlab(o, h) \/ HomeInPages(o, h))
  BY HomeOf
<1>2. o.size \in Nat /\ SlabsFit(held, pool.order, SlabSets, slab)
  BY DEF KmallocInv, HeapFits, LiveFit
<1>3. g \in held /\ g \in Pages /\ pool.order[g] = SlabPages
  BY <1>2, HeldApart DEF KmallocInv, BuddyInv, SlabsFit, Apart
<1>4. VirtToPage(b) \in Span(g, pool.order[g])
  BY <1>3, ObjectInSlab
<1>5. h = g
  BY <1>1, <1>3, <1>4, BytesAtHome, OneHome
<1>6. HomeInSlab(o, h)
  BY <1>1, <1>5 DEF HomeInPages
<1>7. PICK d \in Classes : h \in SlabSets[d] /\ o.addr \in Objects(h, d)
                           /\ o.size <= OrderToSize[d]
  BY <1>6 DEF HomeInSlab
<1>8. c = d
  BY <1>2, <1>5, <1>7 DEF SlabsFit
<1>9. PICK i \in 1..Count(c) :
          /\ i \in Nat /\ i # 0 /\ b \in Int /\ o.addr = ObjectAt(g, c, i)
          /\ b \in ObjectAt(g, c, i)..(ObjectAt(g, c, i) + OrderToSize[c] - 1)
  BY <1>2, <1>3, <1>5, <1>7, <1>8, ByteOfObject
<1>10. i = j
  BY <1>3, <1>9, ObjectsApart
<1> QED
  BY <1>9, <1>10

\* A slab's free list has its objects that are not in use, each of them once.
LEMMA FreeListIs ==
  ASSUME KmallocInv, NEW c \in Classes, NEW h \in SlabSets[c]
  PROVE  /\ h \in held /\ h \in Pages
         /\ ListOf(slots[h], ToSet(slots[h])) /\ ToSet(slots[h]) \subseteq Objects(h, c)
         /\ \A a \in ToSet(slots[h]) : a \notin InUse(live)
         /\ \A a \in Objects(h, c) : a \in ToSet(slots[h]) \/ a \in InUse(live)
<1>1. /\ h \in held /\ h \in Pages
      /\ Shared(Objects(h, c), slots[h], live)
  BY HeldApart DEF KmallocInv, BuddyInv, HeapFits, SlabsFit, FreeFit, Apart
<1>2. PICK F : /\ ListOf(slots[h], F) /\ F \subseteq Objects(h, c)
               /\ \A a \in F : a \notin InUse(live)
               /\ \A a \in Objects(h, c) : a \in F \/ a \in InUse(live)
  BY <1>1 DEF Shared
<1>3. ToSet(slots[h]) = F
  BY <1>2, ListMembers
<1> QED
  BY <1>1, <1>2, <1>3

\* The invariant gives that a live object shares no byte with another, a free slot or a header.
LEMMA KeptApart == KmallocInv => ObjectsDisjoint
<1> SUFFICES ASSUME KmallocInv PROVE ObjectsDisjoint
  OBVIOUS
<1>1. ASSUME NEW o \in live, NEW p \in live, o # p PROVE Bytes(o) \cap Bytes(p) = {}
  BY <1>1, ObjectsShareNothing
<1>2. ASSUME NEW o \in live, NEW c \in Classes, NEW b \in Bytes(o), b \in FreeBytes(c)
      PROVE  FALSE
  <2>1. PICK a \in UNION {ToSet(slots[h]) : h \in ToSet(slabs[c])} :
            b \in a..(a + OrderToSize[c] - 1)
    BY <1>2 DEF FreeBytes
  <2>2. PICK h \in ToSet(slabs[c]) : a \in ToSet(slots[h])
    BY <2>1
  <2>3. h \in SlabSets[c] /\ h \in Pages /\ a \in Objects(h, c) /\ a \notin InUse(live)
    BY <2>2, SlabSetsAre, FreeListIs
  <2>4. PICK j \in 1..Count(c) : j \in 0..Count(c) /\ j \in Nat /\ a = ObjectAt(h, c, j)
    BY <2>3, ObjectsAre
  <2>5. a = o.addr
    BY <2>1, <2>3, <2>4, PlacesShareNothing
  <2> QED
    BY <2>3, <2>5 DEF InUse
<1>3. ASSUME NEW o \in live, NEW c \in Classes, NEW b \in Bytes(o), b \in HeaderBytes(c)
      PROVE  FALSE
  <2>1. PICK h \in ToSet(slabs[c]) : b \in PageToVirt(h)..(PageToVirt(h) + OrderToSize[c] - 1)
    BY <1>3 DEF HeaderBytes
  <2>2. h \in SlabSets[c] /\ h \in Pages
    BY <2>1, SlabSetsAre, FreeListIs
  <2>3. OrderToSize[c] \in Nat /\ Count(c) \in Nat /\ PageToVirt(h) \in Nat
    BY <2>2, ClassesAre, PageStart DEF Pages
  <2>4. ObjectAt(h, c, 0) = PageToVirt(h) /\ 0 \in 0..Count(c) /\ 0 \in Nat
    BY <2>3 DEF ObjectAt
  <2> QED
    BY <2>1, <2>2, <2>4, PlacesShareNothing
<1>4. ASSUME NEW o \in live, NEW b \in Bytes(o)
      PROVE  b \in Addrs /\ \E page \in held : VirtToPage(b) \in Chunk(page)
  <2>1. PICK h \in held : h \in Pages /\ (HomeInSlab(o, h) \/ HomeInPages(o, h))
    BY HomeOf
  <2>2. b \in Int /\ VirtToPage(b) \in Span(h, pool.order[h])
    BY <2>1, BytesAtHome
  <2>3. VirtToPage(b) \in Pages /\ VirtToPage(b) \in Chunk(h)
    BY <2>2, HeldApart DEF KmallocInv, BuddyInv, Apart, Chunk, Span
  <2>4. b \in Addrs
    <3>1. PageSize \in Nat \ {0} /\ NPages \in Nat /\ 0 \in Nat
      BY SizesAssumption, PoolAssumption, OrderSizes
    <3>2. VirtToPage(b) \in 0..(0 + NPages - 1)
      BY <2>3, <3>1 DEF Pages
    <3>3. PageToVirt(0) <= b /\ b < PageToVirt(0) + NPages * PageSize
      BY <2>2, <3>1, <3>2, PageOfByte
    <3>4. PageToVirt(0) = 0 /\ NPages * PageSize \in Nat
      BY <3>1 DEF PageToVirt
    <3> QED
      BY <2>2, <3>3, <3>4 DEF Addrs
  <2> QED
    BY <2>3, <2>4
<1>5. ASSUME NEW o \in live, NEW c \in Classes
      PROVE  Bytes(o) \cap (FreeBytes(c) \cup HeaderBytes(c)) = {}
  BY <1>2, <1>3
<1> QED
  BY <1>1, <1>4, <1>5 DEF ObjectsDisjoint

\* The invariant gives that a slab object is in use or free, a held chunk a slab or an object.
LEMMA NothingLost == KmallocInv => MemoryConserved
<1> SUFFICES ASSUME KmallocInv PROVE MemoryConserved
  OBVIOUS
<1>1. ASSUME NEW c \in Classes, NEW head \in ToSet(slabs[c])
      PROVE  LET objects == ToSet(NewSlots(head, c))
                 used    == {o.addr : o \in live} \cap objects
             IN  /\ IsInjective(slots[head])
                 /\ used \cap ToSet(slots[head]) = {}
                 /\ used \cup ToSet(slots[head]) = objects
  <2>1. head \in SlabSets[c]
    BY SlabSetsAre
  <2>2. /\ head \in Pages
        /\ ListOf(slots[head], ToSet(slots[head])) /\ ToSet(slots[head]) \subseteq Objects(head, c)
        /\ \A a \in ToSet(slots[head]) : a \notin InUse(live)
        /\ \A a \in Objects(head, c) : a \in ToSet(slots[head]) \/ a \in InUse(live)
    BY <2>1, FreeListIs
  <2>3. ToSet(NewSlots(head, c)) = Objects(head, c)
    BY <2>2, NewSlotsAre, ListMembers
  <2>4. IsInjective(slots[head])
    BY <2>2 DEF ListOf
  <2> QED
    BY <2>2, <2>3, <2>4 DEF InUse
<1>2. /\ SlabsFit(held, pool.order, SlabSets, slab) /\ Apart(held, pool.order)
      /\ LiveFit(held, pool.order, SlabSets, live)
  BY HeldApart DEF KmallocInv, BuddyInv, HeapFits
<1>3. \A h : h \in Slabs <=> h \in Pages /\ \E c \in Classes : h \in SlabSets[c]
  BY SlabSetsAre DEF Slabs
<1> DEFINE Whole == {VirtToPage(o.addr) : o \in {p \in live : slab[VirtToPage(p.addr)] = NULL}}
<1>4. ASSUME NEW h \in held PROVE h \in Slabs \cup Whole
  <2>1. h \in Pages
    BY <1>2 DEF Apart
  <2>2. CASE \E c \in Classes : h \in SlabSets[c]
    BY <1>3, <2>1, <2>2
  <2>3. CASE \A c \in Classes : h \notin SlabSets[c]
    <3>1. PICK o \in live : o.addr = PageToVirt(h)
      BY <1>2, <2>3 DEF LiveFit, InUse
    <3>2. slab[h] = NULL /\ VirtToPage(PageToVirt(h)) = h
      BY <1>2, <2>3, PagesAlone
    <3> QED
      BY <3>1, <3>2
  <2> QED
    BY <2>2, <2>3
<1>5. ASSUME NEW h \in Slabs PROVE h \in held
  <2>1. PICK c \in Classes : h \in SlabSets[c]
    BY <1>3
  <2> QED
    BY <1>2, <2>1 DEF SlabsFit
<1>6. ASSUME NEW o \in live, slab[VirtToPage(o.addr)] = NULL PROVE VirtToPage(o.addr) \in held
  <2>1. PICK h \in held : h \in Pages /\ (HomeInSlab(o, h) \/ HomeInPages(o, h))
    BY HomeOf
  <2>2. CASE HomeInSlab(o, h)
    <3>1. PICK c \in Classes : h \in SlabSets[c] /\ o.addr \in Objects(h, c)
      BY <2>2 DEF HomeInSlab
    <3>2. slab[VirtToPage(o.addr)] = h
      BY <1>2, <3>1, SlabOf
    <3> QED
      BY <1>6, <2>1, <3>2, NullIsNoPage
  <2>3. CASE HomeInPages(o, h)
    <3>1. VirtToPage(o.addr) = h
      BY <2>1, <2>3, PageStart DEF HomeInPages, Pages
    <3> QED
      BY <3>1
  <2> QED
    BY <2>1, <2>2, <2>3
<1>7. held = Slabs \cup Whole
  BY <1>4, <1>5, <1>6
<1> QED
  BY <1>1, <1>7 DEF MemoryConserved

\* Whatever is asked for and freed, what callers have stays apart from one another and
\* from what the allocators keep in free memory.
THEOREM ObjectsStayApart == KmallocSpec => []ObjectsDisjoint
<1> QED
  BY KmallocInvariant, KeptApart, PTL

\* Whatever is asked for and freed, no object and no page of the pool is lost or is
\* there twice.
THEOREM NoMemoryLost == KmallocSpec => []MemoryConserved
<1> QED
  BY KmallocInvariant, NothingLost, PTL
==============================================================================
