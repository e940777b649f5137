------------------------------ MODULE DataLemmas -----------------------------
(***************************************************************************)
(* Lemmas about data that several proofs need: the least element of a set  *)
(* of numbers, functions that are defined by recursion on a number, and    *)
(* lists without repetitions as the kernel links them.                     *)
(***************************************************************************)
EXTENDS Integers, SequencesExt, SequenceTheorems, WellFoundedInduction, TLAPS

\* A set of natural numbers with a member has a least one.
LEMMA LeastNat ==
  ASSUME NEW B, B \subseteq Nat, B # {}
  PROVE  \E n \in B : \A m \in B : n <= m
<1>1. PICK n \in B : \A m \in B : ~ (<<m, n>> \in OpToRel(<, Nat))
  BY NatLessThanWellFounded, WFMin
<1>2. \A m \in B : m < n => <<m, n>> \in OpToRel(<, Nat)
  <2> SUFFICES ASSUME NEW m \in B, m < n PROVE <<m, n>> \in OpToRel(<, Nat)
    OBVIOUS
  <2>1. <<m, n>> \in Nat \X Nat /\ <<m, n>>[1] < <<m, n>>[2]
    OBVIOUS
  <2> QED
    BY <2>1, Zenon DEF OpToRel
<1>3. \A m \in B : ~(m < n)
  BY <1>1, <1>2, Zenon
<1> QED
  BY <1>3

\* What holds at 0 and is kept by a step holds of every number up to N.
LEMMA UpTo ==
  ASSUME NEW N \in Nat, NEW Good, 0 \in Good,
         \A n \in 1..N : n - 1 \in Good => n \in Good
  PROVE  0..N \subseteq Good
<1> DEFINE Bad == {n \in 0..N : n \notin Good}
<1> SUFFICES ASSUME Bad # {} PROVE FALSE
  OBVIOUS
<1>1. Bad \subseteq Nat
  OBVIOUS
<1>2. PICK n \in Bad : \A m \in Bad : n <= m
  <2> HIDE DEF Bad
  <2> QED
    BY <1>1, LeastNat
<1>3. n \in 1..N /\ n - 1 \in 0..N /\ n - 1 \notin Bad
  <2>1. n \in 0..N /\ n # 0
    OBVIOUS
  <2>2. n \in 1..N /\ n - 1 \in 0..N /\ ~(n <= n - 1)
    BY <2>1
  <2> HIDE DEF Bad
  <2> QED
    BY <1>2, <2>2
<1> QED
  BY <1>3

\* A function on 0..N that is defined by recursion: G[n] is the step from n - 1 to n.
Recursive(f, N, base, G) == f = [n \in 0..N |-> IF n = 0 THEN base ELSE G[n][f[n - 1]]]

\* It exists; E[n] is where its value at n lies.
LEMMA RecursionIs ==
  ASSUME NEW N \in Nat, NEW E, NEW G, NEW base, base \in E[0],
         \A n \in 1..N : \A x \in E[n - 1] : G[n][x] \in E[n]
  PROVE  \E f : Recursive(f, N, base, G) /\ \A n \in 0..N : f[n] \in E[n]
<1> DEFINE Body(f, n) == IF n = 0 THEN base ELSE G[n][f[n - 1]]
           Good == {k \in Nat : \E f : f = [n \in 0..k |-> Body(f, n)]}
<1>1. 0 \in Good
  <2> DEFINE f == [n \in 0..0 |-> base]
  <2>1. f = [n \in 0..0 |-> Body(f, n)]
    OBVIOUS
  <2> QED
    BY <2>1
<1>2. ASSUME NEW k \in 1..N, k - 1 \in Good PROVE k \in Good
  <2>1. PICK f : f = [n \in 0..(k - 1) |-> Body(f, n)]
    BY <1>2
  <2> DEFINE h == [n \in 0..k |-> Body(f, n)]
  <2>2. \A n \in 0..k : n # 0 => h[n - 1] = f[n - 1]
    <3> SUFFICES ASSUME NEW n \in 0..k, n # 0 PROVE h[n - 1] = f[n - 1]
      OBVIOUS
    <3>1. n - 1 \in 0..(k - 1) /\ n - 1 \in 0..k
      OBVIOUS
    <3> HIDE DEF Body
    <3> QED
      BY <2>1, <3>1
  <2>3. \A n \in 0..k : Body(h, n) = Body(f, n)
    <3> HIDE DEF h
    <3> QED
      BY <2>2
  <2>4. h = [n \in 0..k |-> Body(h, n)]
    <3> HIDE DEF Body
    <3>1. h = [n \in 0..k |-> Body(f, n)]
      OBVIOUS
    <3> HIDE DEF h
    <3> QED
      BY <2>3, <3>1, Zenon
  <2>5. k \in Nat
    OBVIOUS
  <2> HIDE DEF h, Body
  <2> QED
    BY <2>4, <2>5
<1>3. N \in Good
  <2> HIDE DEF Good
  <2> QED
    BY <1>1, <1>2, UpTo
<1>4. PICK f : f = [n \in 0..N |-> Body(f, n)]
  BY <1>3
<1>5. \A n \in 0..N : f[n] \in E[n]
  <2> DEFINE Typed == {n \in 0..N : f[n] \in E[n]}
  <2>1. \A n \in 0..N : f[n] = Body(f, n)
    <3> HIDE DEF Body
    <3> QED
      BY <1>4
  <2>2. 0 \in Typed
    BY <2>1
  <2>3. ASSUME NEW n \in 1..N, n - 1 \in Typed PROVE n \in Typed
    <3>1. n \in 0..N /\ n # 0 /\ f[n - 1] \in E[n - 1]
      BY <2>3
    <3>2. f[n] = G[n][f[n - 1]]
      BY <2>1, <3>1
    <3> QED
      BY <3>1, <3>2
  <2>4. 0..N \subseteq Typed
    <3> HIDE DEF Typed
    <3> QED
      BY <2>2, <2>3, UpTo
  <2> QED
    BY <2>4
<1> QED
  BY <1>4, <1>5, Zenon DEF Recursive

\* The powers of a up to that of N, as a recursive function computes them.
Power(a, N) == CHOOSE g : g = [n \in 0..N |-> IF n = 0 THEN 1 ELSE a * g[n - 1]]

\* Power(a, N) is the powers of a, one product after another.
LEMMA Powers ==
  ASSUME NEW N \in Nat, NEW a \in Nat \ {0}
  PROVE  /\ Power(a, N)[0] = 1
         /\ \A n \in 0..N : Power(a, N)[n] \in Nat \ {0}
         /\ \A n \in 1..N : Power(a, N)[n] = a * Power(a, N)[n - 1]
<1> DEFINE E == [n \in 0..N |-> Nat \ {0}]
           G == [n \in 1..N |-> [x \in Nat \ {0} |-> a * x]]
           Body(f, n) == IF n = 0 THEN 1 ELSE a * f[n - 1]
           pow == Power(a, N)
<1>1. 1 \in E[0] /\ \A n \in 1..N : \A x \in E[n - 1] : G[n][x] \in E[n]
  <2>1. 1 \in E[0]
    OBVIOUS
  <2>2. ASSUME NEW n \in 1..N, NEW x \in E[n - 1] PROVE G[n][x] \in E[n]
    <3>1. n - 1 \in 0..N /\ n \in 0..N
      OBVIOUS
    <3>2. x \in Nat \ {0}
      BY <2>2, <3>1
    <3>3. a * x \in Nat \ {0}
      BY <3>2
    <3> QED
      BY <3>1, <3>2, <3>3
  <2> QED
    BY <2>1, <2>2
<1>2. PICK f : Recursive(f, N, 1, G) /\ \A n \in 0..N : f[n] \in E[n]
  <2> HIDE DEF E, G
  <2> QED
    BY <1>1, RecursionIs
<1>3. \A n \in 0..N : n # 0 => G[n][f[n - 1]] = a * f[n - 1]
  <2> SUFFICES ASSUME NEW n \in 0..N, n # 0 PROVE G[n][f[n - 1]] = a * f[n - 1]
    OBVIOUS
  <2>1. n \in 1..N /\ n - 1 \in 0..N
    OBVIOUS
  <2>2. f[n - 1] \in Nat \ {0}
    BY <1>2, <2>1
  <2> QED
    BY <2>1, <2>2
<1>4. f = [n \in 0..N |-> Body(f, n)]
  <2> HIDE DEF G
  <2> QED
    BY <1>2, <1>3 DEF Recursive
<1>5. pow = [n \in 0..N |-> Body(pow, n)]
  <2>1. pow = CHOOSE g : g = [n \in 0..N |-> Body(g, n)]
    BY Zenon DEF Power
  <2> HIDE DEF Body, pow
  <2> QED
    BY <1>4, <2>1
<1> HIDE DEF pow
<1>6. \A n \in 0..N : pow[n] = Body(pow, n)
  <2> HIDE DEF Body
  <2> QED
    BY <1>5
<1>7. pow[0] = 1 /\ \A n \in 1..N : pow[n] = a * pow[n - 1]
  BY <1>6
<1> DEFINE Good == {n \in Nat : pow[n] \in Nat \ {0}}
<1>8. 0 \in Good
  BY <1>7
<1>9. ASSUME NEW n \in 1..N, n - 1 \in Good PROVE n \in Good
  <2>1. a * pow[n - 1] \in Nat \ {0}
    BY <1>9
  <2> QED
    BY <1>7, <2>1
<1>10. 0..N \subseteq Good
  <2> HIDE DEF Good
  <2> QED
    BY <1>8, <1>9, UpTo
<1> QED
  BY <1>7, <1>10 DEF pow

-----------------------------------------------------------------------------
\* A list that has each member of S once and nothing else.
ListOf(list, S) ==
    list \in Seq(S) /\ IsInjective(list) /\ \A x \in S : \E i \in 1..Len(list) : list[i] = x

\* A list of a set has its members, and a first one unless it is empty.
LEMMA ListMembers ==
  ASSUME NEW S, NEW list, ListOf(list, S)
  PROVE  ToSet(list) = S /\ (S # {} <=> Len(list) >= 1) /\ (S # {} => Head(list) \in S)
<1>1. DOMAIN list = 1..Len(list) /\ Len(list) \in Nat
  BY LenProperties DEF ListOf
<1>2. \A i \in 1..Len(list) : list[i] \in S
  BY ElementOfSeq DEF ListOf
<1>3. ToSet(list) = S
  BY <1>1, <1>2 DEF ToSet, ListOf
<1>4. S # {} <=> Len(list) >= 1
  BY <1>1, <1>2 DEF ListOf
<1>5. S # {} => Head(list) \in S
  <2> SUFFICES ASSUME S # {} PROVE Head(list) \in S
    OBVIOUS
  <2>1. Head(list) = list[1] /\ 1 \in 1..Len(list)
    BY <1>1, <1>4
  <2> QED
    BY <2>1, <1>2
<1> QED
  BY <1>3, <1>4, <1>5

\* list_add()
LEMMA ListWith ==
  ASSUME NEW S, NEW list, ListOf(list, S), NEW x, x \notin S
  PROVE  ListOf(<<x>> \o list, S \cup {x}) /\ Len(<<x>> \o list) = Len(list) + 1
<1> DEFINE with == <<x>> \o list
<1>1. list \in Seq(S) /\ Len(list) \in Nat
  BY LenProperties DEF ListOf
<1>2. <<x>> \in Seq(S \cup {x}) /\ list \in Seq(S \cup {x})
  BY <1>1, SeqMonotonic
<1>3. /\ with \in Seq(S \cup {x}) /\ Len(with) = Len(list) + 1
      /\ \A i \in 1..Len(with) : with[i] = IF i = 1 THEN x ELSE list[i - 1]
  BY <1>1, <1>2, ConcatProperties
<1> HIDE DEF with
<1>4. DOMAIN with = 1..Len(with) /\ DOMAIN list = 1..Len(list)
  BY <1>1, <1>3, LenProperties
<1>5. \A i \in 1..Len(list) : list[i] \in S
  BY <1>1, ElementOfSeq
<1>6. IsInjective(with)
  <2> SUFFICES ASSUME NEW i \in 1..Len(with), NEW j \in 1..Len(with), with[i] = with[j]
               PROVE  i = j
    BY <1>4 DEF IsInjective
  <2>1. i # 1 => i - 1 \in 1..Len(list) /\ with[i] = list[i - 1]
    BY <1>1, <1>3
  <2>2. j # 1 => j - 1 \in 1..Len(list) /\ with[j] = list[j - 1]
    BY <1>1, <1>3
  <2>3. (i = 1 => with[i] = x) /\ (j = 1 => with[j] = x)
    BY <1>3
  <2>4. i # 1 /\ j # 1 => i - 1 = j - 1
    BY <2>1, <2>2, <1>4, SMTT(30) DEF ListOf, IsInjective
  <2> QED
    BY <2>1, <2>2, <2>3, <2>4, <1>5
<1>7. ASSUME NEW y \in S \cup {x} PROVE \E i \in 1..Len(with) : with[i] = y
  <2>1. CASE y = x
    <3>1. 1 \in 1..Len(with) /\ with[1] = x
      BY <1>1, <1>3
    <3> QED
      BY <2>1, <3>1
  <2>2. CASE y \in S
    <3>1. PICK i \in 1..Len(list) : list[i] = y
      BY <2>2 DEF ListOf
    <3>2. i + 1 \in 1..Len(with) /\ i + 1 # 1 /\ (i + 1) - 1 = i
      BY <1>1, <1>3
    <3>3. with[i + 1] = list[i]
      BY <1>3, <3>2
    <3> QED
      BY <3>1, <3>2, <3>3
  <2> QED
    BY <2>1, <2>2
<1>8. ListOf(with, S \cup {x})
  BY <1>3, <1>6, <1>7 DEF ListOf
<1> QED
  BY <1>3, <1>8 DEF with

\* list_del(), if the list has the node
LEMMA ListWithout ==
  ASSUME NEW S, NEW list, ListOf(list, S), NEW x
  PROVE  /\ ListOf(RemoveFirst(list, x), S \ {x})
         /\ Len(RemoveFirst(list, x)) = IF x \in S THEN Len(list) - 1 ELSE Len(list)
<1>1. list \in Seq(S) /\ Len(list) \in Nat /\ DOMAIN list = 1..Len(list)
  BY LenProperties DEF ListOf
<1>2. \A i \in 1..Len(list) : list[i] \in S
  BY <1>1, ElementOfSeq
<1>3. CASE x \notin S
  <2>1. ~ \E i \in 1..Len(list) : list[i] = x
    BY <1>2, <1>3
  <2>2. RemoveFirst(list, x) = list
    BY <2>1 DEF RemoveFirst
  <2>3. S \ {x} = S
    BY <1>3
  <2> QED
    BY <1>3, <2>2, <2>3
<1>4. CASE x \in S
  <2> DEFINE at == SelectInSeq(list, LAMBDA v : v = x)
             I == {i \in 1..Len(list) : list[i] = x}
  <2>1. PICK k \in 1..Len(list) : list[k] = x
    BY <1>4 DEF ListOf
  <2>2. I = {k}
    BY <1>1, <2>1 DEF ListOf, IsInjective
  <2>3. at = k
    <3>1. at = Min(I)
      BY <2>2 DEF SelectInSeq
    <3>2. Min({k}) = k
      BY DEF Min
    <3> QED
      BY <2>2, <3>1, <3>2
  <2>4. RemoveFirst(list, x) = RemoveAt(list, k)
    <3> HIDE DEF at
    <3> QED
      BY <2>1, <2>3 DEF RemoveFirst, at
  <2> DEFINE front == SubSeq(list, 1, k - 1)
             back  == SubSeq(list, k + 1, Len(list))
             rest  == front \o back
  <2>5. /\ front \in Seq(S) /\ Len(front) = k - 1
        /\ \A i \in 1..(k - 1) : front[i] = list[i]
    BY <1>1, SubSeqProperties
  <2>6. /\ back \in Seq(S) /\ Len(back) = Len(list) - k
        /\ \A i \in 1..(Len(list) - k) : back[i] = list[k + i]
    <3>1. k + 1 \in Int /\ Len(list) \in Int /\ \A i \in (k + 1)..Len(list) : list[i] \in S
      BY <1>1, <1>2
    <3>2. /\ back \in Seq(S)
          /\ Len(back) = IF k + 1 <= Len(list) THEN Len(list) - (k + 1) + 1 ELSE 0
          /\ \A i \in 1..(Len(list) - (k + 1) + 1) : back[i] = list[(k + 1) + i - 1]
      BY <3>1, SubSeqProperties
    <3> HIDE DEF back
    <3>3. Len(back) = Len(list) - k
      <4>1. Len(list) \in Nat /\ k \in 1..Len(list)
        BY <1>1
      <4>2. Len(back) = IF k + 1 <= Len(list) THEN Len(list) - (k + 1) + 1 ELSE 0
        BY <3>2
      <4>3. CASE k = Len(list)
        BY <4>1, <4>2, <4>3
      <4>4. CASE k # Len(list)
        BY <4>1, <4>2, <4>4
      <4> QED
        BY <4>3, <4>4
    <3>4. \A i \in 1..(Len(list) - k) : i \in 1..(Len(list) - (k + 1) + 1) /\ (k + 1) + i - 1 = k + i
      BY <1>1
    <3> QED
      BY <3>2, <3>3, <3>4
  <2> HIDE DEF front, back
  <2>7. /\ rest \in Seq(S) /\ Len(rest) = Len(list) - 1
        /\ \A i \in 1..Len(rest) : rest[i] = IF i < k THEN list[i] ELSE list[i + 1]
    <3>1. rest \in Seq(S) /\ Len(rest) = Len(front) + Len(back)
      BY <2>5, <2>6, ConcatProperties
    <3>2. \A i \in 1..Len(rest) : rest[i] = IF i <= Len(front) THEN front[i] ELSE back[i - Len(front)]
      BY <2>5, <2>6, ConcatProperties
    <3> HIDE DEF rest
    <3>3. ASSUME NEW i \in 1..Len(rest) PROVE rest[i] = IF i < k THEN list[i] ELSE list[i + 1]
      <4>1. CASE i < k
        BY <4>1, <3>2, <2>5
      <4>2. CASE ~(i < k)
        <5>1. i - (k - 1) \in 1..(Len(list) - k) /\ k + (i - (k - 1)) = i + 1
          BY <4>2, <3>1, <2>5, <2>6, <1>1
        <5>2. rest[i] = back[i - (k - 1)]
          BY <4>2, <3>2, <2>5
        <5> QED
          BY <4>2, <5>1, <5>2, <2>6
      <4> QED
        BY <4>1, <4>2
    <3> QED
      BY <3>1, <3>3, <2>5, <2>6, <1>1
  <2>8. RemoveFirst(list, x) = rest
    BY <2>4 DEF RemoveAt, front, back
  <2> HIDE DEF rest
  <2> DEFINE from(i) == IF i < k THEN i ELSE i + 1
  <2>9. \A i \in 1..Len(rest) : from(i) \in 1..Len(list) /\ from(i) # k /\ rest[i] = list[from(i)]
    BY <1>1, <2>7
  <2>10. \A i, j \in 1..Len(rest) : from(i) = from(j) => i = j
    BY <1>1, <2>7
  <2>11. DOMAIN rest = 1..Len(rest)
    BY <2>7, LenProperties
  <2>12. IsInjective(rest)
    <3> HIDE DEF from
    <3> QED
      BY <2>9, <2>10, <2>11, <1>1 DEF ListOf, IsInjective
  <2>13. rest \in Seq(S \ {x})
    <3>1. \A i \in 1..Len(rest) : rest[i] \in S \ {x}
      <4> HIDE DEF from
      <4> QED
        BY <2>1, <2>9, <1>1, <1>2 DEF ListOf, IsInjective
    <3> QED
      BY <3>1, <2>7, <2>11, SeqDef, IsASeq
  <2>14. ASSUME NEW y \in S \ {x} PROVE \E i \in 1..Len(rest) : rest[i] = y
    <3>1. PICK j \in 1..Len(list) : list[j] = y
      BY DEF ListOf
    <3>2. j # k
      BY <2>1, <3>1
    <3>3. \E i \in 1..Len(rest) : from(i) = j
      <4>1. CASE j < k
        <5>1. j \in 1..Len(rest) /\ from(j) = j
          BY <4>1, <2>7, <1>1
        <5> QED
          BY <5>1
      <4>2. CASE ~(j < k)
        <5>1. j - 1 \in 1..Len(rest) /\ from(j - 1) = j
          BY <4>2, <3>2, <2>7, <1>1
        <5> QED
          BY <5>1
      <4> QED
        BY <4>1, <4>2
    <3> QED
      BY <3>1, <3>3, <2>9
  <2> QED
    BY <1>4, <2>7, <2>8, <2>12, <2>13, <2>14 DEF ListOf
<1> QED
  BY <1>3, <1>4
\* The head of a list is taken.
LEMMA ListTail ==
  ASSUME NEW S, NEW list, ListOf(list, S), list # <<>>
  PROVE  ListOf(Tail(list), S \ {Head(list)}) /\ Head(list) \in S
<1> DEFINE rest == Tail(list)
<1>1. list \in Seq(S) /\ Len(list) \in Nat \ {0} /\ DOMAIN list = 1..Len(list)
  BY LenProperties, EmptySeq DEF ListOf
<1>2. /\ rest \in Seq(S) /\ Len(rest) = Len(list) - 1 /\ Head(list) = list[1]
      /\ \A i \in 1..Len(rest) : rest[i] = list[i + 1]
  BY <1>1, HeadTailProperties
<1>3. \A i, j \in 1..Len(list) : list[i] = list[j] => i = j
  BY <1>1 DEF ListOf, IsInjective
<1> HIDE DEF rest
<1>4. ASSUME NEW i \in 1..Len(rest) PROVE rest[i] \in S \ {Head(list)}
  <2>1. i + 1 \in 1..Len(list) /\ 1 \in 1..Len(list) /\ i + 1 # 1
    BY <1>1, <1>2
  <2>2. list[i + 1] \in S
    BY <1>1, <2>1, ElementOfSeq
  <2> QED
    BY <1>2, <1>3, <2>1, <2>2
<1>5. rest \in Seq(S \ {Head(list)})
  <2>1. rest = [i \in 1..Len(rest) |-> rest[i]] /\ Len(rest) \in Nat
    BY <1>1, <1>2
  <2> QED
    BY <1>4, <2>1
<1>6. ASSUME NEW i \in 1..Len(rest), NEW j \in 1..Len(rest), rest[i] = rest[j] PROVE i = j
  <2>1. i + 1 \in 1..Len(list) /\ j + 1 \in 1..Len(list) /\ list[i + 1] = list[j + 1]
    BY <1>1, <1>2, <1>6
  <2>2. i + 1 = j + 1
    BY <1>3, <2>1
  <2> QED
    BY <2>2
<1>7. IsInjective(rest)
  <2>1. DOMAIN rest = 1..Len(rest)
    BY <1>5
  <2> QED
    BY <1>6, <2>1 DEF IsInjective
<1>8. ASSUME NEW x \in S \ {Head(list)} PROVE \E i \in 1..Len(rest) : rest[i] = x
  <2>1. PICK j \in 1..Len(list) : list[j] = x
    BY DEF ListOf
  <2>2. j # 1
    BY <1>2, <2>1
  <2>3. j - 1 \in 1..Len(rest) /\ (j - 1) + 1 = j
    BY <1>1, <1>2, <2>2
  <2> QED
    BY <1>2, <2>1, <2>3
<1>9. Head(list) \in S
  <2>1. 1 \in 1..Len(list)
    BY <1>1
  <2> QED
    BY <1>1, <1>2, <2>1, ElementOfSeq
<1> QED
  BY <1>5, <1>7, <1>8, <1>9 DEF ListOf, rest
=============================================================================
