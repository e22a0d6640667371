-------------------------- MODULE StructuresProofs --------------------------
(***************************************************************************)
(* Two data structures, for every set of values: the array of intset.c is  *)
(* the ascending sequence of the set it stands for; the tables of dict.c   *)
(* are whole at every moment of a rehash, and a safe iterator is exact.    *)
(***************************************************************************)
EXTENDS Intset, Dict, FiniteSetTheorems, SequenceTheorems, WellFoundedInduction, TLAPS

---------------------------------------------------------------------------
(* Intsets: the binary search.                                             *)

LEMMA LeastNatural ==
    ASSUME NEW S \in SUBSET Nat, S # {}
    PROVE  \E x \in S : \A y \in S : x <= y
  <1> DEFINE R == OpToRel(<, Nat)
  <1>1. IsWellFoundedOn(R, Nat)
    BY NatLessThanWellFounded
  <1>2. \A x, y \in Nat : <<x, y>> \in R <=> x < y
    BY DEF OpToRel
  <1> HIDE DEF R
  <1>3. PICK x \in S : \A y \in S : ~(<<y, x>> \in R)
    BY <1>1, WFMin
  <1>4. \A y \in S : x \in Nat /\ y \in Nat /\ ~(y < x)
    BY <1>2, <1>3
  <1> QED BY <1>4

LEMMA IntervalInduction ==
    ASSUME NEW n \in Nat, NEW G, 0 \in G, \A i \in 1..n : i - 1 \in G => i \in G
    PROVE  0..n \subseteq G
  <1> DEFINE Bad == {i \in 0..n : i \notin G}
  <1> SUFFICES ASSUME Bad # {} PROVE FALSE
    OBVIOUS
  <1>1. PICK i \in Bad : \A y \in Bad : i <= y
    <2>1. Bad \in SUBSET Nat
      OBVIOUS
    <2> QED BY <2>1, LeastNatural
  <1>2. i \in 1..n /\ i \notin G
    BY <1>1
  <1>3. i - 1 \in 0..n /\ i - 1 < i
    BY <1>2
  <1>4. i - 1 \in G
    BY <1>1, <1>2, <1>3
  <1> QED BY <1>2, <1>4

Start(n) == [min |-> 0, max |-> n - 1, found |-> FALSE]

\* The range searched after each iteration.
SearchLoop(f, c, v, n, m) == f = [i \in 0..m |-> IF i = 0 THEN Start(n) ELSE SearchStep(c, v, f[i - 1])]

LEMMA SearchLoopExists ==
    ASSUME NEW c, NEW v, NEW n \in Nat, NEW k \in Nat
    PROVE  \E f : SearchLoop(f, c, v, n, k)
  <1> DEFINE Bad == {m \in Nat : ~\E f : SearchLoop(f, c, v, n, m)}
  <1> SUFFICES ASSUME Bad # {} PROVE FALSE
    OBVIOUS
  <1>1. PICK m \in Bad : \A y \in Bad : m <= y
    BY LeastNatural
  <1>2. m # 0
    <2>1. SearchLoop([i \in 0..0 |-> Start(n)], c, v, n, 0)
      BY DEF SearchLoop
    <2> QED BY <2>1
  <1>3. m - 1 \in Nat /\ m \in Nat /\ m - 1 \notin Bad
    BY <1>1, <1>2
  <1>4. PICK f : SearchLoop(f, c, v, n, m - 1)
    BY <1>3
  <1> DEFINE g == [i \in 0..m |-> IF i = m THEN SearchStep(c, v, f[m - 1]) ELSE f[i]]
  <1>5. SearchLoop(g, c, v, n, m)
    <2>1. \A i \in 0..(m - 1) : g[i] = f[i]
      BY <1>3
    <2>2. \A i \in 0..(m - 1) : f[i] = IF i = 0 THEN Start(n) ELSE SearchStep(c, v, f[i - 1])
      BY <1>4 DEF SearchLoop
    <2>3. \A i \in 0..m : g[i] = IF i = 0 THEN Start(n) ELSE SearchStep(c, v, g[i - 1])
      <3> SUFFICES ASSUME NEW i \in 0..m PROVE g[i] = IF i = 0 THEN Start(n) ELSE SearchStep(c, v, g[i - 1])
        OBVIOUS
      <3>1. CASE i = m
        <4>1. g[i] = SearchStep(c, v, f[m - 1]) /\ g[m - 1] = f[m - 1] /\ i # 0
          BY <1>2, <1>3, <2>1, <3>1
        <4> QED BY <3>1, <4>1
      <3>2. CASE i # m
        <4>1. i \in 0..(m - 1) /\ (i # 0 => i - 1 \in 0..(m - 1))
          BY <1>3, <3>2
        <4> QED BY <2>1, <2>2, <4>1
      <3> QED BY <3>1, <3>2
    <2> QED BY <2>3 DEF SearchLoop
  <1> QED BY <1>1, <1>5

LEMMA SearchIsLoop ==
    ASSUME NEW c, NEW v, NEW n \in Nat, Len(c) = n
    PROVE  \E f : SearchLoop(f, c, v, n, n) /\ BinarySearch(c, v) = [found |-> f[n].found, pos |-> f[n].min]
  <1> DEFINE f == CHOOSE f : SearchLoop(f, c, v, n, n)
  <1>1. SearchLoop(f, c, v, n, n)
    BY SearchLoopExists
  <1>2. BinarySearch(c, v) = [found |-> f[n].found, pos |-> f[n].min]
    BY DEF BinarySearch, SearchLoop, Start
  <1> QED BY <1>1, <1>2

\* A strictly ascending array.
Ascending(c) == \A i, j \in 1..Len(c) : i < j => c[i] < c[j]

\* What lies before the range is smaller than the value searched, what lies after it is
\* larger, and every iteration makes the range smaller.
SearchInv(c, v, n, i, at) ==
  /\ at \in [min : Int, max : Int, found : BOOLEAN]
  /\ at.found => at.min \in 0..(n - 1) /\ c[at.min + 1] = v
  /\ ~at.found =>
       /\ 0 <= at.min /\ at.min <= at.max + 1 /\ at.max <= n - 1 /\ at.max - at.min + 1 <= n - i
       /\ \A k \in 1..at.min : c[k] < v
       /\ \A k \in (at.max + 2)..n : c[k] > v

LEMMA SearchStepKeeps ==
    ASSUME NEW c \in Seq(Int), Ascending(c), NEW v \in Int, NEW n \in Nat, n = Len(c), NEW i \in 1..n, NEW at,
           SearchInv(c, v, n, i - 1, at), NEW to, to = SearchStep(c, v, at)
    PROVE  SearchInv(c, v, n, i, to)
  <1>1. at \in [min : Int, max : Int, found : BOOLEAN]
    BY DEF SearchInv
  <1>2. CASE at.found
    <2>1. to = at
      BY <1>2 DEF SearchStep
    <2> QED BY <1>1, <1>2, <2>1 DEF SearchInv
  <1>3. CASE ~at.found /\ at.max < at.min
    <2>1. to = at
      BY <1>3 DEF SearchStep
    <2> QED BY <1>1, <1>3, <2>1 DEF SearchInv
  <1>4. CASE ~at.found /\ ~(at.max < at.min)
    <2>1. PICK mid \in Int : mid = (at.min + at.max) \div 2
      BY <1>1
    <2>2. at.min <= mid /\ mid <= at.max /\ 0 <= at.min /\ at.max <= n - 1 /\ at.max - at.min + 1 <= n - i + 1
      <3>1. /\ 0 <= at.min /\ at.min <= at.max /\ at.max <= n - 1 /\ at.max - at.min + 1 <= n - (i - 1)
            /\ at.min \in Int /\ at.max \in Int
        BY <1>1, <1>4 DEF SearchInv
      <3> QED BY <2>1, <3>1, SMTT(30)
    <2>3. mid + 1 \in 1..n /\ c[mid + 1] \in Int
      BY <1>1, <2>2, ElementOfSeq
    <2>4. \A k \in 1..at.min : c[k] < v
      BY <1>4 DEF SearchInv
    <2>5. \A k \in (at.max + 2)..n : c[k] > v
      BY <1>4 DEF SearchInv
    <2>a. \A k \in 1..n : c[k] \in Int
      BY ElementOfSeq
    <2>6. CASE v > c[mid + 1]
      <3>1. to = [at EXCEPT !.min = mid + 1]
        BY <1>4, <2>1, <2>6 DEF SearchStep
      <3>2. to.min = mid + 1 /\ to.max = at.max /\ ~to.found /\ to \in [min : Int, max : Int, found : BOOLEAN]
        BY <1>1, <1>4, <3>1, SMTT(30)
      <3>3. \A k \in 1..(mid + 1) : c[k] < v
        <4> SUFFICES ASSUME NEW k \in 1..(mid + 1) PROVE c[k] < v
          OBVIOUS
        <4>1. k \in 1..n /\ (k < mid + 1 => c[k] < c[mid + 1])
          BY <2>3 DEF Ascending
        <4> QED BY <2>3, <2>6, <4>1, <2>a
      <3>4. to.min \in Int /\ to.max \in Int /\ 0 <= to.min /\ to.min <= to.max + 1 /\ to.max <= n - 1 /\ to.max - to.min + 1 <= n - i
        <4>1. at.max \in Int /\ at.min \in Int /\ i \in Int /\ at.max - mid <= n - i
          BY <1>1, <2>2, SMTT(30)
        <4>2. to.min = mid + 1 /\ to.max = at.max /\ mid \in Int /\ n \in Int
          BY <3>2
        <4> QED BY ONLY <2>2, <4>1, <4>2, SMTT(30)
      <3>5. \A k \in 1..to.min : c[k] < v
        BY <3>2, <3>3
      <3>6. \A k \in (to.max + 2)..n : c[k] > v
        BY <2>5, <3>2
      <3> QED BY <3>2, <3>4, <3>5, <3>6 DEF SearchInv
    <2>7. CASE v < c[mid + 1]
      <3>1. to = [at EXCEPT !.max = mid - 1]
        BY <1>4, <2>1, <2>3, <2>7 DEF SearchStep
      <3>2. to.min = at.min /\ to.max = mid - 1 /\ ~to.found /\ to \in [min : Int, max : Int, found : BOOLEAN]
        BY <1>1, <1>4, <3>1
      <3>3. \A k \in (mid + 1)..n : c[k] > v
        <4> SUFFICES ASSUME NEW k \in (mid + 1)..n PROVE c[k] > v
          OBVIOUS
        <4>1. k \in 1..n /\ (mid + 1 < k => c[mid + 1] < c[k])
          BY <2>3 DEF Ascending
        <4> QED BY <2>3, <2>7, <4>1, <2>a
      <3>4. to.min \in Int /\ to.max \in Int /\ 0 <= to.min /\ to.min <= to.max + 1 /\ to.max <= n - 1 /\ to.max - to.min + 1 <= n - i
        BY <1>1, <2>2, <3>2, SMTT(30)
      <3>5. \A k \in 1..to.min : c[k] < v
        BY <2>4, <3>2
      <3>6. \A k \in (to.max + 2)..n : c[k] > v
        <4>1. to.max + 2 = mid + 1
          BY <3>2
        <4> QED BY <3>3, <4>1
      <3> QED BY <3>2, <3>4, <3>5, <3>6 DEF SearchInv
    <2>8. CASE v = c[mid + 1]
      <3>1. to = [at EXCEPT !.found = TRUE, !.min = mid]
        BY <1>4, <2>1, <2>3, <2>8 DEF SearchStep
      <3>2. to.min = mid /\ to.max = at.max /\ to.found /\ to \in [min : Int, max : Int, found : BOOLEAN]
        BY <1>1, <1>4, <3>1
      <3> QED BY <2>3, <2>8, <3>2, SMTT(30) DEF SearchInv
    <2> QED BY <2>3, <2>6, <2>7, <2>8
  <1> QED BY <1>2, <1>3, <1>4

\* What a search returns: where the value is, or where it would go.
SearchExact(c, v, r) ==
  /\ r.found \in BOOLEAN
  /\ r.found => r.pos \in 0..(Len(c) - 1) /\ c[r.pos + 1] = v
  /\ ~r.found =>
       /\ r.pos \in 0..Len(c)
       /\ \A k \in 1..r.pos : c[k] < v
       /\ \A k \in (r.pos + 1)..Len(c) : v < c[k]

LEMMA BinarySearchExact ==
    ASSUME NEW c \in Seq(Int), Ascending(c), NEW v \in Int
    PROVE  SearchExact(c, v, BinarySearch(c, v))
  <1>1. PICK n \in Nat : n = Len(c)
    BY LenProperties
  <1>2. PICK f : SearchLoop(f, c, v, n, n) /\ BinarySearch(c, v) = [found |-> f[n].found, pos |-> f[n].min]
    BY <1>1, SearchIsLoop
  <1>3. \A i \in 0..n : f[i] = IF i = 0 THEN Start(n) ELSE SearchStep(c, v, f[i - 1])
    BY <1>2 DEF SearchLoop
  <1> DEFINE G == {i \in 0..n : SearchInv(c, v, n, i, f[i])}
  <1>4. 0 \in G
    <2>1. f[0] = Start(n)
      BY <1>3
    <2>2. f[0].min = 0 /\ f[0].max = n - 1 /\ f[0].found = FALSE /\ f[0] \in [min : Int, max : Int, found : BOOLEAN]
      BY <2>1 DEF Start
    <2>3. (\A k \in 1..f[0].min : c[k] < v) /\ (\A k \in (f[0].max + 2)..n : c[k] > v)
      BY <2>2
    <2>4. SearchInv(c, v, n, 0, f[0])
      BY <2>2, <2>3 DEF SearchInv
    <2> QED BY <2>4
  <1>5. \A i \in 1..n : i - 1 \in G => i \in G
    <2> SUFFICES ASSUME NEW i \in 1..n, i - 1 \in G PROVE i \in G
      OBVIOUS
    <2>1. f[i] = SearchStep(c, v, f[i - 1])
      BY <1>3
    <2>2. SearchInv(c, v, n, i - 1, f[i - 1])
      OBVIOUS
    <2>3. SearchInv(c, v, n, i, f[i])
      BY ONLY c \in Seq(Int), Ascending(c), v \in Int, n \in Nat, i \in 1..n, <1>1, <2>1, <2>2, SearchStepKeeps
    <2> QED BY <2>3
  <1>6. 0..n \subseteq G
    <2> HIDE DEF G
    <2> QED BY <1>4, <1>5, IntervalInduction
  <1>7. SearchInv(c, v, n, n, f[n])
    BY <1>6
  <1>8. PICK r : r = BinarySearch(c, v)
    OBVIOUS
  <1>9. r.found = f[n].found /\ r.pos = f[n].min
    BY <1>2, <1>8
  <1>10. f[n] \in [min : Int, max : Int, found : BOOLEAN]
    BY <1>7 DEF SearchInv
  <1>11. CASE f[n].found
    BY <1>1, <1>7, <1>8, <1>9, <1>10, <1>11 DEF SearchInv, SearchExact
  <1>12. CASE ~f[n].found
    <2>1. f[n].min = f[n].max + 1
      BY <1>7, <1>10, <1>12 DEF SearchInv
    <2>2. \A k \in 1..f[n].min : c[k] < v
      BY <1>7, <1>12 DEF SearchInv
    <2>3. \A k \in (f[n].max + 2)..n : c[k] > v
      BY <1>7, <1>12 DEF SearchInv
    <2>4. \A k \in (f[n].min + 1)..n : v < c[k]
      <3> SUFFICES ASSUME NEW k \in (f[n].min + 1)..n PROVE v < c[k]
        OBVIOUS
      <3>1. k \in (f[n].max + 2)..n
        BY <1>10, <2>1
      <3>2. k \in 1..Len(c)
        BY <1>1, <1>7, <1>10, <1>12 DEF SearchInv
      <3>3. c[k] \in Int
        BY <3>2, ElementOfSeq
      <3> QED BY <2>3, <3>1, <3>3
    <2>5. f[n].min \in 0..n
      BY <1>7, <1>10, <1>12, <2>1 DEF SearchInv
    <2> QED BY <1>1, <1>8, <1>9, <1>10, <1>12, <2>2, <2>4, <2>5 DEF SearchExact
  <1> QED BY <1>10, <1>11, <1>12

LEMMA intsetSearchExact ==
    ASSUME NEW s, s.contents \in Seq(Int), Ascending(s.contents), NEW v \in Int
    PROVE  SearchExact(s.contents, v, intsetSearch(s, v))
  <1>1. PICK c \in Seq(Int) : c = s.contents
    OBVIOUS
  <1>2. PICK n \in Nat : n = Len(c)
    BY LenProperties
  <1>3. \A k \in 1..n : c[k] \in Int
    BY <1>2, ElementOfSeq
  <1>4. CASE n = 0
    <2>1. intsetSearch(s, v) = [found |-> FALSE, pos |-> 0]
      BY <1>1, <1>2, <1>4 DEF intsetSearch
    <2> QED BY <1>1, <1>2, <1>4, <2>1 DEF SearchExact
  <1>5. CASE n # 0 /\ v > c[n]
    <2>1. intsetSearch(s, v) = [found |-> FALSE, pos |-> n]
      BY <1>1, <1>2, <1>5 DEF intsetSearch
    <2>2. \A k \in 1..n : c[k] < v
      <3>1. \A i, j \in 1..n : i < j => c[i] < c[j]
        BY <1>1, <1>2 DEF Ascending
      <3>2. ASSUME NEW k \in 1..n PROVE c[k] < v
        <4>1. n \in 1..n /\ c[k] \in Int /\ c[n] \in Int /\ (k = n \/ k < n)
          BY ONLY n \in Nat, <1>3, <1>5, k \in 1..n
        <4>2. k = n \/ c[k] < c[n]
          BY ONLY k \in 1..n, <3>1, <4>1
        <4> QED BY ONLY <1>5, <4>1, <4>2, v \in Int
      <3> QED BY ONLY <3>2
    <2> QED BY <1>1, <1>2, <2>1, <2>2 DEF SearchExact
  <1>6. CASE n # 0 /\ ~(v > c[n]) /\ v < c[1]
    <2>1. intsetSearch(s, v) = [found |-> FALSE, pos |-> 0]
      BY <1>1, <1>2, <1>6 DEF intsetSearch
    <2>2. \A k \in 1..n : v < c[k]
      BY <1>1, <1>2, <1>3, <1>6, SMTT(30) DEF Ascending
    <2> QED BY <1>1, <1>2, <2>1, <2>2 DEF SearchExact
  <1>7. CASE n # 0 /\ ~(v > c[n]) /\ ~(v < c[1])
    <2>1. intsetSearch(s, v) = BinarySearch(c, v)
      BY <1>1, <1>2, <1>7 DEF intsetSearch
    <2> QED BY <1>1, <2>1, BinarySearchExact
  <1> QED BY <1>4, <1>5, <1>6, <1>7

---------------------------------------------------------------------------
(* The array after an insertion and after a removal.                       *)

LEMMA ToSetMembers ==
    ASSUME NEW c \in Seq(Int)
    PROVE  \A x : x \in ToSet(c) <=> \E k \in 1..Len(c) : c[k] = x
  <1>1. DOMAIN c = 1..Len(c)
    BY LenProperties
  <1> QED BY <1>1 DEF ToSet

LEMMA ConcatElements ==
    ASSUME NEW a \in Seq(Int), NEW b \in Seq(Int), NEW d, d = a \o b
    PROVE  /\ d \in Seq(Int) /\ Len(d) = Len(a) + Len(b)
           /\ \A k \in 1..(Len(a) + Len(b)) : d[k] = IF k <= Len(a) THEN a[k] ELSE b[k - Len(a)]
  BY ConcatProperties

\* d is c with v put in at position p, counted from 0; or c is d with that element taken out.
Inserted(c, d, p, v) ==
  /\ d \in Seq(Int) /\ Len(d) = Len(c) + 1
  /\ \A k \in 1..p : d[k] = c[k]
  /\ d[p + 1] = v
  /\ \A k \in (p + 1)..Len(c) : d[k + 1] = c[k]

LEMMA InsertAtInserts ==
    ASSUME NEW c \in Seq(Int), NEW v \in Int, NEW p \in 0..Len(c), NEW d, d = InsertAt(c, p + 1, v)
    PROVE  Inserted(c, d, p, v)
  <1>1. PICK n \in Nat : n = Len(c)
    BY LenProperties
  <1>2. \A k \in 1..n : c[k] \in Int
    BY <1>1, ElementOfSeq
  <1>3. PICK a : a = SubSeq(c, 1, p)
    OBVIOUS
  <1>4. PICK b : b = SubSeq(c, p + 1, n)
    OBVIOUS
  <1>5. a \in Seq(Int) /\ Len(a) = p /\ \A k \in 1..p : a[k] = c[k]
    <2>1. \A k \in 1..p : c[k] \in Int
      BY <1>1, <1>2
    <2>2. p \in Int /\ 0 <= p
      BY <1>1
    <2>3. a \in Seq(Int) /\ Len(a) = (IF 1 <= p THEN p - 1 + 1 ELSE 0) /\ \A k \in 1..(p - 1 + 1) : a[k] = c[1 + k - 1]
      BY <1>3, <2>1, <2>2, SubSeqProperties
    <2> QED BY <2>2, <2>3
  <1>6. b \in Seq(Int) /\ Len(b) = n - p /\ \A k \in 1..(n - p) : b[k] = c[k + p]
    <2>1. p \in Int /\ 0 <= p /\ p <= n
      BY <1>1
    <2>2. PICK m \in Int : m = p + 1
      BY <2>1
    <2>3. \A k \in m..n : c[k] \in Int
      BY <1>2, <2>1, <2>2
    <2>4. b \in Seq(Int) /\ Len(b) = (IF m <= n THEN n - m + 1 ELSE 0) /\ \A k \in 1..(n - m + 1) : b[k] = c[m + k - 1]
      BY <1>4, <2>2, <2>3, SubSeqProperties
    <2> QED BY <2>1, <2>2, <2>4
  <1>7. PICK e \in Seq(Int) : e = a \o <<v>> /\ Len(e) = p + 1 /\ (\A k \in 1..p : e[k] = a[k]) /\ e[p + 1] = v
    <2>1. a \o <<v>> = Append(a, v)
      BY <1>5, AppendIsConcat
    <2> QED BY <1>5, <2>1, AppendProperties, ZenonT(30)
  <1>8. d = e \o b
    <2>1. (p + 1) - 1 = p
      BY <1>1
    <2>2. d = SubSeq(c, 1, (p + 1) - 1) \o <<v>> \o SubSeq(c, p + 1, Len(c))
      BY DEF InsertAt
    <2>3. SubSeq(c, 1, (p + 1) - 1) = a /\ SubSeq(c, p + 1, Len(c)) = b
      BY <1>1, <1>3, <1>4, <2>1, Zenon
    <2> QED BY <1>7, <2>2, <2>3, Zenon
  <1>9. /\ d \in Seq(Int) /\ Len(d) = Len(e) + Len(b)
        /\ \A k \in 1..(Len(e) + Len(b)) : d[k] = IF k <= Len(e) THEN e[k] ELSE b[k - Len(e)]
    <2>1. b \in Seq(Int)
      BY <1>6
    <2> QED BY ONLY e \in Seq(Int), <1>8, <2>1, ConcatElements
  <1>10. p \in Int /\ n \in Int /\ 0 <= p /\ p <= n /\ Len(e) = p + 1 /\ Len(b) = n - p
    BY <1>1, <1>6, <1>7
  <1>11. Len(d) = n + 1 /\ \A k \in 1..(n + 1) : d[k] = IF k <= p + 1 THEN e[k] ELSE b[k - (p + 1)]
    BY <1>9, <1>10, SMTT(30)
  <1>12. (\A k \in 1..p : d[k] = c[k]) /\ d[p + 1] = v
    BY <1>5, <1>7, <1>10, <1>11, SMTT(30)
  <1>13. \A k \in (p + 1)..n : d[k + 1] = c[k]
    <2> SUFFICES ASSUME NEW k \in (p + 1)..n PROVE d[k + 1] = c[k]
      OBVIOUS
    <2>1. k + 1 \in 1..(n + 1) /\ ~(k + 1 <= p + 1) /\ k + 1 - (p + 1) = k - p /\ k - p \in 1..(n - p) /\ (k - p) + p = k
      BY <1>10
    <2> QED BY <1>6, <1>11, <2>1, SMTT(30)
  <1> QED BY <1>1, <1>9, <1>11, <1>12, <1>13 DEF Inserted

LEMMA AppendInserts ==
    ASSUME NEW c \in Seq(Int), NEW v \in Int, NEW d, d = Append(c, v)
    PROVE  Inserted(c, d, Len(c), v)
  <1>1. PICK n \in Nat : n = Len(c)
    BY LenProperties
  <1>2. d \in Seq(Int) /\ Len(d) = n + 1 /\ (\A k \in 1..n : d[k] = c[k]) /\ d[n + 1] = v
    BY <1>1, AppendProperties
  <1> QED BY <1>1, <1>2 DEF Inserted

LEMMA PrependInserts ==
    ASSUME NEW c \in Seq(Int), NEW v \in Int, NEW d, d = <<v>> \o c
    PROVE  Inserted(c, d, 0, v)
  <1>1. PICK n \in Nat : n = Len(c)
    BY LenProperties
  <1>2. PICK e : e = <<v>>
    OBVIOUS
  <1>3. e \in Seq(Int) /\ Len(e) = 1 /\ e[1] = v
    BY <1>2
  <1>4. d \in Seq(Int) /\ Len(d) = 1 + n /\ \A k \in 1..(1 + n) : d[k] = IF k <= 1 THEN e[k] ELSE c[k - 1]
    BY <1>1, <1>2, <1>3, ConcatProperties
  <1>5. d[1] = v /\ \A k \in 1..n : d[k + 1] = c[k]
    BY <1>3, <1>4
  <1> QED BY <1>1, <1>4, <1>5 DEF Inserted

LEMMA RemoveAtRemoves ==
    ASSUME NEW d \in Seq(Int), NEW p \in 0..(Len(d) - 1), NEW c, c = RemoveAt(d, p + 1)
    PROVE  c \in Seq(Int) /\ Inserted(c, d, p, d[p + 1])
  <1>1. PICK n \in Nat : n = Len(d)
    BY LenProperties
  <1>2. \A k \in 1..n : d[k] \in Int
    BY <1>1, ElementOfSeq
  <1>3. PICK a : a = SubSeq(d, 1, p)
    OBVIOUS
  <1>4. PICK b : b = SubSeq(d, p + 2, n)
    OBVIOUS
  <1>5. p \in Int /\ 0 <= p /\ p < n
    BY <1>1
  <1>6. a \in Seq(Int) /\ Len(a) = p /\ \A k \in 1..p : a[k] = d[k]
    <2>1. \A k \in 1..p : d[k] \in Int
      BY <1>2, <1>5
    <2>2. a \in Seq(Int) /\ Len(a) = (IF 1 <= p THEN p - 1 + 1 ELSE 0) /\ \A k \in 1..(p - 1 + 1) : a[k] = d[1 + k - 1]
      BY <1>3, <1>5, <2>1, SubSeqProperties
    <2> QED BY <1>5, <2>2
  <1>7. b \in Seq(Int) /\ Len(b) = n - p - 1 /\ \A k \in 1..(n - p - 1) : b[k] = d[k + p + 1]
    <2>1. PICK m \in Int : m = p + 2
      BY <1>5
    <2>2. \A k \in m..n : d[k] \in Int
      BY <1>2, <1>5, <2>1
    <2>3. b \in Seq(Int) /\ Len(b) = (IF m <= n THEN n - m + 1 ELSE 0) /\ \A k \in 1..(n - m + 1) : b[k] = d[m + k - 1]
      BY <1>4, <2>1, <2>2, SubSeqProperties
    <2>4. Len(b) = n - p - 1 /\ n - m + 1 = n - p - 1
      BY ONLY n \in Nat, m \in Int, <1>5, <2>1, <2>3
    <2>5. \A k \in Int : m + k - 1 = k + p + 1
      BY ONLY m \in Int, <1>5, <2>1
    <2>6. ASSUME NEW k \in 1..(n - p - 1) PROVE b[k] = d[k + p + 1]
      <3>1. b[k] = d[m + k - 1] /\ k \in Int
        BY ONLY <2>3, <2>4, k \in 1..(n - p - 1)
      <3> QED BY ONLY <2>5, <3>1
    <2> QED BY ONLY <2>3, <2>4, <2>6
  <1>8. c = a \o b
    <2>1. (p + 1) - 1 = p /\ (p + 1) + 1 = p + 2
      BY <1>5
    <2>2. c = SubSeq(d, 1, (p + 1) - 1) \o SubSeq(d, (p + 1) + 1, Len(d))
      BY DEF RemoveAt
    <2>3. SubSeq(d, 1, (p + 1) - 1) = a /\ SubSeq(d, (p + 1) + 1, Len(d)) = b
      BY <1>1, <1>3, <1>4, <2>1, Zenon
    <2> QED BY <2>2, <2>3, Zenon
  <1>9. /\ c \in Seq(Int) /\ Len(c) = Len(a) + Len(b)
        /\ \A k \in 1..(Len(a) + Len(b)) : c[k] = IF k <= Len(a) THEN a[k] ELSE b[k - Len(a)]
    BY ONLY <1>6, <1>7, <1>8, ConcatElements
  <1>10. Len(c) = n - 1 /\ \A k \in 1..(n - 1) : c[k] = IF k <= p THEN a[k] ELSE b[k - p]
    BY <1>5, <1>6, <1>7, <1>9
  <1>11. \A k \in 1..p : d[k] = c[k]
    BY <1>5, <1>6, <1>10
  <1>12. \A k \in (p + 1)..(n - 1) : d[k + 1] = c[k]
    <2> SUFFICES ASSUME NEW k \in (p + 1)..(n - 1) PROVE d[k + 1] = c[k]
      OBVIOUS
    <2>1. k \in 1..(n - 1) /\ ~(k <= p) /\ k - p \in 1..(n - p - 1) /\ (k - p) + p + 1 = k + 1
      BY <1>5
    <2> QED BY <1>7, <1>10, <2>1
  <1>13. Len(d) = Len(c) + 1
    BY <1>1, <1>10
  <1> QED BY <1>9, <1>10, <1>11, <1>12, <1>13 DEF Inserted

LEMMA InsertedMembers ==
    ASSUME NEW c \in Seq(Int), NEW d, NEW v, NEW p \in 0..Len(c), Inserted(c, d, p, v)
    PROVE  ToSet(d) = ToSet(c) \cup {v}
  <1>1. PICK n \in Nat : n = Len(c)
    BY LenProperties
  <1>2. d \in Seq(Int) /\ Len(d) = n + 1 /\ (\A k \in 1..p : d[k] = c[k]) /\ d[p + 1] = v /\ (\A k \in (p + 1)..n : d[k + 1] = c[k])
    BY <1>1 DEF Inserted
  <1>3. p \in Int /\ 0 <= p /\ p <= n
    BY <1>1
  <1>4. ASSUME NEW k \in 1..n PROVE \E j \in 1..(n + 1) : d[j] = c[k]
    <2>1. CASE k <= p
      <3>1. k \in 1..p /\ k \in 1..(n + 1)
        BY <1>3, <2>1
      <3> QED BY <1>2, <3>1
    <2>2. CASE ~(k <= p)
      <3>1. k \in (p + 1)..n /\ k + 1 \in 1..(n + 1)
        BY <1>3, <2>2
      <3> QED BY <1>2, <3>1
    <2> QED BY <2>1, <2>2
  <1>5. ASSUME NEW j \in 1..(n + 1) PROVE d[j] = v \/ \E k \in 1..n : d[j] = c[k]
    <2>1. CASE j <= p
      <3>1. j \in 1..p /\ j \in 1..n
        BY <1>3, <2>1
      <3> QED BY <1>2, <3>1
    <2>2. CASE j > p + 1
      <3>1. j - 1 \in (p + 1)..n /\ j - 1 \in 1..n /\ (j - 1) + 1 = j
        BY <1>3, <2>2
      <3> QED BY <1>2, <3>1
    <2>3. CASE j = p + 1
      BY <1>2, <2>3
    <2> QED BY <1>3, <2>1, <2>2, <2>3
  <1>6. p + 1 \in 1..(n + 1)
    BY <1>3
  <1>7. \A x : x \in ToSet(c) <=> \E k \in 1..n : c[k] = x
    BY <1>1, ToSetMembers
  <1>8. \A x : x \in ToSet(d) <=> \E k \in 1..(n + 1) : d[k] = x
    <2>1. d \in Seq(Int) /\ Len(d) = n + 1
      BY <1>2
    <2>2. \A x : x \in ToSet(d) <=> \E k \in 1..Len(d) : d[k] = x
      BY ONLY <2>1, ToSetMembers
    <2> QED BY ONLY <2>1, <2>2, Zenon
  <1>9. ASSUME NEW x PROVE x \in ToSet(d) <=> (x \in ToSet(c) \/ x = v)
    BY <1>2, <1>4, <1>5, <1>6, <1>7, <1>8
  <1> QED BY <1>9

\* Put in where the search found its place, the value leaves the array ascending.
LEMMA InsertedAscends ==
    ASSUME NEW c \in Seq(Int), NEW d, NEW v \in Int, NEW p \in 0..Len(c), Inserted(c, d, p, v), Ascending(c),
           \A k \in 1..p : c[k] < v, \A k \in (p + 1)..Len(c) : v < c[k]
    PROVE  Ascending(d)
  <1>1. PICK n \in Nat : n = Len(c)
    BY LenProperties
  <1>2. d \in Seq(Int) /\ Len(d) = n + 1 /\ (\A k \in 1..p : d[k] = c[k]) /\ d[p + 1] = v /\ (\A k \in (p + 1)..n : d[k + 1] = c[k])
    BY <1>1 DEF Inserted
  <1>3. p \in Int /\ 0 <= p /\ p <= n
    BY <1>1
  <1>4. SUFFICES ASSUME NEW i \in 1..(n + 1), NEW j \in 1..(n + 1), i < j PROVE d[i] < d[j]
    BY <1>2 DEF Ascending
  <1>5. CASE j <= p
    <2>1. d[i] = c[i] /\ d[j] = c[j] /\ i \in 1..n /\ j \in 1..n
      BY <1>2, <1>3, <1>4, <1>5, SMTT(30)
    <2> QED BY <1>1, <1>4, <2>1 DEF Ascending
  <1>6. CASE j = p + 1
    <2>1. i \in 1..p
      BY <1>3, <1>4, <1>6
    <2> QED BY <1>2, <1>6, <2>1
  <1>7. CASE j > p + 1
    <2>1. PICK jj \in Int : jj = j - 1
      OBVIOUS
    <2>2. jj \in (p + 1)..n /\ jj \in 1..n /\ j = jj + 1
      BY <1>3, <1>7, <2>1
    <2>3. d[j] = c[jj] /\ v < c[jj]
      BY <1>1, <1>2, <2>2
    <2>4. CASE i <= p
      <3>1. i \in 1..p /\ i \in 1..n /\ i < jj
        BY <1>3, <2>2, <2>4
      <3>2. d[i] = c[i]
        BY <1>2, <3>1
      <3> QED BY <1>1, <2>2, <2>3, <3>1, <3>2 DEF Ascending
    <2>5. CASE i = p + 1
      BY <1>2, <2>3, <2>5
    <2>6. CASE i > p + 1
      <3>1. PICK ii \in Int : ii = i - 1
        OBVIOUS
      <3>2. ii \in (p + 1)..n /\ ii \in 1..n /\ i = ii + 1 /\ ii < jj
        BY <1>3, <1>4, <2>1, <2>6, <3>1
      <3>3. d[i] = c[ii]
        BY <1>2, <3>2
      <3> QED BY <1>1, <2>2, <2>3, <3>2, <3>3 DEF Ascending
    <2> QED BY <1>3, <2>4, <2>5, <2>6
  <1> QED BY <1>3, <1>5, <1>6, <1>7

\* Without one element the array is still ascending, and that element is nowhere else.
LEMMA RemovedAscends ==
    ASSUME NEW c \in Seq(Int), NEW d, NEW v, NEW p \in 0..Len(c), Inserted(c, d, p, v), Ascending(d)
    PROVE  Ascending(c) /\ v \notin ToSet(c)
  <1>1. PICK n \in Nat : n = Len(c)
    BY LenProperties
  <1>2. d \in Seq(Int) /\ Len(d) = n + 1 /\ (\A k \in 1..p : d[k] = c[k]) /\ d[p + 1] = v /\ (\A k \in (p + 1)..n : d[k + 1] = c[k])
    BY <1>1 DEF Inserted
  <1>3. p \in Int /\ 0 <= p /\ p <= n
    BY <1>1
  <1>4. ASSUME NEW i \in 1..n PROVE \E j \in 1..(n + 1) : d[j] = c[i] /\ j = IF i <= p THEN i ELSE i + 1
    <2>1. CASE i <= p
      <3>1. i \in 1..p /\ i \in 1..(n + 1)
        BY <1>3, <2>1
      <3> QED BY <1>2, <2>1, <3>1
    <2>2. CASE ~(i <= p)
      <3>1. i \in (p + 1)..n /\ i + 1 \in 1..(n + 1)
        BY <1>3, <2>2
      <3> QED BY <1>2, <2>2, <3>1
    <2> QED BY <2>1, <2>2
  <1>5. \A k \in 1..(n + 1) : d[k] \in Int
    BY <1>2, ElementOfSeq
  <1>6. \A i, j \in 1..(n + 1) : i < j => d[i] < d[j]
    BY <1>2 DEF Ascending
  <1>7. Ascending(c)
    <2> SUFFICES ASSUME NEW i \in 1..n, NEW j \in 1..n, i < j PROVE c[i] < c[j]
      BY <1>1 DEF Ascending
    <2>1. PICK ii \in 1..(n + 1) : d[ii] = c[i] /\ ii = IF i <= p THEN i ELSE i + 1
      BY <1>4
    <2>2. PICK jj \in 1..(n + 1) : d[jj] = c[j] /\ jj = IF j <= p THEN j ELSE j + 1
      BY <1>4
    <2>3. ii < jj
      BY <1>3, <2>1, <2>2
    <2> QED BY <1>6, <2>1, <2>2, <2>3
  <1>8. ASSUME NEW i \in 1..n PROVE c[i] # v
    <2>1. PICK ii \in 1..(n + 1) : d[ii] = c[i] /\ ii = IF i <= p THEN i ELSE i + 1
      BY <1>4
    <2>2. p + 1 \in 1..(n + 1) /\ (ii < p + 1 \/ p + 1 < ii)
      BY <1>3, <2>1
    <2>3. d[ii] < d[p + 1] \/ d[p + 1] < d[ii]
      BY <1>6, <2>2
    <2> QED BY <1>2, <1>5, <2>1, <2>2, <2>3
  <1>9. v \notin ToSet(c)
    BY <1>1, <1>8, ToSetMembers
  <1> QED BY <1>7, <1>9

---------------------------------------------------------------------------
(* The widths.                                                             *)

LEMMA SmallModulo ==
    ASSUME NEW x \in Nat, NEW K \in Nat, x < K
    PROVE  x % K = x
  OBVIOUS

LEMMA NumbersAreIntegers ==
    ASSUME NEW v \in Numbers
    PROVE  v \in Int /\ -INT64_MAX - 1 <= v /\ v <= INT64_MAX /\ ValueEncoding(v) \in 1..3
  BY NumbersAssumption, WidthsAssumption DEF ValueEncoding

\* A value stored in an encoding at least as wide as it needs is not cut.
LEMMA CutKeeps ==
    ASSUME NEW v \in Numbers, NEW enc \in 1..3, ValueEncoding(v) <= enc
    PROVE  Cut(v, enc) = v
  <1>1. PICK W \in Nat : W = IF enc = 3 THEN INT64_MAX + 1 ELSE IF enc = 2 THEN INT32_MAX + 1 ELSE INT16_MAX + 1
    BY WidthsAssumption
  <1>2. v \in Int /\ -W <= v /\ v < W
    BY <1>1, NumbersAreIntegers, WidthsAssumption DEF ValueEncoding
  <1>3. PICK K \in Nat : K = 2 * W
    BY <1>1
  <1>4. IntWidth(enc) = K /\ K \div 2 = W
    <2>1. IntWidth(enc) = K
      BY <1>1, <1>3 DEF IntWidth
    <2>2. K \div 2 = W
      BY <1>3
    <2> QED BY <2>1, <2>2
  <1>5. PICK x \in Nat : x = v + W
    BY <1>2
  <1>6. x % K = x
    <2>1. x < K
      BY <1>2, <1>3, <1>5
    <2> QED BY <2>1, SmallModulo
  <1>7. Cut(v, enc) = (x % K) - W
    BY <1>4, <1>5 DEF Cut
  <1> QED BY <1>2, <1>5, <1>6, <1>7

\* A value too wide for the encoding is below or above every value that fits.
LEMMA WiderIsOutside ==
    ASSUME NEW v \in Numbers, NEW w \in Numbers, ValueEncoding(w) < ValueEncoding(v)
    PROVE  (v < 0 => v < w) /\ (~(v < 0) => w < v)
  BY NumbersAreIntegers, WidthsAssumption DEF ValueEncoding

---------------------------------------------------------------------------
(* The invariant.                                                          *)

IntsetInv(s, H) ==
  /\ s \in [encoding : 1..3, contents : Seq(Int)]
  /\ Ascending(s.contents)
  /\ IsFiniteSet(H)
  /\ ToSet(s.contents) = H
  /\ Len(s.contents) = Cardinality(H)
  /\ \A v \in H : v \in Numbers /\ ValueEncoding(v) <= s.encoding

LEMMA FoundIffHeld ==
    ASSUME NEW s, NEW H, IntsetInv(s, H), NEW v \in Numbers
    PROVE  /\ SearchExact(s.contents, v, intsetSearch(s, v))
           /\ intsetSearch(s, v).found <=> v \in H
  <1>1. v \in Int
    BY NumbersAreIntegers
  <1>2. PICK c \in Seq(Int) : c = s.contents
    BY DEF IntsetInv
  <1>3. SearchExact(s.contents, v, intsetSearch(s, v))
    BY <1>1, intsetSearchExact DEF IntsetInv
  <1>4. PICK r : r = intsetSearch(s, v)
    OBVIOUS
  <1>5. SearchExact(c, v, r)
    BY <1>2, <1>3, <1>4
  <1>6. v \in H <=> \E k \in 1..Len(c) : c[k] = v
    <2>1. H = ToSet(c)
      BY <1>2 DEF IntsetInv
    <2> QED BY <2>1, ToSetMembers
  <1>7. PICK n \in Nat : n = Len(c)
    BY LenProperties
  <1>8. CASE r.found
    <2>1. r.pos \in 0..(n - 1) /\ c[r.pos + 1] = v
      BY <1>5, <1>7, <1>8 DEF SearchExact
    <2>2. r.pos + 1 \in 1..n
      BY <1>7, <2>1
    <2> QED BY <1>3, <1>4, <1>6, <1>7, <1>8, <2>1, <2>2
  <1>9. CASE ~r.found
    <2>1. r.pos \in 0..n /\ (\A k \in 1..r.pos : c[k] < v) /\ (\A k \in (r.pos + 1)..n : v < c[k])
      BY <1>5, <1>7, <1>9 DEF SearchExact
    <2>2. ASSUME NEW k \in 1..n PROVE c[k] # v
      <3>1. c[k] \in Int
        BY <1>7, ElementOfSeq
      <3>2. k \in 1..r.pos \/ k \in (r.pos + 1)..n
        BY <2>1
      <3> QED BY <1>1, <2>1, <3>1, <3>2
    <2> QED BY <1>3, <1>4, <1>6, <1>7, <1>9, <2>2
  <1> QED BY <1>8, <1>9

\* One more value, put in where the array stays ascending.
LEMMA OneMore ==
    ASSUME NEW s, NEW H, IntsetInv(s, H), NEW v \in Numbers, v \notin H, NEW t,
           t \in [encoding : 1..3, contents : Seq(Int)], s.encoding <= t.encoding, ValueEncoding(v) <= t.encoding,
           NEW p \in 0..Len(s.contents), Inserted(s.contents, t.contents, p, v),
           \A k \in 1..p : s.contents[k] < v, \A k \in (p + 1)..Len(s.contents) : v < s.contents[k]
    PROVE  IntsetInv(t, H \cup {v})
  <1>1. s.contents \in Seq(Int) /\ Ascending(s.contents) /\ v \in Int /\ s.encoding \in 1..3
    BY NumbersAreIntegers DEF IntsetInv
  <1>2. Ascending(t.contents)
    BY <1>1, InsertedAscends
  <1>3. ToSet(t.contents) = H \cup {v}
    <2>1. ToSet(t.contents) = ToSet(s.contents) \cup {v}
      BY <1>1, InsertedMembers
    <2>2. ToSet(s.contents) = H
      BY DEF IntsetInv
    <2> QED BY <2>1, <2>2, Zenon
  <1>4. IsFiniteSet(H \cup {v}) /\ Cardinality(H \cup {v}) = Cardinality(H) + 1
    BY FS_AddElement DEF IntsetInv
  <1>5. Len(t.contents) = Cardinality(H \cup {v})
    <2>1. Len(t.contents) = Len(s.contents) + 1 /\ Len(s.contents) = Cardinality(H)
      BY DEF Inserted, IntsetInv
    <2> QED BY <1>4, <2>1
  <1>6. \A w \in H \cup {v} : w \in Numbers /\ ValueEncoding(w) <= t.encoding
    <2>1. ASSUME NEW w \in H PROVE w \in Numbers /\ ValueEncoding(w) <= t.encoding
      <3>1. w \in Numbers /\ ValueEncoding(w) <= s.encoding
        BY <2>1 DEF IntsetInv
      <3>2. ValueEncoding(w) \in 1..3 /\ t.encoding \in 1..3
        BY <3>1, NumbersAreIntegers
      <3> QED BY <1>1, <3>1, <3>2
    <2> QED BY <2>1
  <1> QED BY <1>2, <1>3, <1>4, <1>5, <1>6 DEF IntsetInv

\* Back to front, no element is written over before it is read: its new place lies at or
\* beyond the end of every element still to be read.
LEMMA WidenedKeeps ==
    ASSUME NEW s, NEW n \in Nat, Len(s.contents) = n, s.encoding \in 1..3, NEW enc \in 1..3, enc > s.encoding,
           NEW prepend \in {0, 1}, NEW i \in 1..n
    PROVE  Widened(s, enc, prepend, i) = s.contents[i]
  <1>1. PICK w \in {2, 4, 8} : w = Bytes(s.encoding)
    BY DEF Bytes
  <1>2. PICK u \in {2, 4, 8} : u = Bytes(enc)
    BY DEF Bytes
  <1>3. w < u
    BY <1>1, <1>2 DEF Bytes
  <1>4. ASSUME NEW k \in (i + 1)..n PROVE ~((k + prepend - 1) * u < i * w)
    <2>1. k \in Int /\ i \in Int /\ i >= 1 /\ k + prepend - 1 >= i
      OBVIOUS
    <2>2. PICK j \in Int : j = k + prepend - 1
      BY <2>1
    <2>3. CASE w = 2 /\ u = 4
      BY <2>1, <2>2, <2>3
    <2>4. CASE w = 2 /\ u = 8
      BY <2>1, <2>2, <2>4
    <2>5. CASE w = 4 /\ u = 8
      BY <2>1, <2>2, <2>5
    <2> QED BY <1>1, <1>2, <1>3, <2>3, <2>4, <2>5
  <1> QED BY <1>1, <1>2, <1>4 DEF Widened, BackToFront

LEMMA UpgradeKeeps ==
    ASSUME NEW s, NEW H, IntsetInv(s, H), NEW v \in Numbers, ValueEncoding(v) > s.encoding
    PROVE  IntsetInv(intsetUpgradeAndAdd(s, v), H \cup {v})
  <1>1. PICK c \in Seq(Int) : c = s.contents
    BY DEF IntsetInv
  <1>2. v \in Int /\ ValueEncoding(v) \in 1..3 /\ s.encoding \in 1..3
    BY NumbersAreIntegers DEF IntsetInv
  <1>3. PICK d : d = IF v < 0 THEN <<v>> \o c ELSE Append(c, v)
    OBVIOUS
  <1>4. PICK p : p = IF v < 0 THEN 0 ELSE Len(c)
    OBVIOUS
  <1>5. p \in 0..Len(c) /\ Inserted(c, d, p, v)
    <2>1. Len(c) \in Nat
      BY LenProperties
    <2>2. CASE v < 0
      <3>1. d = <<v>> \o c /\ p = 0
        BY <1>3, <1>4, <2>2
      <3>2. Inserted(c, d, 0, v)
        BY ONLY c \in Seq(Int), <1>2, <3>1, PrependInserts
      <3> QED BY <2>1, <3>1, <3>2
    <2>3. CASE ~(v < 0)
      <3>1. d = Append(c, v) /\ p = Len(c)
        BY <1>3, <1>4, <2>3
      <3>2. Inserted(c, d, Len(c), v)
        BY ONLY c \in Seq(Int), <1>2, <3>1, AppendInserts
      <3> QED BY <2>1, <3>1, <3>2
    <2> QED BY <2>2, <2>3
  <1>6. ASSUME NEW k \in 1..Len(c) PROVE c[k] \in H /\ (v < 0 => v < c[k]) /\ (~(v < 0) => c[k] < v)
    <2>1. c[k] \in H
      <3>1. H = ToSet(c)
        BY <1>1 DEF IntsetInv
      <3> QED BY <3>1, ToSetMembers
    <2>2. c[k] \in Numbers /\ ValueEncoding(c[k]) <= s.encoding
      BY <2>1 DEF IntsetInv
    <2>3. ValueEncoding(c[k]) < ValueEncoding(v)
      <3>1. ValueEncoding(c[k]) \in 1..3
        BY <2>2, NumbersAreIntegers
      <3> QED BY <1>2, <2>2, <3>1
    <2> QED BY <2>1, <2>2, <2>3, WiderIsOutside
  <1>7. v \notin H
    <2> SUFFICES ASSUME v \in H PROVE FALSE
      OBVIOUS
    <2>1. ValueEncoding(v) <= s.encoding
      BY DEF IntsetInv
    <2> QED BY <1>2, <2>1
  <1>8. PICK t : t = intsetUpgradeAndAdd(s, v)
    OBVIOUS
  <1>9. t = [encoding |-> ValueEncoding(v), contents |-> d]
    <2>1. PICK n \in Nat : n = Len(c) /\ DOMAIN c = 1..n /\ c = [i \in 1..n |-> c[i]]
      BY LenProperties
    <2>2. PICK enc \in 1..3 : enc = ValueEncoding(v)
      BY <1>2
    <2>3. ASSUME NEW prepend \in {0, 1} PROVE [i \in 1..n |-> Widened(s, enc, prepend, i)] = c
      <3>1. \A i \in 1..n : Widened(s, enc, prepend, i) = c[i]
        BY <1>1, <1>2, <2>1, <2>2, WidenedKeeps
      <3> QED BY <2>1, <3>1
    <2>4. t = [encoding |-> enc, contents |-> IF v < 0 THEN <<v>> \o [i \in 1..n |-> Widened(s, enc, 1, i)]
                                              ELSE Append([i \in 1..n |-> Widened(s, enc, 0, i)], v)]
      BY <1>1, <1>8, <2>1, <2>2 DEF intsetUpgradeAndAdd
    <2> QED BY <1>3, <2>2, <2>3, <2>4
  <1>10. t.contents = d /\ t.encoding = ValueEncoding(v) /\ d \in Seq(Int) /\ t \in [encoding : 1..3, contents : Seq(Int)]
    BY <1>2, <1>5, <1>9 DEF Inserted
  <1>11. (\A k \in 1..p : c[k] < v) /\ (\A k \in (p + 1)..Len(c) : v < c[k])
    <2>1. PICK n \in Nat : n = Len(c)
      BY LenProperties
    <2>2. CASE v < 0
      BY <1>4, <1>6, <2>1, <2>2
    <2>3. CASE ~(v < 0)
      BY <1>4, <1>6, <2>1, <2>3
    <2> QED BY <2>2, <2>3
  <1>12. s.encoding <= t.encoding /\ ValueEncoding(v) <= t.encoding
    BY <1>2, <1>10
  <1>13. p \in 0..Len(s.contents) /\ Inserted(s.contents, t.contents, p, v)
    BY <1>1, <1>5, <1>10
  <1>14. (\A k \in 1..p : s.contents[k] < v) /\ (\A k \in (p + 1)..Len(s.contents) : v < s.contents[k])
    BY <1>1, <1>11
  <1>15. IntsetInv(t, H \cup {v})
    BY ONLY IntsetInv(s, H), v \in Numbers, <1>7, <1>10, <1>12, <1>13, <1>14, OneMore
  <1> QED BY <1>8, <1>15

LEMMA intsetAddKeeps ==
    ASSUME NEW s, NEW H, IntsetInv(s, H), NEW v \in Numbers
    PROVE  IntsetInv(intsetAdd(s, v), H \cup {v})
  <1>1. PICK r : r = intsetSearch(s, v)
    OBVIOUS
  <1>2. SearchExact(s.contents, v, r) /\ (r.found <=> v \in H)
    BY <1>1, FoundIffHeld
  <1>3. CASE ValueEncoding(v) > s.encoding
    <2>1. intsetAdd(s, v) = intsetUpgradeAndAdd(s, v)
      BY <1>3 DEF intsetAdd
    <2> QED BY <1>3, <2>1, UpgradeKeeps
  <1>4. CASE ~(ValueEncoding(v) > s.encoding) /\ v \in H
    <2>1. intsetAdd(s, v) = s
      BY <1>1, <1>2, <1>4 DEF intsetAdd
    <2>2. H \cup {v} = H
      BY <1>4
    <2> QED BY <2>1, <2>2
  <1>5. CASE ~(ValueEncoding(v) > s.encoding) /\ v \notin H
    <2>1. s.encoding \in 1..3 /\ ValueEncoding(v) \in 1..3 /\ v \in Int /\ s.contents \in Seq(Int)
      BY NumbersAreIntegers DEF IntsetInv
    <2>2. ValueEncoding(v) <= s.encoding
      BY <1>5, <2>1
    <2>3. Cut(v, s.encoding) = v
      BY <2>1, <2>2, CutKeeps
    <2>4. PICK p : p = r.pos
      OBVIOUS
    <2>5. PICK d : d = InsertAt(s.contents, p + 1, v)
      OBVIOUS
    <2>6. p \in 0..Len(s.contents) /\ (\A k \in 1..p : s.contents[k] < v) /\ (\A k \in (p + 1)..Len(s.contents) : v < s.contents[k])
      BY <1>2, <1>5, <2>4 DEF SearchExact
    <2>7. Inserted(s.contents, d, p, v)
      BY <2>1, <2>5, <2>6, InsertAtInserts
    <2>8. PICK t : t = intsetAdd(s, v)
      OBVIOUS
    <2>9. t = [s EXCEPT !.contents = d]
      BY <1>1, <1>2, <1>5, <2>3, <2>4, <2>5, <2>8 DEF intsetAdd
    <2>10. t.contents = d /\ t.encoding = s.encoding /\ t \in [encoding : 1..3, contents : Seq(Int)]
      BY <2>7, <2>9 DEF IntsetInv, Inserted
    <2>11. s.encoding <= t.encoding /\ ValueEncoding(v) <= t.encoding /\ Inserted(s.contents, t.contents, p, v)
      BY <2>1, <2>2, <2>7, <2>10
    <2>12. IntsetInv(t, H \cup {v})
      BY ONLY IntsetInv(s, H), v \in Numbers, <1>5, <2>6, <2>10, <2>11, OneMore
    <2> QED BY <2>8, <2>12
  <1> QED BY <1>3, <1>4, <1>5

LEMMA intsetFindExact ==
    ASSUME NEW s, NEW H, IntsetInv(s, H), NEW v \in Numbers
    PROVE  intsetFind(s, v) <=> v \in H
  <1>1. intsetSearch(s, v).found <=> v \in H
    BY FoundIffHeld
  <1>2. v \in H => ValueEncoding(v) <= s.encoding
    BY DEF IntsetInv
  <1> QED BY <1>1, <1>2 DEF intsetFind

LEMMA intsetRemoveKeeps ==
    ASSUME NEW s, NEW H, IntsetInv(s, H), NEW v \in Numbers
    PROVE  IntsetInv(intsetRemove(s, v), H \ {v})
  <1>1. intsetFind(s, v) <=> v \in H
    BY intsetFindExact
  <1>2. CASE v \notin H
    <2>1. intsetRemove(s, v) = s
      BY <1>1, <1>2 DEF intsetRemove
    <2>2. H \ {v} = H
      BY <1>2
    <2> QED BY <2>1, <2>2
  <1>3. CASE v \in H
    <2>1. PICK p : p = intsetSearch(s, v).pos
      OBVIOUS
    <2>2. SearchExact(s.contents, v, intsetSearch(s, v)) /\ intsetSearch(s, v).found
      BY <1>3, FoundIffHeld
    <2>3. PICK d \in Seq(Int) : d = s.contents
      BY DEF IntsetInv
    <2>4. p \in 0..(Len(d) - 1) /\ d[p + 1] = v
      BY <2>1, <2>2, <2>3 DEF SearchExact
    <2>5. PICK c : c = RemoveAt(d, p + 1)
      OBVIOUS
    <2>6. c \in Seq(Int) /\ Inserted(c, d, p, v)
      BY <2>4, <2>5, RemoveAtRemoves
    <2>7. p \in 0..Len(c) /\ Len(d) = Len(c) + 1
      <3>1. Len(c) \in Nat /\ Len(d) = Len(c) + 1
        BY <2>6, LenProperties DEF Inserted
      <3> QED BY <2>4, <3>1
    <2>8. Ascending(d) /\ ToSet(d) = H /\ Len(d) = Cardinality(H) /\ IsFiniteSet(H)
      BY <2>3 DEF IntsetInv
    <2>9. Ascending(c) /\ v \notin ToSet(c)
      BY <2>6, <2>7, <2>8, RemovedAscends
    <2>10. ToSet(c) = H \ {v}
      <3>1. ToSet(d) = ToSet(c) \cup {v}
        BY <2>6, <2>7, InsertedMembers
      <3> QED BY <2>8, <2>9, <3>1
    <2>11. IsFiniteSet(H \ {v}) /\ Cardinality(H \ {v}) = Cardinality(H) - 1
      BY <1>3, <2>8, FS_RemoveElement
    <2>12. Len(c) = Cardinality(H \ {v})
      <3>1. Len(c) \in Nat
        BY <2>6, LenProperties
      <3> QED BY <2>7, <2>8, <2>11, <3>1
    <2>13. PICK t : t = intsetRemove(s, v)
      OBVIOUS
    <2>14. t = [s EXCEPT !.contents = c]
      BY <1>1, <1>3, <2>1, <2>3, <2>5, <2>13 DEF intsetRemove
    <2>15. t.contents = c /\ t.encoding = s.encoding /\ t \in [encoding : 1..3, contents : Seq(Int)]
      BY <2>6, <2>14 DEF IntsetInv
    <2>16. \A w \in H \ {v} : w \in Numbers /\ ValueEncoding(w) <= t.encoding
      BY <2>15 DEF IntsetInv
    <2>17. IntsetInv(t, H \ {v})
      BY <2>9, <2>10, <2>11, <2>12, <2>15, <2>16 DEF IntsetInv
    <2> QED BY <2>13, <2>17
  <1> QED BY <1>2, <1>3

LEMMA IntsetInvImplies ==
    ASSUME IntsetInv(is, held)
    PROVE  IntsetExact
  <1>1. \A v \in Numbers : intsetFind(is, v) <=> v \in held
    BY intsetFindExact
  <1>2. ToSet(is.contents) = held /\ Len(is.contents) = Cardinality(held)
    BY DEF IntsetInv
  <1>3. PICK c \in Seq(Int) : c = is.contents
    BY DEF IntsetInv
  <1>4. PICK n \in Nat : n = Len(c)
    BY LenProperties
  <1>5. ASSUME NEW i \in 1..(n - 1) PROVE intsetGet(is, i - 1)[1] < intsetGet(is, i)[1]
    <2>1. i - 1 < n /\ i < n /\ (i - 1) + 1 = i /\ i \in 1..n /\ i + 1 \in 1..n
      BY <1>4
    <2>2. intsetGet(is, i - 1)[1] = c[i] /\ intsetGet(is, i)[1] = c[i + 1]
      BY <1>3, <1>4, <2>1 DEF intsetGet
    <2>3. c[i] < c[i + 1]
      <3>1. Ascending(c)
        BY <1>3 DEF IntsetInv
      <3> QED BY <1>4, <2>1, <3>1 DEF Ascending
    <2> QED BY <2>2, <2>3
  <1> QED BY <1>1, <1>2, <1>3, <1>4, <1>5 DEF IntsetExact

\* Whatever integers clients add to and remove from an intset, in whatever order and whatever
\* the three widths are, the binary search of intsetSearch finds the values held and no other,
\* intsetUpgradeAndAdd keeps every value when the encoding grows, intsetAdd and intsetRemove
\* move the right part of the array, and no value is cut: the array is the ascending
\* sequence of the values added and not removed.
THEOREM IntsetExactHolds == ISpec => []IntsetExact
  <1>1. IInit => IntsetInv(is, held)
    <2> SUFFICES ASSUME IInit PROVE IntsetInv(is, held)
      OBVIOUS
    <2>1. is.encoding = 1 /\ is.contents = <<>> /\ held = {} /\ is \in [encoding : 1..3, contents : Seq(Int)]
      BY DEF IInit, intsetNew
    <2>2. Len(is.contents) = 0
      BY <2>1
    <2>3. ToSet(is.contents) = {}
      <3>1. \A x : x \in ToSet(is.contents) <=> \E k \in 1..Len(is.contents) : is.contents[k] = x
        BY <2>1, ToSetMembers
      <3> QED BY <2>2, <3>1
    <2>4. Ascending(is.contents)
      BY <2>2 DEF Ascending
    <2> QED BY <2>1, <2>2, <2>3, <2>4, FS_EmptySet DEF IntsetInv
  <1>2. IntsetInv(is, held) /\ [INext]_ivars => IntsetInv(is, held)'
    <2> SUFFICES ASSUME IntsetInv(is, held), [INext]_ivars PROVE IntsetInv(is', held')
      BY DEF IntsetInv, Ascending
    <2>1. CASE UNCHANGED ivars
      BY <2>1 DEF ivars
    <2>2. ASSUME NEW v \in Numbers, is' = intsetAdd(is, v), held' = held \cup {v} PROVE IntsetInv(is', held')
      BY <2>2, intsetAddKeeps
    <2>3. ASSUME NEW v \in Numbers, is' = intsetRemove(is, v), held' = held \ {v} PROVE IntsetInv(is', held')
      BY <2>3, intsetRemoveKeeps
    <2> QED BY <2>1, <2>2, <2>3 DEF INext
  <1>3. IntsetInv(is, held) => IntsetExact
    BY IntsetInvImplies
  <1> QED BY <1>1, <1>2, <1>3, PTL DEF ISpec

---------------------------------------------------------------------------
(* Dictionaries: the chain of a bucket.                                    *)

LEMMA InsertedOnce ==
    ASSUME NEW c \in Seq(Int), NEW d, NEW v, NEW p \in 0..Len(c), Inserted(c, d, p, v), v \notin ToSet(c), IsInjective(c)
    PROVE  IsInjective(d)
  <1>1. PICK n \in Nat : n = Len(c)
    BY LenProperties
  <1>2. d \in Seq(Int) /\ Len(d) = n + 1 /\ (\A k \in 1..p : d[k] = c[k]) /\ d[p + 1] = v /\ (\A k \in (p + 1)..n : d[k + 1] = c[k])
    BY <1>1 DEF Inserted
  <1>3. p \in Int /\ 0 <= p /\ p <= n
    BY <1>1
  <1>4. DOMAIN d = 1..(n + 1) /\ DOMAIN c = 1..n
    BY <1>1, <1>2, LenProperties
  <1>5. \A k \in 1..n : c[k] # v
    BY <1>1, ToSetMembers
  <1>6. \A i, j \in 1..n : c[i] = c[j] => i = j
    BY <1>4 DEF IsInjective
  <1> DEFINE Old(j) == IF j <= p THEN j ELSE j - 1
  <1>7. ASSUME NEW j \in 1..(n + 1), j # p + 1 PROVE Old(j) \in 1..n /\ d[j] = c[Old(j)]
    <2>1. CASE j <= p
      <3>1. j \in 1..p /\ j \in 1..n /\ Old(j) = j
        BY <1>3, <2>1
      <3>2. d[j] = c[j]
        BY ONLY <1>2, <3>1
      <3> HIDE DEF Old
      <3> QED BY ONLY <3>1, <3>2
    <2>2. CASE j > p + 1
      <3>1. j - 1 \in (p + 1)..n /\ (j - 1) + 1 = j /\ Old(j) = j - 1
        BY <1>3, <2>2
      <3> QED BY <1>2, <1>3, <3>1
    <2> QED BY <1>3, <1>7, <2>1, <2>2
  <1>8. ASSUME NEW i \in 1..(n + 1), NEW j \in 1..(n + 1), d[i] = d[j] PROVE i = j
    <2>1. CASE i = p + 1 \/ j = p + 1
      <3> HIDE DEF Old
      <3> QED BY <1>2, <1>5, <1>7, <1>8, <2>1
    <2>2. CASE i # p + 1 /\ j # p + 1
      <3>1. Old(i) = Old(j)
        <4> HIDE DEF Old
        <4> QED BY <1>6, <1>7, <1>8, <2>2
      <3> QED BY <1>3, <2>2, <3>1
    <2> QED BY <2>1, <2>2
  <1> QED BY <1>4, <1>8 DEF IsInjective

LEMMA RemovedOnce ==
    ASSUME NEW c \in Seq(Int), NEW d, NEW v, NEW p \in 0..Len(c), Inserted(c, d, p, v), IsInjective(d)
    PROVE  IsInjective(c) /\ v \notin ToSet(c) /\ v \in ToSet(d) /\ ToSet(c) = ToSet(d) \ {v}
  <1>1. PICK n \in Nat : n = Len(c)
    BY LenProperties
  <1>2. d \in Seq(Int) /\ Len(d) = n + 1 /\ (\A k \in 1..p : d[k] = c[k]) /\ d[p + 1] = v /\ (\A k \in (p + 1)..n : d[k + 1] = c[k])
    BY <1>1 DEF Inserted
  <1>3. p \in Int /\ 0 <= p /\ p <= n
    BY <1>1
  <1>4. DOMAIN d = 1..(n + 1) /\ DOMAIN c = 1..n
    BY <1>1, <1>2, LenProperties
  <1>5. \A i, j \in 1..(n + 1) : d[i] = d[j] => i = j
    BY <1>4 DEF IsInjective
  <1> DEFINE New(k) == IF k <= p THEN k ELSE k + 1
  <1>6. ASSUME NEW k \in 1..n PROVE New(k) \in 1..(n + 1) /\ New(k) # p + 1 /\ d[New(k)] = c[k]
    <2>1. CASE k <= p
      <3>1. k \in 1..p /\ New(k) = k
        BY <1>3, <2>1
      <3>2. k \in 1..(n + 1) /\ k # p + 1
        BY ONLY n \in Nat, k \in 1..n, <1>3, <2>1
      <3>3. d[k] = c[k]
        BY ONLY <1>2, <3>1
      <3> HIDE DEF New
      <3> QED BY ONLY <3>1, <3>2, <3>3
    <2>2. CASE k > p
      <3>1. k \in (p + 1)..n /\ New(k) = k + 1
        BY <1>3, <2>2
      <3> QED BY <1>2, <1>3, <3>1
    <2> QED BY <1>3, <2>1, <2>2
  <1>7. ASSUME NEW i \in 1..n, NEW j \in 1..n, c[i] = c[j] PROVE i = j
    <2>1. New(i) = New(j)
      <3> HIDE DEF New
      <3> QED BY <1>5, <1>6, <1>7
    <2> QED BY <1>3, <2>1
  <1>8. \A k \in 1..n : c[k] # v
    <2> HIDE DEF New
    <2>1. p + 1 \in 1..(n + 1)
      BY <1>3
    <2> SUFFICES ASSUME NEW k \in 1..n, c[k] = v PROVE FALSE
      OBVIOUS
    <2>2. New(k) \in 1..(n + 1) /\ New(k) # p + 1 /\ d[New(k)] = d[p + 1]
      BY <1>2, <1>6
    <2> QED BY <1>5, <2>1, <2>2
  <1>9. v \notin ToSet(c)
    BY <1>1, <1>8, ToSetMembers
  <1>10. ToSet(d) = ToSet(c) \cup {v}
    BY InsertedMembers
  <1>11. IsInjective(c)
    BY <1>4, <1>7 DEF IsInjective
  <1> QED BY <1>9, <1>10, <1>11

LEMMA HeadRemoved ==
    ASSUME NEW d \in Seq(Int), d # <<>>
    PROVE  Head(d) \in Int /\ Tail(d) \in Seq(Int) /\ Len(Tail(d)) = Len(d) - 1 /\ 0 \in 0..Len(Tail(d)) /\ Inserted(Tail(d), d, 0, Head(d))
  <1>1. PICK n \in Nat : n = Len(d)
    BY LenProperties
  <1>2. n # 0 /\ Head(d) = d[1] /\ Head(d) \in Int /\ Tail(d) \in Seq(Int) /\ Len(Tail(d)) = n - 1 /\ \A k \in 1..(n - 1) : Tail(d)[k] = d[k + 1]
    BY <1>1, HeadTailProperties, EmptySeq
  <1>3. 0 + 1 = 1 /\ (n - 1) + 1 = n /\ (0 + 1)..(n - 1) = 1..(n - 1)
    OBVIOUS
  <1>4. Inserted(Tail(d), d, 0, Head(d))
    BY <1>1, <1>2, <1>3 DEF Inserted
  <1> QED BY <1>1, <1>2, <1>4

---------------------------------------------------------------------------
(* Dictionaries: a table.                                                  *)

TableOK(h) ==
  /\ h \in [size : Nat, table : [0..(h.size - 1) -> Seq(Int)], used : Nat]
  /\ \A b \in 0..(h.size - 1) : IsInjective(h.table[b]) /\ \A k \in ToSet(h.table[b]) : k % h.size = b
  /\ IsFiniteSet(KeysIn(h)) /\ h.used = Cardinality(KeysIn(h))

LEMMA TableKeys ==
    ASSUME NEW h, TableOK(h)
    PROVE  /\ h.size \in Nat /\ DOMAIN h.table = 0..(h.size - 1)
           /\ \A k : k \in KeysIn(h) <=> \E b \in 0..(h.size - 1) : k \in ToSet(h.table[b])
  <1>1. h.size \in Nat /\ DOMAIN h.table = 0..(h.size - 1)
    BY DEF TableOK
  <1> QED BY <1>1 DEF KeysIn

LEMMA TableHash ==
    ASSUME NEW h, TableOK(h), h.size # 0, NEW k \in Int
    PROVE  k % h.size \in 0..(h.size - 1) /\ (k \in KeysIn(h) <=> k \in ToSet(h.table[k % h.size]))
  <1>1. h.size \in Nat /\ \A x : x \in KeysIn(h) <=> \E b \in 0..(h.size - 1) : x \in ToSet(h.table[b])
    BY TableKeys
  <1>2. k % h.size \in 0..(h.size - 1)
    BY <1>1
  <1>3. \A b \in 0..(h.size - 1) : k \in ToSet(h.table[b]) => k % h.size = b
    BY DEF TableOK
  <1> QED BY <1>1, <1>2, <1>3

LEMMA FreshOK ==
    ASSUME NEW n \in Nat
    PROVE  TableOK(Fresh(n)) /\ KeysIn(Fresh(n)) = {} /\ Fresh(n).size = n /\ Fresh(n).used = 0 /\ \A b \in 0..(n - 1) : Fresh(n).table[b] = <<>>
  <1>1. PICK h : h = Fresh(n)
    OBVIOUS
  <1>2. h.size = n /\ h.used = 0 /\ DOMAIN h.table = 0..(n - 1) /\ (\A b \in 0..(n - 1) : h.table[b] = <<>>)
        /\ h \in [size : Nat, table : [0..(n - 1) -> Seq(Int)], used : Nat]
    BY <1>1 DEF Fresh
  <1>3. ToSet(<<>>) = {} /\ IsInjective(<<>>)
    BY DEF ToSet, IsInjective
  <1>4. KeysIn(h) = {}
    BY <1>2, <1>3 DEF KeysIn
  <1>5. TableOK(h)
    <2>1. \A b \in 0..(n - 1) : IsInjective(h.table[b]) /\ ToSet(h.table[b]) = {}
      BY <1>2, <1>3
    <2> QED BY <1>2, <1>4, <2>1, FS_EmptySet DEF TableOK
  <1> QED BY <1>1, <1>2, <1>4, <1>5

\* Another chain in one bucket.
Rechained(h, h2, b, c, u) == h2 = [h EXCEPT !.table[b] = c, !.used = u]

LEMMA NewChain ==
    ASSUME NEW h, TableOK(h), NEW b \in 0..(h.size - 1), NEW c \in Seq(Int), NEW u \in Int, NEW h2, Rechained(h, h2, b, c, u)
    PROVE  /\ h2.size = h.size /\ h2.used = u /\ h2.table[b] = c /\ \A j \in 0..(h.size - 1) : j # b => h2.table[j] = h.table[j]
           /\ u \in Nat => h2 \in [size : Nat, table : [0..(h2.size - 1) -> Seq(Int)], used : Nat]
           /\ DOMAIN h2.table = 0..(h.size - 1) /\ \A k : k \in KeysIn(h2) <=> \E j \in 0..(h.size - 1) : k \in ToSet(h2.table[j])
  <1>1. /\ h2.size = h.size /\ h2.used = u /\ h2.table[b] = c /\ \A j \in 0..(h.size - 1) : j # b => h2.table[j] = h.table[j]
        /\ u \in Nat => h2 \in [size : Nat, table : [0..(h2.size - 1) -> Seq(Int)], used : Nat]
        /\ DOMAIN h2.table = 0..(h.size - 1)
    BY DEF TableOK, Rechained
  <1>2. \A k : k \in KeysIn(h2) <=> \E j \in 0..(h.size - 1) : k \in ToSet(h2.table[j])
    <2>1. DOMAIN h2.table = 0..(h.size - 1)
      BY <1>1
    <2> QED BY ONLY <2>1 DEF KeysIn
  <1> QED BY <1>1, <1>2

Grows(h, h2, b, v, c, p) ==
  /\ TableOK(h) /\ b \in 0..(h.size - 1) /\ v \in Int /\ v % h.size = b /\ v \notin KeysIn(h)
  /\ p \in 0..Len(h.table[b]) /\ Inserted(h.table[b], c, p, v) /\ Rechained(h, h2, b, c, h.used + 1)
Shrinks(h, h2, b, v, c, p) ==
  /\ TableOK(h) /\ b \in 0..(h.size - 1) /\ c \in Seq(Int)
  /\ p \in 0..Len(c) /\ Inserted(c, h.table[b], p, v) /\ Rechained(h, h2, b, c, h.used - 1)

LEMMA ChainGrows ==
    ASSUME NEW h, NEW h2, NEW b, NEW v, NEW c, NEW p, Grows(h, h2, b, v, c, p)
    PROVE  TableOK(h2) /\ KeysIn(h2) = KeysIn(h) \cup {v}
  <1>0. PICK u : /\ TableOK(h) /\ b \in 0..(h.size - 1) /\ v \in Int /\ v % h.size = b /\ v \notin KeysIn(h)
                 /\ p \in 0..Len(h.table[b]) /\ Inserted(h.table[b], c, p, v) /\ u = h.used + 1 /\ Rechained(h, h2, b, c, u)
    BY DEF Grows
  <1> USE <1>0
  <1>1. h.size \in Nat /\ h.used \in Nat /\ h.table[b] \in Seq(Int) /\ IsInjective(h.table[b]) /\ h.used = Cardinality(KeysIn(h)) /\ IsFiniteSet(KeysIn(h))
    BY DEF TableOK
  <1>2. c \in Seq(Int)
    BY DEF Inserted
  <1>3. /\ h2.size = h.size /\ h2.used = u /\ h2.table[b] = c /\ \A j \in 0..(h.size - 1) : j # b => h2.table[j] = h.table[j]
        /\ h2 \in [size : Nat, table : [0..(h2.size - 1) -> Seq(Int)], used : Nat] /\ DOMAIN h2.table = 0..(h.size - 1)
        /\ \A k : k \in KeysIn(h2) <=> \E j \in 0..(h.size - 1) : k \in ToSet(h2.table[j])
    <2>1. u \in Nat /\ u \in Int
      BY <1>1
    <2> QED BY ONLY <1>0, <1>2, <2>1, NewChain
  <1>4. \A k : k \in KeysIn(h) <=> \E j \in 0..(h.size - 1) : k \in ToSet(h.table[j])
    BY TableKeys
  <1>5. v \notin ToSet(h.table[b])
    BY <1>4
  <1>6. IsInjective(c) /\ ToSet(c) = ToSet(h.table[b]) \cup {v}
    BY <1>1, <1>5, InsertedOnce, InsertedMembers
  <1>7. \A j \in 0..(h.size - 1) : IsInjective(h.table[j]) /\ \A k \in ToSet(h.table[j]) : k % h.size = j
    BY DEF TableOK
  <1>8. \A j \in 0..(h.size - 1) : IsInjective(h2.table[j]) /\ \A k \in ToSet(h2.table[j]) : k % h.size = j
    <2> SUFFICES ASSUME NEW j \in 0..(h.size - 1) PROVE IsInjective(h2.table[j]) /\ \A k \in ToSet(h2.table[j]) : k % h.size = j
      OBVIOUS
    <2>1. CASE j = b
      BY <1>3, <1>6, <1>7, <2>1
    <2>2. CASE j # b
      BY <1>3, <1>7, <2>2
    <2> QED BY <2>1, <2>2
  <1>9. KeysIn(h2) = KeysIn(h) \cup {v}
    <2>1. \A k : k \in KeysIn(h2) <=> \E j \in 0..(h.size - 1) : k \in ToSet(h2.table[j])
      BY <1>3
    <2>2. \A j \in 0..(h.size - 1) : ToSet(h2.table[j]) = IF j = b THEN ToSet(h.table[b]) \cup {v} ELSE ToSet(h.table[j])
      BY <1>3, <1>6
    <2> QED BY ONLY <1>0, <1>4, <2>1, <2>2
  <1>10. IsFiniteSet(KeysIn(h2)) /\ Cardinality(KeysIn(h2)) = Cardinality(KeysIn(h)) + 1
    <2>1. PICK K : K = KeysIn(h)
      OBVIOUS
    <2>2. IsFiniteSet(K) /\ v \notin K /\ KeysIn(h2) = K \cup {v}
      BY ONLY <1>0, <1>1, <1>9, <2>1
    <2>3. IsFiniteSet(K \cup {v}) /\ Cardinality(K \cup {v}) = Cardinality(K) + 1
      BY ONLY <2>2, FS_AddElement
    <2> QED BY ONLY <2>1, <2>2, <2>3
  <1> QED BY <1>1, <1>3, <1>8, <1>9, <1>10 DEF TableOK

LEMMA ChainShrinks ==
    ASSUME NEW h, NEW h2, NEW b, NEW v, NEW c, NEW p, Shrinks(h, h2, b, v, c, p)
    PROVE  TableOK(h2) /\ KeysIn(h2) = KeysIn(h) \ {v} /\ v \in KeysIn(h) /\ ToSet(c) = ToSet(h.table[b]) \ {v}
  <1>0. PICK u : /\ TableOK(h) /\ b \in 0..(h.size - 1) /\ c \in Seq(Int)
                 /\ p \in 0..Len(c) /\ Inserted(c, h.table[b], p, v) /\ u = h.used - 1 /\ Rechained(h, h2, b, c, u)
    BY DEF Shrinks
  <1> USE <1>0
  <1>1. h.size \in Nat /\ h.used \in Nat /\ h.table[b] \in Seq(Int) /\ IsInjective(h.table[b]) /\ h.used = Cardinality(KeysIn(h)) /\ IsFiniteSet(KeysIn(h))
    BY DEF TableOK
  <1>2. IsInjective(c) /\ v \in ToSet(h.table[b]) /\ ToSet(c) = ToSet(h.table[b]) \ {v}
    BY <1>1, RemovedOnce
  <1>3. /\ h2.size = h.size /\ h2.used = u /\ h2.table[b] = c /\ \A j \in 0..(h.size - 1) : j # b => h2.table[j] = h.table[j]
        /\ (u \in Nat => h2 \in [size : Nat, table : [0..(h2.size - 1) -> Seq(Int)], used : Nat]) /\ DOMAIN h2.table = 0..(h.size - 1)
        /\ \A k : k \in KeysIn(h2) <=> \E j \in 0..(h.size - 1) : k \in ToSet(h2.table[j])
    <2>1. u \in Int
      BY <1>1
    <2> QED BY ONLY <1>0, <2>1, NewChain
  <1>4. \A k : k \in KeysIn(h) <=> \E j \in 0..(h.size - 1) : k \in ToSet(h.table[j])
    BY TableKeys
  <1>5. \A j \in 0..(h.size - 1) : IsInjective(h.table[j]) /\ \A k \in ToSet(h.table[j]) : k % h.size = j
    BY DEF TableOK
  <1>6. \A j \in 0..(h.size - 1) : ToSet(h2.table[j]) = ToSet(h.table[j]) \ {v}
    <2> SUFFICES ASSUME NEW j \in 0..(h.size - 1), j # b PROVE ToSet(h.table[j]) = ToSet(h.table[j]) \ {v}
      BY <1>2, <1>3
    <2>1. v \notin ToSet(h.table[j])
      BY <1>2, <1>5
    <2> QED BY <2>1
  <1>7. \A j \in 0..(h.size - 1) : IsInjective(h2.table[j]) /\ \A k \in ToSet(h2.table[j]) : k % h.size = j
    <2> SUFFICES ASSUME NEW j \in 0..(h.size - 1) PROVE IsInjective(h2.table[j]) /\ \A k \in ToSet(h2.table[j]) : k % h.size = j
      OBVIOUS
    <2>1. IsInjective(h2.table[j])
      BY <1>2, <1>3, <1>5
    <2>2. \A k \in ToSet(h2.table[j]) : k % h.size = j
      BY <1>5, <1>6
    <2> QED BY <2>1, <2>2
  <1>8. KeysIn(h2) = KeysIn(h) \ {v} /\ v \in KeysIn(h)
    <2>1. \A k : k \in KeysIn(h2) <=> \E j \in 0..(h.size - 1) : k \in ToSet(h2.table[j])
      BY <1>3
    <2>2. v \in KeysIn(h)
      BY ONLY <1>0, <1>2, <1>4
    <2>3. ASSUME NEW k PROVE k \in KeysIn(h2) <=> k \in KeysIn(h) /\ k # v
      <3>1. \A j \in 0..(h.size - 1) : k \in ToSet(h2.table[j]) <=> k \in ToSet(h.table[j]) /\ k # v
        BY ONLY <1>6
      <3>2. k \in KeysIn(h) <=> \E j \in 0..(h.size - 1) : k \in ToSet(h.table[j])
        BY ONLY <1>4
      <3>3. k \in KeysIn(h2) <=> \E j \in 0..(h.size - 1) : k \in ToSet(h2.table[j])
        BY ONLY <2>1
      <3> QED BY ONLY <3>1, <3>2, <3>3
    <2> QED BY ONLY <2>2, <2>3
  <1>9. IsFiniteSet(KeysIn(h2)) /\ Cardinality(KeysIn(h2)) = Cardinality(KeysIn(h)) - 1 /\ Cardinality(KeysIn(h2)) \in Nat
    <2>1. PICK K : K = KeysIn(h)
      OBVIOUS
    <2>2. IsFiniteSet(K) /\ v \in K /\ KeysIn(h2) = K \ {v}
      BY ONLY <1>1, <1>8, <2>1
    <2>3. IsFiniteSet(K \ {v}) /\ Cardinality(K \ {v}) = Cardinality(K) - 1 /\ Cardinality(K \ {v}) \in Nat
      BY ONLY <2>2, FS_RemoveElement, FS_CardinalityType
    <2> QED BY ONLY <2>1, <2>2, <2>3
  <1> QED BY <1>1, <1>2, <1>3, <1>7, <1>8, <1>9 DEF TableOK

LEMMA LinkGrows ==
    ASSUME NEW h, TableOK(h), h.size # 0, NEW k \in Int, k \notin KeysIn(h)
    PROVE  /\ TableOK(Link(h, k)) /\ KeysIn(Link(h, k)) = KeysIn(h) \cup {k} /\ Link(h, k).size = h.size
           /\ \A b \in 0..(h.size - 1) : ToSet(Link(h, k).table[b]) = IF b = k % h.size THEN ToSet(h.table[b]) \cup {k} ELSE ToSet(h.table[b])
  <1>1. PICK b \in 0..(h.size - 1) : b = k % h.size
    BY TableHash
  <1>2. h.table[b] \in Seq(Int) /\ 0 \in 0..Len(h.table[b]) /\ h.used \in Nat
    <2>1. h.table[b] \in Seq(Int) /\ h.used \in Nat
      BY DEF TableOK
    <2> QED BY <2>1, LenProperties
  <1>3. PICK c : c = <<k>> \o h.table[b]
    OBVIOUS
  <1>4. Inserted(h.table[b], c, 0, k)
    BY <1>2, <1>3, PrependInserts
  <1>5. PICK h2 : h2 = Link(h, k)
    OBVIOUS
  <1>6. PICK u \in Int : u = h.used + 1 /\ Rechained(h, h2, b, c, u)
    <2>1. PICK u \in Int : u = h.used + 1
      BY <1>2
    <2>2. h2 = [h EXCEPT !.table[k % h.size] = <<k>> \o @, !.used = @ + 1]
      BY <1>5 DEF Link
    <2>3. h2 = [h EXCEPT !.table[b] = c, !.used = u]
      BY ONLY <1>1, <1>3, <2>1, <2>2
    <2> QED BY <2>1, <2>3 DEF Rechained
  <1>7. TableOK(h2) /\ KeysIn(h2) = KeysIn(h) \cup {k}
    <2>1. k % h.size = b
      BY <1>1
    <2>2. 0 \in 0..Len(h.table[b])
      BY <1>2
    <2>3. u = h.used + 1
      BY <1>6
    <2>4. Rechained(h, h2, b, c, u)
      BY <1>6
    <2>5. Rechained(h, h2, b, c, h.used + 1)
      BY <2>3, <2>4
    <2>6. Grows(h, h2, b, k, c, 0)
      BY <2>1, <2>2, <1>4, <2>5 DEF Grows
    <2> QED BY <2>6, ChainGrows
  <1>8. c \in Seq(Int)
    BY <1>4 DEF Inserted
  <1>9. h2.size = h.size /\ h2.table[b] = c /\ \A j \in 0..(h.size - 1) : j # b => h2.table[j] = h.table[j]
    BY ONLY TableOK(h), b \in 0..(h.size - 1), <1>6, <1>8, NewChain
  <1>10. ToSet(c) = ToSet(h.table[b]) \cup {k}
    BY <1>2, <1>4, InsertedMembers
  <1> QED BY <1>1, <1>5, <1>7, <1>9, <1>10

LEMMA UnlinkShrinks ==
    ASSUME NEW h, TableOK(h), h.size # 0, NEW k \in KeysIn(h), k \in Int
    PROVE  /\ TableOK(Unlink(h, k)) /\ KeysIn(Unlink(h, k)) = KeysIn(h) \ {k} /\ Unlink(h, k).size = h.size
           /\ \A b \in 0..(h.size - 1) : ToSet(Unlink(h, k).table[b]) = ToSet(h.table[b]) \ {k}
           /\ \A b \in 0..(h.size - 1) : h.table[b] = <<>> => Unlink(h, k).table[b] = <<>>
  <1>1. PICK b \in 0..(h.size - 1) : b = k % h.size /\ k \in ToSet(h.table[b])
    BY TableHash
  <1>2. PICK d \in Seq(Int) : d = h.table[b] /\ h.used \in Nat
    BY DEF TableOK
  <1>3. PICK i : i = CHOOSE x \in DOMAIN d : d[x] = k
    OBVIOUS
  <1>4. i \in 1..Len(d) /\ d[i] = k
    <2>1. DOMAIN d = 1..Len(d) /\ \E x \in 1..Len(d) : d[x] = k
      BY <1>1, <1>2, ToSetMembers, LenProperties
    <2> QED BY <1>3, <2>1
  <1>5. PICK p \in 0..(Len(d) - 1) : p + 1 = i
    <2>1. Len(d) \in Nat
      BY LenProperties
    <2>2. i - 1 \in 0..(Len(d) - 1) /\ (i - 1) + 1 = i
      BY <1>4, <2>1
    <2> QED BY <2>2
  <1>6. PICK c : c = RemoveAt(d, i)
    OBVIOUS
  <1>7. c \in Seq(Int) /\ Inserted(c, d, p, k)
    <2>1. c = RemoveAt(d, p + 1) /\ d[p + 1] = k
      BY <1>4, <1>5, <1>6
    <2> QED BY <2>1, RemoveAtRemoves
  <1>8. p \in 0..Len(c)
    <2>1. Len(d) = Len(c) + 1 /\ Len(c) \in Nat
      BY <1>7, LenProperties DEF Inserted
    <2> QED BY <2>1
  <1>9. PICK h2 : h2 = Unlink(h, k)
    OBVIOUS
  <1>10. PICK u \in Int : u = h.used - 1 /\ Rechained(h, h2, b, c, u)
    <2>1. PICK u \in Int : u = h.used - 1
      BY <1>2
    <2>2. h2 = [h EXCEPT !.table[k % h.size] = RemoveAt(h.table[k % h.size], CHOOSE x \in DOMAIN h.table[k % h.size] : h.table[k % h.size][x] = k),
                         !.used = @ - 1]
      BY <1>9 DEF Unlink
    <2>3. RemoveAt(h.table[k % h.size], CHOOSE x \in DOMAIN h.table[k % h.size] : h.table[k % h.size][x] = k) = c
      BY ONLY <1>1, <1>2, <1>3, <1>6
    <2>4. h2 = [h EXCEPT !.table[b] = c, !.used = u]
      BY ONLY <1>1, <2>1, <2>2, <2>3
    <2> QED BY <2>1, <2>4 DEF Rechained
  <1>11. TableOK(h2) /\ KeysIn(h2) = KeysIn(h) \ {k} /\ ToSet(c) = ToSet(h.table[b]) \ {k}
    <2>1. Inserted(c, h.table[b], p, k)
      BY <1>2, <1>7
    <2>2. u = h.used - 1
      BY <1>10
    <2>3. Rechained(h, h2, b, c, u)
      BY <1>10
    <2>4. c \in Seq(Int)
      BY <1>7
    <2>5. Rechained(h, h2, b, c, h.used - 1)
      BY <2>2, <2>3
    <2>6. Shrinks(h, h2, b, k, c, p)
      BY <2>1, <2>5, <2>4, <1>8 DEF Shrinks
    <2> QED BY <2>6, ChainShrinks
  <1>12. h2.size = h.size /\ h2.table[b] = c /\ \A j \in 0..(h.size - 1) : j # b => h2.table[j] = h.table[j]
    BY ONLY TableOK(h), b \in 0..(h.size - 1), <1>7, <1>10, NewChain
  <1>13. \A j \in 0..(h.size - 1) : j # b => k \notin ToSet(h.table[j])
    BY <1>1 DEF TableOK
  <1>14. \A j \in 0..(h.size - 1) : ToSet(h2.table[j]) = ToSet(h.table[j]) \ {k}
    BY <1>11, <1>12, <1>13
  <1>15. h.table[b] # <<>>
    <2>1. ToSet(<<>>) = {}
      BY DEF ToSet
    <2> QED BY <1>1, <2>1
  <1> QED BY <1>9, <1>11, <1>12, <1>14, <1>15

---------------------------------------------------------------------------
(* Dictionaries: two tables.                                               *)

Shaped(d, h, g, i) == d = [ht |-> <<h, g>>, rehashidx |-> i]

LEMMA ShapedParts ==
    ASSUME NEW d, NEW h, NEW g, NEW i, Shaped(d, h, g, i)
    PROVE  /\ d.ht[1] = h /\ d.ht[2] = g /\ d.rehashidx = i
           /\ \A n : Shaped([d EXCEPT !.ht[1] = n], n, g, i) /\ Shaped([d EXCEPT !.ht[2] = n], h, n, i)
           /\ \A a, b : Shaped([d EXCEPT !.ht = <<a, b>>], a, b, i)
           /\ \A j : Shaped([d EXCEPT !.rehashidx = j], h, g, j)
           /\ ToKeys(d) = KeysIn(h) \cup KeysIn(g) /\ (IsRehashing(d) <=> i # -1)
  <1>1. d.ht = <<h, g>> /\ d.rehashidx = i
    BY DEF Shaped
  <1>2. <<h, g>>[1] = h /\ <<h, g>>[2] = g
    OBVIOUS
  <1>3. \A n : [<<h, g>> EXCEPT ![1] = n] = <<n, g>> /\ [<<h, g>> EXCEPT ![2] = n] = <<h, n>>
    OBVIOUS
  <1>0. PICK t : t = <<h, g>> /\ d = [ht |-> t, rehashidx |-> i]
    BY DEF Shaped
  <1>4. \A n : [d EXCEPT !.ht[1] = n] = [ht |-> [<<h, g>> EXCEPT ![1] = n], rehashidx |-> i] /\ [d EXCEPT !.ht[2] = n] = [ht |-> [<<h, g>> EXCEPT ![2] = n], rehashidx |-> i]
    BY DEF Shaped
  <1>5. \A a, b : Shaped([d EXCEPT !.ht = <<a, b>>], a, b, i)
    <2>1. \A s : [d EXCEPT !.ht = s] = [ht |-> s, rehashidx |-> i]
      BY ONLY <1>0
    <2> QED BY ONLY <2>1, Zenon DEF Shaped
  <1>6. \A j : Shaped([d EXCEPT !.rehashidx = j], h, g, j)
    BY DEF Shaped
  <1>8. \A n : Shaped([d EXCEPT !.ht[1] = n], n, g, i) /\ Shaped([d EXCEPT !.ht[2] = n], h, n, i)
    BY ONLY <1>3, <1>4 DEF Shaped
  <1>10. d.ht[1] = h /\ d.ht[2] = g
    BY <1>1, <1>2
  <1>11. ToKeys(d) = KeysIn(h) \cup KeysIn(g) /\ (IsRehashing(d) <=> i # -1)
    BY <1>1, <1>10 DEF ToKeys, IsRehashing
  <1> QED BY ONLY <1>1, <1>5, <1>6, <1>8, <1>10, <1>11

\* The keys K are in the tables h and g, those of the buckets below i of h in g.
Halfway(h, g, i, K) ==
  /\ TableOK(h) /\ TableOK(g) /\ KeysIn(h) \cap KeysIn(g) = {} /\ K = KeysIn(h) \cup KeysIn(g)
  /\ i \in Nat /\ g.size # 0 /\ \A b \in 0..(h.size - 1) : b < i => h.table[b] = <<>>

Whole(h, g, i, K) ==
  \/ Halfway(h, g, i, K) /\ i < h.size
  \/ TableOK(h) /\ K = KeysIn(h) /\ i = -1 /\ g = NoTable

DictOK(d, K) == \E h, g, i : Shaped(d, h, g, i) /\ Whole(h, g, i, K)
HalfOK(d, K) == \E h, g, i : Shaped(d, h, g, i) /\ Halfway(h, g, i, K)

LEMMA NotDone ==
    ASSUME NEW h, NEW g, NEW i, NEW K, Halfway(h, g, i, K), h.used # 0
    PROVE  \E b \in 0..(h.size - 1) : b >= i /\ h.table[b] # <<>>
  <1>1. KeysIn(h) # {}
    <2>1. h.used = Cardinality(KeysIn(h))
      BY DEF Halfway, TableOK
    <2> QED BY <2>1, FS_EmptySet
  <1>2. PICK b \in 0..(h.size - 1) : ToSet(h.table[b]) # {}
    <2>1. \A k : k \in KeysIn(h) <=> \E b \in 0..(h.size - 1) : k \in ToSet(h.table[b])
      BY TableKeys DEF Halfway
    <2>2. PICK k : k \in KeysIn(h)
      BY ONLY <1>1
    <2>3. PICK b \in 0..(h.size - 1) : k \in ToSet(h.table[b])
      BY ONLY <2>1, <2>2
    <2> QED BY ONLY <2>3
  <1>3. h.table[b] # <<>>
    <2>1. ToSet(<<>>) = {}
      BY DEF ToSet
    <2> QED BY <1>2, <2>1
  <1>4. i \in Nat /\ h.size \in Nat /\ (b < i => h.table[b] = <<>>)
    BY TableKeys DEF Halfway
  <1> QED BY <1>3, <1>4

LEMMA NoneUsed ==
    ASSUME NEW h, TableOK(h), h.used = 0 \/ h.size = 0
    PROVE  KeysIn(h) = {} /\ h.used = 0
  <1>1. IsFiniteSet(KeysIn(h)) /\ h.used = Cardinality(KeysIn(h))
    BY DEF TableOK
  <1>2. CASE h.used = 0
    BY <1>1, <1>2, FS_EmptySet
  <1>3. CASE h.size = 0
    <2>1. \A k : k \in KeysIn(h) <=> \E b \in 0..(h.size - 1) : k \in ToSet(h.table[b])
      BY TableKeys
    <2>2. 0..(h.size - 1) = {}
      BY <1>3
    <2>3. KeysIn(h) = {}
      BY <2>1, <2>2
    <2> QED BY <1>1, <2>3, FS_EmptySet
  <1> QED BY <1>2, <1>3

\* One entry of the bucket i goes over.
Popped(h, i) == [h EXCEPT !.table[i] = Tail(@), !.used = @ - 1]

LEMMA EntryMoves ==
    ASSUME NEW h, NEW g, NEW i, NEW K, Halfway(h, g, i, K), i < h.size, h.table[i] # <<>>,
           NEW h2, h2 = Popped(h, i), NEW g2, g2 = Link(g, Head(h.table[i]))
    PROVE  Halfway(h2, g2, i, K) /\ h2.size = h.size /\ h2.table[i] = Tail(h.table[i])
  <1>1. TableOK(h) /\ TableOK(g) /\ i \in Nat /\ h.size \in Nat /\ g.size # 0 /\ h.table[i] \in Seq(Int) /\ h.used \in Nat
    <2>1. TableOK(h) /\ TableOK(g) /\ i \in Nat /\ g.size # 0
      BY DEF Halfway
    <2>2. h.size \in Nat /\ i \in 0..(h.size - 1)
      BY <2>1, TableKeys
    <2> QED BY <2>1, <2>2 DEF TableOK
  <1>2. i \in 0..(h.size - 1)
    BY <1>1
  <1>3. PICK c, k : c = Tail(h.table[i]) /\ k = Head(h.table[i])
    OBVIOUS
  <1>4. c \in Seq(Int) /\ k \in Int /\ 0 \in 0..Len(c) /\ Inserted(c, h.table[i], 0, k)
    BY <1>1, <1>3, HeadRemoved
  <1>5. Rechained(h, h2, i, c, h.used - 1)
    BY <1>3 DEF Rechained, Popped
  <1>6. Shrinks(h, h2, i, k, c, 0)
    BY <1>1, <1>2, <1>4, <1>5 DEF Shrinks
  <1>7. TableOK(h2) /\ KeysIn(h2) = KeysIn(h) \ {k} /\ k \in KeysIn(h)
    BY <1>6, ChainShrinks
  <1>8. h2.size = h.size /\ h2.table[i] = c /\ \A j \in 0..(h.size - 1) : j # i => h2.table[j] = h.table[j]
    <2>1. PICK u \in Int : u = h.used - 1
      BY <1>1
    <2>2. Rechained(h, h2, i, c, u)
      BY <1>5, <2>1
    <2> QED BY ONLY <1>1, <1>2, <1>4, <2>2, NewChain
  <1>9. k \notin KeysIn(g) /\ K = KeysIn(h) \cup KeysIn(g) /\ KeysIn(h) \cap KeysIn(g) = {}
    BY <1>7 DEF Halfway
  <1>10. TableOK(g2) /\ KeysIn(g2) = KeysIn(g) \cup {k} /\ g2.size = g.size
    <2>1. g2 = Link(g, k)
      BY <1>3
    <2> QED BY ONLY <1>1, <1>4, <1>9, <2>1, LinkGrows
  <1>11. KeysIn(h2) \cap KeysIn(g2) = {} /\ K = KeysIn(h2) \cup KeysIn(g2)
    BY ONLY <1>7, <1>9, <1>10
  <1>12. \A b \in 0..(h2.size - 1) : b < i => h2.table[b] = <<>>
    <2>1. \A b \in 0..(h.size - 1) : b < i => h.table[b] = <<>>
      BY DEF Halfway
    <2> QED BY <1>1, <1>8, <2>1
  <1> QED BY <1>1, <1>3, <1>7, <1>8, <1>10, <1>11, <1>12 DEF Halfway

LEMMA MoveEntryKeeps ==
    ASSUME NEW d, NEW h, NEW g, NEW i, NEW K, Shaped(d, h, g, i), Halfway(h, g, i, K), i < h.size, h.table[i] # <<>>
    PROVE  \E h2, g2 : Shaped(MoveEntry(d), h2, g2, i) /\ Halfway(h2, g2, i, K) /\ h2.size = h.size /\ h2.table[i] = Tail(h.table[i])
  <1>1. PICK h2, g2 : h2 = Popped(h, i) /\ g2 = Link(g, Head(h.table[i]))
    OBVIOUS
  <1>2. Halfway(h2, g2, i, K) /\ h2.size = h.size /\ h2.table[i] = Tail(h.table[i])
    BY ONLY Halfway(h, g, i, K), i < h.size, h.table[i] # <<>>, <1>1, EntryMoves
  <1>3. d.ht[1] = h /\ d.ht[2] = g /\ d.rehashidx = i
    BY ShapedParts
  <1>4. MoveEntry(d) = [d EXCEPT !.ht = <<h2, g2>>]
    BY <1>1, <1>3 DEF MoveEntry, Popped
  <1>5. Shaped(MoveEntry(d), h2, g2, i)
    <2>1. \A a, b : Shaped([d EXCEPT !.ht = <<a, b>>], a, b, i)
      BY ShapedParts
    <2>2. Shaped([d EXCEPT !.ht = <<h2, g2>>], h2, g2, i)
      BY ONLY <2>1, Zenon
    <2> QED BY ONLY <1>4, <2>2, Zenon
  <1> QED BY <1>2, <1>5

---------------------------------------------------------------------------
(* Dictionaries: rehashing.                                                *)

\* The dictionary after each entry that was moved, and a call of dictRehash after each
\* bucket it looked at.
MoveLoop(f, d, n) == f = [i \in 0..n |-> IF i = 0 THEN d ELSE MoveEntry(f[i - 1])]
RoundLoop(f, r, n) == f = [i \in 0..n |-> IF i = 0 THEN r ELSE RehashRound(f[i - 1])]
PowerLoop(f, x, n) == f = [i \in 0..n |-> IF i = 0 THEN x ELSE 2 * f[i - 1]]

LEMMA MoveLoopExists ==
    ASSUME NEW d, NEW n \in Nat
    PROVE  \E f : MoveLoop(f, d, n)
  <1> DEFINE Bad == {m \in Nat : ~\E f : MoveLoop(f, d, m)}
  <1> SUFFICES ASSUME Bad # {} PROVE FALSE
    OBVIOUS
  <1>1. PICK m \in Bad : \A y \in Bad : m <= y
    BY LeastNatural
  <1>2. m # 0
    <2>1. MoveLoop([i \in 0..0 |-> d], d, 0)
      BY DEF MoveLoop
    <2> QED BY <2>1
  <1>3. m - 1 \in Nat /\ m \in Nat /\ m - 1 \notin Bad
    BY <1>1, <1>2
  <1>4. PICK f : MoveLoop(f, d, m - 1)
    BY <1>3
  <1> DEFINE g == [i \in 0..m |-> IF i = m THEN MoveEntry(f[m - 1]) ELSE f[i]]
  <1>5. MoveLoop(g, d, m)
    <2>1. \A i \in 0..(m - 1) : g[i] = f[i]
      BY <1>3
    <2>2. \A i \in 0..(m - 1) : f[i] = IF i = 0 THEN d ELSE MoveEntry(f[i - 1])
      BY <1>4 DEF MoveLoop
    <2>3. \A i \in 0..m : g[i] = IF i = 0 THEN d ELSE MoveEntry(g[i - 1])
      <3> SUFFICES ASSUME NEW i \in 0..m PROVE g[i] = IF i = 0 THEN d ELSE MoveEntry(g[i - 1])
        OBVIOUS
      <3>1. CASE i = m
        <4>1. g[i] = MoveEntry(f[m - 1]) /\ g[m - 1] = f[m - 1] /\ i # 0
          BY <1>2, <1>3, <2>1, <3>1
        <4> QED BY <3>1, <4>1
      <3>2. CASE i # m
        <4>1. i \in 0..(m - 1) /\ (i # 0 => i - 1 \in 0..(m - 1))
          BY <1>3, <3>2
        <4> QED BY <2>1, <2>2, <4>1
      <3> QED BY <3>1, <3>2
    <2> QED BY <2>3 DEF MoveLoop
  <1> QED BY <1>1, <1>5

LEMMA RoundLoopExists ==
    ASSUME NEW r, NEW n \in Nat
    PROVE  \E f : RoundLoop(f, r, n)
  <1> DEFINE Bad == {m \in Nat : ~\E f : RoundLoop(f, r, m)}
  <1> SUFFICES ASSUME Bad # {} PROVE FALSE
    OBVIOUS
  <1>1. PICK m \in Bad : \A y \in Bad : m <= y
    BY LeastNatural
  <1>2. m # 0
    <2>1. RoundLoop([i \in 0..0 |-> r], r, 0)
      BY DEF RoundLoop
    <2> QED BY <2>1
  <1>3. m - 1 \in Nat /\ m \in Nat /\ m - 1 \notin Bad
    BY <1>1, <1>2
  <1>4. PICK f : RoundLoop(f, r, m - 1)
    BY <1>3
  <1> DEFINE g == [i \in 0..m |-> IF i = m THEN RehashRound(f[m - 1]) ELSE f[i]]
  <1>5. RoundLoop(g, r, m)
    <2>1. \A i \in 0..(m - 1) : g[i] = f[i]
      BY <1>3
    <2>2. \A i \in 0..(m - 1) : f[i] = IF i = 0 THEN r ELSE RehashRound(f[i - 1])
      BY <1>4 DEF RoundLoop
    <2>3. \A i \in 0..m : g[i] = IF i = 0 THEN r ELSE RehashRound(g[i - 1])
      <3> SUFFICES ASSUME NEW i \in 0..m PROVE g[i] = IF i = 0 THEN r ELSE RehashRound(g[i - 1])
        OBVIOUS
      <3>1. CASE i = m
        <4>1. g[i] = RehashRound(f[m - 1]) /\ g[m - 1] = f[m - 1] /\ i # 0
          BY <1>2, <1>3, <2>1, <3>1
        <4> QED BY <3>1, <4>1
      <3>2. CASE i # m
        <4>1. i \in 0..(m - 1) /\ (i # 0 => i - 1 \in 0..(m - 1))
          BY <1>3, <3>2
        <4> QED BY <2>1, <2>2, <4>1
      <3> QED BY <3>1, <3>2
    <2> QED BY <2>3 DEF RoundLoop
  <1> QED BY <1>1, <1>5

LEMMA PowerLoopExists ==
    ASSUME NEW x, NEW n \in Nat
    PROVE  \E f : PowerLoop(f, x, n)
  <1> DEFINE Bad == {m \in Nat : ~\E f : PowerLoop(f, x, m)}
  <1> SUFFICES ASSUME Bad # {} PROVE FALSE
    OBVIOUS
  <1>1. PICK m \in Bad : \A y \in Bad : m <= y
    BY LeastNatural
  <1>2. m # 0
    <2>1. PowerLoop([i \in 0..0 |-> x], x, 0)
      BY DEF PowerLoop
    <2> QED BY <2>1
  <1>3. m - 1 \in Nat /\ m \in Nat /\ m - 1 \notin Bad
    BY <1>1, <1>2
  <1>4. PICK f : PowerLoop(f, x, m - 1)
    BY <1>3
  <1> DEFINE g == [i \in 0..m |-> IF i = m THEN 2 * f[m - 1] ELSE f[i]]
  <1>5. PowerLoop(g, x, m)
    <2>1. \A i \in 0..(m - 1) : g[i] = f[i]
      BY <1>3
    <2>2. \A i \in 0..(m - 1) : f[i] = IF i = 0 THEN x ELSE 2 * f[i - 1]
      BY <1>4 DEF PowerLoop
    <2>3. \A i \in 0..m : g[i] = IF i = 0 THEN x ELSE 2 * g[i - 1]
      <3> SUFFICES ASSUME NEW i \in 0..m PROVE g[i] = IF i = 0 THEN x ELSE 2 * g[i - 1]
        OBVIOUS
      <3>1. CASE i = m
        <4>1. g[i] = 2 * f[m - 1] /\ g[m - 1] = f[m - 1] /\ i # 0
          BY <1>2, <1>3, <2>1, <3>1
        <4> QED BY <3>1, <4>1
      <3>2. CASE i # m
        <4>1. i \in 0..(m - 1) /\ (i # 0 => i - 1 \in 0..(m - 1))
          BY <1>3, <3>2
        <4> QED BY <2>1, <2>2, <4>1
      <3> QED BY <3>1, <3>2
    <2> QED BY <2>3 DEF PowerLoop
  <1> QED BY <1>1, <1>5

LEMMA MoveBucketKeeps ==
    ASSUME NEW d, NEW h, NEW g, NEW i, NEW K, Shaped(d, h, g, i), Halfway(h, g, i, K), i < h.size
    PROVE  \E h2, g2 : Shaped(MoveBucket(d), h2, g2, i + 1) /\ Halfway(h2, g2, i + 1, K)
  <1>1. d.ht[1] = h /\ d.rehashidx = i
    BY ShapedParts
  <1>2. TableOK(h) /\ i \in Nat /\ h.size \in Nat
    BY TableKeys DEF Halfway
  <1>3. h.table[i] \in Seq(Int)
    BY <1>2 DEF TableOK
  <1>4. PICK n \in Nat : n = Len(h.table[i])
    BY <1>3, LenProperties
  <1>5. PICK f : MoveLoop(f, d, n) /\ MoveBucket(d) = [f[n] EXCEPT !.rehashidx = @ + 1]
    <2> DEFINE f == CHOOSE f : MoveLoop(f, d, n)
    <2>1. MoveLoop(f, d, n)
      BY MoveLoopExists
    <2>2. MoveBucket(d) = [f[n] EXCEPT !.rehashidx = @ + 1]
      BY <1>1, <1>4 DEF MoveBucket, MoveLoop
    <2> QED BY <2>1, <2>2
  <1>6. \A j \in 0..n : f[j] = IF j = 0 THEN d ELSE MoveEntry(f[j - 1])
    BY <1>5 DEF MoveLoop
  <1> DEFINE Moving(e, m) == \E a, b : /\ Shaped(e, a, b, i) /\ Halfway(a, b, i, K) /\ a.size = h.size
                                      /\ a.table[i] \in Seq(Int) /\ Len(a.table[i]) = m
  <1> DEFINE G == {j \in 0..n : Moving(f[j], n - j)}
  <1>7. 0 \in G
    <2>1. f[0] = d
      BY <1>6
    <2>2. Moving(d, n - 0)
      BY <1>3, <1>4
    <2> QED BY <2>1, <2>2
  <1>8. ASSUME NEW j \in 1..n, j - 1 \in G PROVE j \in G
    <2>1. f[j] = MoveEntry(f[j - 1])
      BY <1>6
    <2>2. Moving(f[j - 1], n - (j - 1))
      BY <1>8
    <2>3. PICK a, b : /\ Shaped(f[j - 1], a, b, i) /\ Halfway(a, b, i, K) /\ a.size = h.size
                      /\ a.table[i] \in Seq(Int) /\ Len(a.table[i]) = n - (j - 1)
      BY <2>2
    <2>4. a.table[i] # <<>>
      BY <2>3, EmptySeq
    <2>5. i < a.size
      BY <2>3
    <2>6. PICK a2, b2 : Shaped(f[j], a2, b2, i) /\ Halfway(a2, b2, i, K) /\ a2.size = a.size /\ a2.table[i] = Tail(a.table[i])
      BY ONLY <2>1, <2>3, <2>4, <2>5, MoveEntryKeeps
    <2>7. a2.table[i] \in Seq(Int) /\ Len(a2.table[i]) = Len(a.table[i]) - 1
      BY ONLY <2>3, <2>4, <2>6, HeadRemoved
    <2>8. Len(a2.table[i]) = n - j
      BY <2>3, <2>7
    <2>9. Moving(f[j], n - j)
      BY <2>3, <2>6, <2>7, <2>8
    <2> QED BY <2>9
  <1>9. 0..n \subseteq G
    <2> HIDE DEF G
    <2> QED BY <1>7, <1>8, IntervalInduction
  <1>10. PICK a, b : /\ Shaped(f[n], a, b, i) /\ Halfway(a, b, i, K) /\ a.size = h.size
                     /\ a.table[i] \in Seq(Int) /\ Len(a.table[i]) = 0
    <2>1. Moving(f[n], n - n)
      BY <1>9
    <2> QED BY <2>1
  <1>11. a.table[i] = <<>>
    BY <1>10, EmptySeq
  <1>12. Halfway(a, b, i + 1, K)
    <2>1. \A j \in 0..(a.size - 1) : j < i => a.table[j] = <<>>
      BY <1>10 DEF Halfway
    <2>2. \A j \in 0..(a.size - 1) : j < i + 1 => a.table[j] = <<>>
      BY <1>2, <1>10, <1>11, <2>1
    <2> QED BY <1>2, <1>10, <2>2 DEF Halfway
  <1>13. Shaped(MoveBucket(d), a, b, i + 1)
    <2>1. PICK e : e = f[n]
      OBVIOUS
    <2>2. e.rehashidx = i /\ \A j : Shaped([e EXCEPT !.rehashidx = j], a, b, j)
      BY <1>10, <2>1, ShapedParts
    <2>3. MoveBucket(d) = [e EXCEPT !.rehashidx = i + 1]
      BY <1>5, <2>1, <2>2
    <2> QED BY <2>2, <2>3
  <1> QED BY <1>12, <1>13

RoundOK(r, K) ==
  /\ DOMAIN r = {"d", "n", "visits"} /\ r = [d |-> r.d, n |-> r.n, visits |-> r.visits]
  /\ \E h, g, i : Shaped(r.d, h, g, i) /\ Halfway(h, g, i, K) /\ (r.visits = 0 => i < h.size)

LEMMA RoundKeeps ==
    ASSUME NEW r, NEW K, RoundOK(r, K)
    PROVE  RoundOK(RehashRound(r), K)
  <1>1. PICK d, n, v : r = [d |-> d, n |-> n, visits |-> v]
    BY DEF RoundOK
  <1>2. r.d = d /\ r.n = n /\ r.visits = v
    BY <1>1
  <1>3. PICK h, g, i : Shaped(d, h, g, i) /\ Halfway(h, g, i, K) /\ (v = 0 => i < h.size)
    BY <1>2 DEF RoundOK
  <1>4. d.ht[1] = h /\ d.rehashidx = i /\ \A j : Shaped([d EXCEPT !.rehashidx = j], h, g, j)
    BY <1>3, ShapedParts
  <1>5. CASE n = 0 \/ v = 0 \/ h.used = 0
    BY <1>2, <1>4, <1>5 DEF RehashRound
  <1>6. CASE ~(n = 0 \/ v = 0 \/ h.used = 0)
    <2>1. PICK b \in 0..(h.size - 1) : b >= i /\ h.table[b] # <<>>
      BY <1>3, <1>6, NotDone
    <2>2. i \in Nat /\ h.size \in Nat /\ i < h.size
      <3>1. i \in Nat /\ h.size \in Nat
        BY <1>3, TableKeys DEF Halfway
      <3> QED BY <2>1, <3>1
    <2>3. CASE h.table[i] # <<>>
      <3>1. PICK h2, g2 : Shaped(MoveBucket(d), h2, g2, i + 1) /\ Halfway(h2, g2, i + 1, K)
        BY <1>3, <2>2, MoveBucketKeeps
      <3>2. PICK q, m : q = MoveBucket(d) /\ m = n - 1
        OBVIOUS
      <3>3. RehashRound(r) = [d |-> q, n |-> m, visits |-> v]
        BY <1>2, <1>4, <1>6, <2>3, <3>2 DEF RehashRound
      <3> QED BY <1>6, <3>1, <3>2, <3>3 DEF RoundOK
    <2>4. CASE h.table[i] = <<>>
      <3>2. PICK q, m : q = [d EXCEPT !.rehashidx = i + 1] /\ m = v - 1
        OBVIOUS
      <3>3. RehashRound(r) = [d |-> q, n |-> n, visits |-> m]
        BY <1>2, <1>4, <1>6, <2>4, <3>2 DEF RehashRound
      <3>4. Shaped(q, h, g, i + 1)
        BY <1>4, <3>2
      <3>5. b # i
        BY <2>1, <2>4
      <3>6. i + 1 < h.size
        BY <2>1, <2>2, <3>5
      <3>7. Halfway(h, g, i + 1, K)
        <4>1. \A j \in 0..(h.size - 1) : j < i => h.table[j] = <<>>
          BY <1>3 DEF Halfway
        <4>2. \A j \in 0..(h.size - 1) : j < i + 1 => h.table[j] = <<>>
          BY <2>2, <2>4, <4>1
        <4> QED BY <1>3, <2>2, <4>2 DEF Halfway
      <3> QED BY <3>3, <3>4, <3>6, <3>7 DEF RoundOK
    <2> QED BY <2>3, <2>4
  <1> QED BY <1>5, <1>6

\* The assertion of dictRehash is the premise i < h.size of MoveBucketKeeps.
LEMMA RehashKeeps ==
    ASSUME NEW d, NEW n, NEW K, DictOK(d, K)
    PROVE  DictOK(dictRehash(d, n), K) /\ (d.ht[1].size # 0 => dictRehash(d, n).ht[1].size # 0)
  <1>1. PICK h, g, i : Shaped(d, h, g, i) /\ Whole(h, g, i, K)
    BY DEF DictOK
  <1>2. d.ht[1] = h /\ (IsRehashing(d) <=> i # -1)
    BY <1>1, ShapedParts
  <1>3. CASE i = -1
    BY <1>2, <1>3 DEF dictRehash
  <1>4. CASE i # -1
    <2>1. Halfway(h, g, i, K) /\ i < h.size
      BY <1>1, <1>4 DEF Whole
    <2>2. PICK m \in Nat : m = h.size
      BY <2>1, TableKeys DEF Halfway
    <2>3. PICK r0 : r0 = [d |-> d, n |-> n, visits |-> n * EmptyVisits]
      OBVIOUS
    <2>4. PICK f : RoundLoop(f, r0, m) /\ dictRehash(d, n) = IF f[m].visits = 0 THEN f[m].d ELSE RehashFinished(f[m].d)
      <3> DEFINE f == CHOOSE f : RoundLoop(f, r0, m)
      <3>1. RoundLoop(f, r0, m)
        BY RoundLoopExists
      <3>2. dictRehash(d, n) = IF f[m].visits = 0 THEN f[m].d ELSE RehashFinished(f[m].d)
        BY <1>2, <1>4, <2>2, <2>3 DEF dictRehash, RoundLoop
      <3> QED BY <3>1, <3>2
    <2>5. \A j \in 0..m : f[j] = IF j = 0 THEN r0 ELSE RehashRound(f[j - 1])
      BY <2>4 DEF RoundLoop
    <2> DEFINE G == {j \in 0..m : RoundOK(f[j], K)}
    <2>6. 0 \in G
      <3>1. f[0] = r0
        BY <2>5
      <3>2. RoundOK(r0, K)
        BY <1>1, <2>1, <2>3 DEF RoundOK
      <3> QED BY <3>1, <3>2
    <2>7. ASSUME NEW j \in 1..m, j - 1 \in G PROVE j \in G
      <3>1. f[j] = RehashRound(f[j - 1])
        BY <2>5
      <3>2. RoundOK(f[j], K)
        BY <2>7, <3>1, RoundKeeps
      <3> QED BY <3>2
    <2>8. 0..m \subseteq G
      <3> HIDE DEF G
      <3> QED BY <2>6, <2>7, IntervalInduction
    <2>9. RoundOK(f[m], K)
      BY <2>8
    <2>10. PICK e, v : e = f[m].d /\ v = f[m].visits
      OBVIOUS
    <2>11. PICK a, b, j : Shaped(e, a, b, j) /\ Halfway(a, b, j, K) /\ (v = 0 => j < a.size)
      BY <2>9, <2>10 DEF RoundOK
    <2>12. dictRehash(d, n) = IF v = 0 THEN e ELSE RehashFinished(e)
      BY <2>4, <2>10
    <2>13. e.ht[1] = a /\ e.ht[2] = b
      BY <2>11, ShapedParts
    <2>14. CASE v # 0 /\ a.used = 0
      <3>1. KeysIn(a) = {} /\ K = KeysIn(b) /\ TableOK(b)
        BY <2>11, <2>14, NoneUsed DEF Halfway
      <3>2. dictRehash(d, n) = [ht |-> <<b, NoTable>>, rehashidx |-> -1]
        BY <2>12, <2>13, <2>14 DEF RehashFinished
      <3>3. Shaped(dictRehash(d, n), b, NoTable, -1) /\ Whole(b, NoTable, -1, K)
        BY <3>1, <3>2 DEF Shaped, Whole
      <3>4. dictRehash(d, n).ht[1] = b /\ b.size # 0
        BY <2>11, <3>3, ShapedParts DEF Halfway
      <3> QED BY <3>3, <3>4 DEF DictOK
    <2>15. CASE v = 0 \/ a.used # 0
      <3>1. dictRehash(d, n) = e
        BY <2>12, <2>13, <2>15 DEF RehashFinished
      <3>2. j < a.size
        <4>1. j \in Nat /\ a.size \in Nat
          BY <2>11, TableKeys DEF Halfway
        <4>2. CASE a.used # 0
          <5>1. PICK x \in 0..(a.size - 1) : x >= j
            BY <2>11, <4>2, NotDone
          <5> QED BY <4>1, <5>1
        <4> QED BY <2>11, <2>15, <4>2
      <3>3. Whole(a, b, j, K)
        BY <2>11, <3>2 DEF Whole
      <3>4. a.size # 0
        <4>1. j \in Nat
          BY <2>11 DEF Halfway
        <4> QED BY <3>2, <4>1
      <3> QED BY <2>11, <2>13, <3>1, <3>3, <3>4 DEF DictOK
    <2> QED BY <2>14, <2>15
  <1> QED BY <1>3, <1>4

---------------------------------------------------------------------------
(* Dictionaries: growing, adding, deleting.                                *)

LEMMA NextPowerPositive ==
    ASSUME NEW size \in Nat
    PROVE  dictNextPower(size) \in Nat \ {0}
  <1>1. PICK x \in Nat \ {0} : x = DICT_HT_INITIAL_SIZE
    BY LimitsAssumption
  <1>2. PICK f : PowerLoop(f, x, size) /\ dictNextPower(size) = f[Min({i \in 0..size : f[i] >= size})]
    <2> DEFINE f == CHOOSE f : PowerLoop(f, x, size)
    <2>1. PowerLoop(f, x, size)
      BY PowerLoopExists
    <2>2. dictNextPower(size) = f[Min({i \in 0..size : f[i] >= size})]
      BY <1>1 DEF dictNextPower, PowerLoop
    <2> QED BY <2>1, <2>2
  <1>3. \A i \in 0..size : f[i] = IF i = 0 THEN x ELSE 2 * f[i - 1]
    BY <1>2 DEF PowerLoop
  <1> DEFINE G == {i \in 0..size : f[i] \in Nat /\ f[i] > i}
  <1>4. 0 \in G
    BY <1>1, <1>3
  <1>5. ASSUME NEW i \in 1..size, i - 1 \in G PROVE i \in G
    <2>1. f[i] = 2 * f[i - 1] /\ f[i - 1] \in Nat /\ f[i - 1] > i - 1
      BY <1>3, <1>5
    <2> QED BY <2>1
  <1>6. 0..size \subseteq G
    <2> HIDE DEF G
    <2> QED BY <1>4, <1>5, IntervalInduction
  <1>7. \A i \in 0..size : f[i] \in Nat /\ f[i] > i
    BY <1>6
  <1> DEFINE S == {i \in 0..size : f[i] >= size}
  <1>8. S \in SUBSET Nat /\ S # {} /\ S \subseteq 0..size
    <2>1. size \in S
      BY <1>7
    <2> QED BY <2>1
  <1> HIDE DEF S
  <1>9. PICK m \in S : \A y \in S : m <= y
    BY <1>8, LeastNatural
  <1>10. Min(S) \in S
    BY <1>9 DEF Min
  <1>11. dictNextPower(size) = f[Min(S)]
    BY <1>2 DEF S
  <1>12. PICK j \in 0..size : dictNextPower(size) = f[j]
    BY <1>8, <1>10, <1>11
  <1>13. f[j] \in Nat /\ f[j] > j
    BY <1>7
  <1> QED BY <1>12, <1>13

\* The keys of a bucket; no bucket loses one, and S is all that any gets.
In(h, b) == IF b \in 0..(h.size - 1) THEN ToSet(h.table[b]) ELSE {}
Within(h, h2, S) == \A b \in Int : In(h, b) \subseteq In(h2, b) /\ In(h2, b) \subseteq In(h, b) \cup S
Extended(d, d2, S) ==
  Within(d.ht[1], d2.ht[1], S) /\ Within(d.ht[2], d2.ht[2], S) /\ (IsRehashing(d) => IsRehashing(d2))

LEMMA ExtendedOnce ==
    ASSUME NEW d, NEW d1, NEW d2, NEW S, Extended(d, d1, {}), Extended(d1, d2, S)
    PROVE  Extended(d, d2, S)
  BY DEF Extended, Within

LEMMA WithinSame ==
    ASSUME NEW h, NEW S PROVE Within(h, h, S)
  BY DEF Within

LEMMA InNothing ==
    ASSUME NEW h, h.size = 0 \/ (TableOK(h) /\ \A b \in 0..(h.size - 1) : h.table[b] = <<>>)
    PROVE  \A b : In(h, b) = {}
  <1>1. ToSet(<<>>) = {}
    BY DEF ToSet
  <1>2. CASE h.size = 0
    <2>1. 0..(h.size - 1) = {}
      BY <1>2
    <2> QED BY <2>1 DEF In
  <1> QED BY <1>1, <1>2 DEF In

LEMMA ExpandKeeps ==
    ASSUME NEW d, NEW K, DictOK(d, K), NEW size \in Nat, NEW e, e = dictExpand(d, size)
    PROVE  DictOK(e, K) /\ Extended(d, e, {}) /\ (d.ht[1].size = 0 => e.ht[1].size # 0) /\ (d.ht[1].size # 0 => e.ht[1] = d.ht[1])
  <1>1. PICK h, g, i : Shaped(d, h, g, i) /\ Whole(h, g, i, K)
    BY DEF DictOK
  <1>2. /\ d.ht[1] = h /\ d.ht[2] = g /\ (IsRehashing(d) <=> i # -1)
        /\ \A n : Shaped([d EXCEPT !.ht[1] = n], n, g, i)
    BY <1>1, ShapedParts
  <1>3. PICK m \in Nat \ {0} : m = dictNextPower(size)
    BY NextPowerPositive
  <1>4. PICK n : n = Fresh(m)
    OBVIOUS
  <1>5. TableOK(n) /\ KeysIn(n) = {} /\ n.size = m /\ \A b \in 0..(m - 1) : n.table[b] = <<>>
    BY <1>4, FreshOK
  <1>6. \A b : In(n, b) = {}
    BY <1>5, InNothing
  <1>7. TableOK(h) /\ h.size \in Nat /\ h.used \in Nat
    <2>1. TableOK(h)
      BY <1>1 DEF Whole, Halfway
    <2> QED BY <2>1, TableKeys DEF TableOK
  <1>8. CASE i # -1 \/ h.used > size \/ m = h.size
    <2>1. e = d
      BY <1>2, <1>3, <1>4, <1>5, <1>8 DEF dictExpand
    <2>2. h.size # 0
      <3>1. CASE i # -1
        <4>1. i < h.size /\ i \in Nat
          BY <1>1, <3>1 DEF Whole, Halfway
        <4> QED BY <1>7, <4>1
      <3>2. CASE h.used > size
        <4>1. h.used # 0
          BY <1>7, <3>2
        <4> QED BY <1>7, <4>1, NoneUsed
      <3>3. CASE m = h.size
        BY <1>3, <3>3
      <3> QED BY <1>8, <3>1, <3>2, <3>3
    <2> QED BY <1>2, <2>1, <2>2, WithinSame DEF Extended
  <1>9. CASE ~(i # -1 \/ h.used > size \/ m = h.size)
    <2>1. K = KeysIn(h) /\ g = NoTable /\ i = -1 /\ ~IsRehashing(d)
      BY <1>1, <1>2, <1>9 DEF Whole, Halfway
    <2>2. \A b : In(g, b) = {}
      <3>1. g.size = 0
        BY <2>1, FreshOK DEF NoTable
      <3> QED BY <3>1, InNothing
    <2>3. CASE h.size = 0
      <3>1. e = [d EXCEPT !.ht[1] = n]
        BY <1>2, <1>3, <1>4, <1>5, <1>9, <2>1, <2>3 DEF dictExpand
      <3>2. Shaped(e, n, g, i)
        BY <1>2, <3>1
      <3>3. KeysIn(h) = {}
        BY <1>7, <2>3, NoneUsed
      <3>4. Whole(n, g, i, K)
        BY <1>5, <2>1, <3>3 DEF Whole
      <3>5. e.ht[1] = n /\ e.ht[2] = g
        BY <3>2, ShapedParts
      <3>6. \A b : In(h, b) = {}
        BY <2>3, InNothing
      <3>7. Within(h, n, {})
        BY <1>6, <3>6 DEF Within
      <3> QED BY <1>2, <1>3, <1>5, <2>1, <2>3, <3>2, <3>4, <3>5, <3>7, WithinSame DEF DictOK, Extended
    <2>4. CASE h.size # 0
      <3>1. e = [ht |-> <<h, n>>, rehashidx |-> 0]
        BY <1>2, <1>3, <1>4, <1>5, <1>9, <2>1, <2>4 DEF dictExpand
      <3>2. Shaped(e, h, n, 0)
        BY <3>1 DEF Shaped
      <3>3. Halfway(h, n, 0, K) /\ 0 < h.size
        BY <1>3, <1>5, <1>7, <2>1, <2>4 DEF Halfway
      <3>4. e.ht[1] = h /\ e.ht[2] = n
        BY <3>2, ShapedParts
      <3>5. Within(g, n, {})
        BY <1>6, <2>2 DEF Within
      <3>6. Whole(h, n, 0, K)
        BY <3>3 DEF Whole
      <3> QED BY <1>2, <2>1, <2>4, <3>2, <3>4, <3>5, <3>6, WithinSame DEF DictOK, Extended
    <2> QED BY <2>3, <2>4
  <1> QED BY <1>8, <1>9

LEMMA ExpandIfNeededKeeps ==
    ASSUME NEW d, NEW K, DictOK(d, K), NEW e, e = dictExpandIfNeeded(d)
    PROVE  DictOK(e, K) /\ Extended(d, e, {}) /\ e.ht[1].size # 0
  <1>1. PICK h, g, i : Shaped(d, h, g, i) /\ Whole(h, g, i, K)
    BY DEF DictOK
  <1>2. d.ht[1] = h /\ (IsRehashing(d) <=> i # -1)
    BY <1>1, ShapedParts
  <1>3. TableOK(h) /\ h.size \in Nat /\ h.used \in Nat
    <2>1. TableOK(h)
      BY <1>1 DEF Whole, Halfway
    <2> QED BY <2>1, TableKeys DEF TableOK
  <1>4. i # -1 => h.size # 0
    <2>1. ASSUME i # -1 PROVE i \in Nat /\ i < h.size
      BY <1>1, <2>1 DEF Whole, Halfway
    <2> QED BY <1>3, <2>1
  <1>5. Extended(d, d, {})
    BY WithinSame DEF Extended
  <1>6. CASE e = d /\ h.size # 0
    BY <1>2, <1>5, <1>6
  <1>7. CASE e = dictExpand(d, DICT_HT_INITIAL_SIZE) /\ h.size = 0
    <2>1. PICK s \in Nat : s = DICT_HT_INITIAL_SIZE
      BY LimitsAssumption
    <2> QED BY <1>2, <1>7, <2>1, ExpandKeeps
  <1>8. CASE e = dictExpand(d, h.used * 2) /\ h.size # 0
    <2>1. PICK s \in Nat : s = h.used * 2
      BY <1>3
    <2>2. DictOK(e, K) /\ Extended(d, e, {}) /\ (d.ht[1].size # 0 => e.ht[1] = d.ht[1])
      <3>1. e = dictExpand(d, s)
        BY <1>8, <2>1
      <3> QED BY <3>1, ExpandKeeps
    <2> QED BY <1>2, <1>8, <2>2
  <1> QED BY <1>2, <1>4, <1>6, <1>7, <1>8 DEF dictExpandIfNeeded

LEMMA RehashStepKeeps ==
    ASSUME NEW d, NEW K, DictOK(d, K)
    PROVE  /\ DictOK(dictRehashStep(d), K) /\ (Iterators => dictRehashStep(d) = d)
           /\ d.ht[1].size # 0 => dictRehashStep(d).ht[1].size # 0
  BY RehashKeeps DEF dictRehashStep

LEMMA HasIffThere ==
    ASSUME NEW d, NEW h, NEW g, NEW i, NEW K, Shaped(d, h, g, i), Whole(h, g, i, K), h.size # 0, NEW k \in Int
    PROVE  /\ Has(d, k) <=> k \in K
           /\ Has(d, k) => LET t == CHOOSE u \in Tables(d) : k \in ToSet(Chain(d, u, k))
                           IN (t = 1 /\ k \in KeysIn(h)) \/ (t = 2 /\ i # -1 /\ k \in KeysIn(g))
  <1>1. d.ht[1] = h /\ d.ht[2] = g /\ (IsRehashing(d) <=> i # -1)
    BY ShapedParts
  <1>2. TableOK(h) /\ (i # -1 => TableOK(g) /\ g.size # 0 /\ K = KeysIn(h) \cup KeysIn(g)) /\ (i = -1 => K = KeysIn(h))
    BY DEF Whole, Halfway
  <1>3. k \in KeysIn(h) <=> k \in ToSet(Chain(d, 1, k))
    BY <1>1, <1>2, TableHash DEF Chain
  <1>4. i # -1 => (k \in KeysIn(g) <=> k \in ToSet(Chain(d, 2, k)))
    BY <1>1, <1>2, TableHash DEF Chain
  <1>5. Tables(d) = IF i # -1 THEN {1, 2} ELSE {1}
    BY <1>1 DEF Tables
  <1>6. Has(d, k) <=> k \in K
    BY ONLY <1>2, <1>3, <1>4, <1>5 DEF Has
  <1>7. ASSUME Has(d, k), NEW t, t = CHOOSE u \in Tables(d) : k \in ToSet(Chain(d, u, k))
        PROVE  (t = 1 /\ k \in KeysIn(h)) \/ (t = 2 /\ i # -1 /\ k \in KeysIn(g))
    <2>1. t \in Tables(d) /\ k \in ToSet(Chain(d, t, k))
      BY ONLY <1>7 DEF Has
    <2>2. CASE t = 1
      <3>1. k \in ToSet(Chain(d, 1, k))
        BY ONLY <2>1, <2>2, Zenon
      <3>2. k \in KeysIn(h)
        BY ONLY <1>3, <3>1, Zenon
      <3> QED BY ONLY <2>2, <3>2, Zenon
    <2>3. CASE t # 1
      <3>1. t = 2 /\ i # -1
        BY ONLY <1>5, <2>1, <2>3
      <3> QED BY ONLY <1>4, <2>1, <3>1
    <2> QED BY ONLY <2>2, <2>3
  <1> QED BY ONLY <1>6, <1>7

LEMMA LinkWithin ==
    ASSUME NEW h, TableOK(h), h.size # 0, NEW k \in Int, k \notin KeysIn(h)
    PROVE  Within(h, Link(h, k), {k})
  <1>1. Link(h, k).size = h.size
    BY LinkGrows
  <1>2. \A b \in 0..(h.size - 1) : ToSet(Link(h, k).table[b]) = IF b = k % h.size THEN ToSet(h.table[b]) \cup {k} ELSE ToSet(h.table[b])
    BY LinkGrows
  <1> QED BY ONLY <1>1, <1>2 DEF Within, In

LEMMA AddKeeps ==
    ASSUME NEW d0, NEW K, DictOK(d0, K), NEW k \in Int, NEW e, e = dictAdd(d0, k)
    PROVE  DictOK(e, K \cup {k}) /\ (Iterators => Extended(d0, e, {k} \ K))
  <1>1. PICK d1 : d1 = dictRehashStep(d0)
    OBVIOUS
  <1>2. DictOK(d1, K) /\ (Iterators => d1 = d0)
    BY <1>1, RehashStepKeeps
  <1>3. PICK d : d = dictExpandIfNeeded(d1)
    OBVIOUS
  <1>4. DictOK(d, K) /\ Extended(d1, d, {}) /\ d.ht[1].size # 0
    BY <1>2, <1>3, ExpandIfNeededKeeps
  <1>5. PICK h, g, i : Shaped(d, h, g, i) /\ Whole(h, g, i, K)
    BY <1>4 DEF DictOK
  <1>6. /\ d.ht[1] = h /\ d.ht[2] = g /\ (IsRehashing(d) <=> i # -1)
        /\ \A n : Shaped([d EXCEPT !.ht[1] = n], n, g, i) /\ Shaped([d EXCEPT !.ht[2] = n], h, n, i)
    BY <1>5, ShapedParts
  <1>7. h.size # 0 /\ TableOK(h)
    BY <1>4, <1>5, <1>6 DEF Whole, Halfway
  <1>8. Has(d, k) <=> k \in K
    BY <1>5, <1>7, HasIffThere
  <1>9. DictOK(e, K \cup {k}) /\ Extended(d, e, {k} \ K)
    <2>1. CASE k \in K
      <3>1. e = d
        BY <1>1, <1>3, <1>8, <2>1 DEF dictAdd
      <3>2. K \cup {k} = K
        BY <2>1
      <3> QED BY <1>4, <3>1, <3>2, WithinSame DEF Extended
    <2>2. CASE k \notin K /\ i = -1
      <3>1. e = [d EXCEPT !.ht[1] = Link(h, k)]
        BY <1>1, <1>3, <1>6, <1>8, <2>2 DEF dictAdd
      <3>2. PICK n : n = Link(h, k)
        OBVIOUS
      <3>3. Shaped(e, n, g, i)
        BY <1>6, <3>1, <3>2
      <3>4. K = KeysIn(h) /\ g = NoTable
        BY <1>5, <2>2 DEF Whole, Halfway
      <3>5. TableOK(n) /\ KeysIn(n) = KeysIn(h) \cup {k}
        BY <1>7, <2>2, <3>2, <3>4, LinkGrows
      <3>6. Whole(n, g, i, K \cup {k})
        BY <2>2, <3>4, <3>5 DEF Whole
      <3>7. e.ht[1] = n /\ e.ht[2] = g
        BY <3>3, ShapedParts
      <3>8. Within(h, n, {k})
        BY <1>7, <2>2, <3>2, <3>4, LinkWithin
      <3>9. {k} \ K = {k}
        BY <2>2
      <3>10. DictOK(e, K \cup {k})
        BY <3>3, <3>6 DEF DictOK
      <3> QED BY <1>6, <2>2, <3>7, <3>8, <3>9, <3>10, WithinSame DEF Extended
    <2>3. CASE k \notin K /\ i # -1
      <3>1. e = [d EXCEPT !.ht[2] = Link(g, k)]
        BY <1>1, <1>3, <1>6, <1>8, <2>3 DEF dictAdd
      <3>2. PICK n : n = Link(g, k)
        OBVIOUS
      <3>3. Shaped(e, h, n, i)
        BY <1>6, <3>1, <3>2
      <3>4. Halfway(h, g, i, K) /\ i < h.size
        BY <1>5, <2>3 DEF Whole
      <3>5. TableOK(g) /\ g.size # 0 /\ k \notin KeysIn(g) /\ k \notin KeysIn(h) /\ K = KeysIn(h) \cup KeysIn(g) /\ KeysIn(h) \cap KeysIn(g) = {}
        BY <2>3, <3>4 DEF Halfway
      <3>6. TableOK(n) /\ KeysIn(n) = KeysIn(g) \cup {k} /\ n.size = g.size
        BY <3>2, <3>5, LinkGrows
      <3>7. KeysIn(h) \cap KeysIn(n) = {} /\ K \cup {k} = KeysIn(h) \cup KeysIn(n)
        BY <3>5, <3>6
      <3>8. Halfway(h, n, i, K \cup {k})
        BY <3>4, <3>5, <3>6, <3>7 DEF Halfway
      <3>9. e.ht[1] = h /\ e.ht[2] = n /\ IsRehashing(e)
        BY <2>3, <3>3, ShapedParts
      <3>10. Within(g, n, {k})
        BY <3>2, <3>5, LinkWithin
      <3>11. {k} \ K = {k}
        BY <2>3
      <3>12. DictOK(e, K \cup {k})
        BY <3>3, <3>4, <3>8 DEF DictOK, Whole
      <3> QED BY <1>6, <3>9, <3>10, <3>11, <3>12, WithinSame DEF Extended
    <2> QED BY <2>1, <2>2, <2>3
  <1>10. Extended(d1, e, {k} \ K)
    BY <1>4, <1>9, ExtendedOnce
  <1> QED BY <1>2, <1>9, <1>10

\* Every bucket loses k, and nothing else.
Without(h, h2, k) == \A b \in Int : In(h2, b) = In(h, b) \ {k}
Reduced(d, d2, k) == Without(d.ht[1], d2.ht[1], k) /\ Without(d.ht[2], d2.ht[2], k) /\ (IsRehashing(d) <=> IsRehashing(d2))

LEMMA InKeys ==
    ASSUME NEW h, TableOK(h), NEW b PROVE In(h, b) \subseteq KeysIn(h)
  BY TableKeys DEF In

LEMMA WithoutSame ==
    ASSUME NEW h, TableOK(h), NEW k, k \notin KeysIn(h) PROVE Without(h, h, k)
  BY InKeys DEF Without

LEMMA DeleteKeeps ==
    ASSUME NEW d0, NEW K, DictOK(d0, K), NEW k \in Int, NEW e, e = dictGenericDelete(d0, k)
    PROVE  DictOK(e, K \ {k}) /\ (Iterators => Reduced(d0, e, k))
  <1>1. PICK d : d = dictRehashStep(d0)
    OBVIOUS
  <1>2. DictOK(d, K) /\ (Iterators => d = d0) /\ (d0.ht[1].size # 0 => d.ht[1].size # 0)
    BY <1>1, RehashStepKeeps
  <1>3. ASSUME NEW c, DictOK(c, K), k \notin K PROVE DictOK(c, K \ {k}) /\ Reduced(c, c, k)
    <2>1. K \ {k} = K
      BY <1>3
    <2>2. PICK h, g, i : Shaped(c, h, g, i) /\ Whole(h, g, i, K)
      BY <1>3 DEF DictOK
    <2>3. c.ht[1] = h /\ c.ht[2] = g
      BY <2>2, ShapedParts
    <2>4. TableOK(h) /\ TableOK(g) /\ k \notin KeysIn(h) /\ k \notin KeysIn(g)
      <3>1. TableOK(NoTable) /\ KeysIn(NoTable) = {}
        BY FreshOK DEF NoTable
      <3> QED BY <1>3, <2>2, <3>1 DEF Whole, Halfway
    <2> QED BY <1>3, <2>1, <2>3, <2>4, WithoutSame DEF Reduced
  <1>4. CASE d0.ht[1].size = 0
    <2>1. e = d0
      BY <1>4 DEF dictGenericDelete
    <2>2. PICK h, g, i : Shaped(d0, h, g, i) /\ Whole(h, g, i, K)
      BY DEF DictOK
    <2>3. d0.ht[1] = h
      BY <2>2, ShapedParts
    <2>4. i = -1 /\ TableOK(h) /\ K = KeysIn(h)
      <3>1. ~(Halfway(h, g, i, K) /\ i < h.size)
        BY <1>4, <2>3 DEF Halfway
      <3> QED BY <2>2, <3>1 DEF Whole
    <2>5. k \notin K
      BY <1>4, <2>3, <2>4, NoneUsed
    <2> QED BY <1>3, <2>1, <2>5
  <1>5. CASE d0.ht[1].size # 0
    <2>1. PICK h, g, i : Shaped(d, h, g, i) /\ Whole(h, g, i, K)
      BY <1>2 DEF DictOK
    <2>2. /\ d.ht[1] = h /\ d.ht[2] = g /\ (IsRehashing(d) <=> i # -1)
          /\ \A n : Shaped([d EXCEPT !.ht[1] = n], n, g, i) /\ Shaped([d EXCEPT !.ht[2] = n], h, n, i)
      BY <2>1, ShapedParts
    <2>3. h.size # 0 /\ TableOK(h)
      BY <1>2, <1>5, <2>1, <2>2 DEF Whole, Halfway
    <2>4. Has(d, k) <=> k \in K
      BY <2>1, <2>3, HasIffThere
    <2>5. CASE k \notin K
      <3>1. e = d
        BY <1>1, <1>5, <2>4, <2>5 DEF dictGenericDelete
      <3> QED BY <1>2, <1>3, <2>5, <3>1
    <2>6. CASE k \in K
      <3>1. PICK t : t = CHOOSE u \in Tables(d) : k \in ToSet(Chain(d, u, k))
        OBVIOUS
      <3>2. e = [d EXCEPT !.ht[t] = Unlink(d.ht[t], k)]
        BY <1>1, <1>5, <2>4, <2>6, <3>1 DEF dictGenericDelete
      <3>3. (t = 1 /\ k \in KeysIn(h)) \/ (t = 2 /\ i # -1 /\ k \in KeysIn(g))
        BY ONLY <2>1, <2>3, <2>4, <2>6, <3>1, k \in Int, HasIffThere
      <3>4. CASE t = 1 /\ k \in KeysIn(h)
        <4>1. PICK n : n = Unlink(h, k)
          OBVIOUS
        <4>2. Shaped(e, n, g, i)
          BY <2>2, <3>2, <3>4, <4>1
        <4>3. /\ TableOK(n) /\ KeysIn(n) = KeysIn(h) \ {k} /\ n.size = h.size
              /\ \A b \in 0..(h.size - 1) : ToSet(n.table[b]) = ToSet(h.table[b]) \ {k}
              /\ \A b \in 0..(h.size - 1) : h.table[b] = <<>> => n.table[b] = <<>>
          BY <2>3, <3>4, <4>1, UnlinkShrinks
        <4>4. Without(h, n, k)
          BY ONLY <4>3 DEF Without, In
        <4>5. e.ht[1] = n /\ e.ht[2] = g /\ (IsRehashing(e) <=> IsRehashing(d))
          BY <2>2, <4>2, ShapedParts
        <4>6. CASE i = -1
          <5>1. K = KeysIn(h) /\ g = NoTable
            BY <2>1, <4>6 DEF Whole, Halfway
          <5>2. Whole(n, g, i, K \ {k})
            BY <4>3, <4>6, <5>1 DEF Whole
          <5>3. TableOK(g) /\ k \notin KeysIn(g)
            BY <5>1, FreshOK DEF NoTable
          <5>4. DictOK(e, K \ {k})
            BY <4>2, <5>2 DEF DictOK
          <5>5. Reduced(d, e, k)
            BY <2>2, <4>4, <4>5, <5>3, WithoutSame DEF Reduced
          <5> QED BY <1>2, <5>4, <5>5
        <4>7. CASE i # -1
          <5>1. Halfway(h, g, i, K) /\ i < h.size
            BY <2>1, <4>7 DEF Whole
          <5>2. /\ TableOK(g) /\ KeysIn(h) \cap KeysIn(g) = {} /\ K = KeysIn(h) \cup KeysIn(g)
                /\ i \in Nat /\ g.size # 0 /\ \A b \in 0..(h.size - 1) : b < i => h.table[b] = <<>>
            BY <5>1 DEF Halfway
          <5>3. k \notin KeysIn(g)
            BY <3>4, <5>2
          <5>4. KeysIn(n) \cap KeysIn(g) = {} /\ K \ {k} = KeysIn(n) \cup KeysIn(g)
            BY ONLY <4>3, <5>2, <5>3
          <5>5. \A b \in 0..(n.size - 1) : b < i => n.table[b] = <<>>
            BY ONLY <4>3, <5>2
          <5>6. Whole(n, g, i, K \ {k})
            BY <4>3, <5>1, <5>2, <5>4, <5>5 DEF Whole, Halfway
          <5>7. DictOK(e, K \ {k})
            BY <4>2, <5>6 DEF DictOK
          <5>8. Reduced(d, e, k)
            BY <2>2, <4>4, <4>5, <5>2, <5>3, WithoutSame DEF Reduced
          <5> QED BY <1>2, <5>7, <5>8
        <4> QED BY <4>6, <4>7
      <3>5. CASE t = 2 /\ i # -1 /\ k \in KeysIn(g)
        <4>1. PICK n : n = Unlink(g, k)
          OBVIOUS
        <4>2. Shaped(e, h, n, i)
          BY <2>2, <3>2, <3>5, <4>1
        <4>3. Halfway(h, g, i, K) /\ i < h.size
          BY <2>1, <3>5 DEF Whole
        <4>4. TableOK(g) /\ KeysIn(h) \cap KeysIn(g) = {} /\ K = KeysIn(h) \cup KeysIn(g) /\ g.size # 0
          BY <4>3 DEF Halfway
        <4>5. /\ TableOK(n) /\ KeysIn(n) = KeysIn(g) \ {k} /\ n.size = g.size
              /\ \A b \in 0..(g.size - 1) : ToSet(n.table[b]) = ToSet(g.table[b]) \ {k}
          BY <3>5, <4>1, <4>4, UnlinkShrinks
        <4>6. Without(g, n, k)
          BY ONLY <4>5 DEF Without, In
        <4>7. e.ht[1] = h /\ e.ht[2] = n /\ (IsRehashing(e) <=> IsRehashing(d))
          BY <2>2, <4>2, ShapedParts
        <4>8. k \notin KeysIn(h)
          BY <3>5, <4>4
        <4>9. KeysIn(h) \cap KeysIn(n) = {} /\ K \ {k} = KeysIn(h) \cup KeysIn(n)
          BY ONLY <4>4, <4>5, <4>8
        <4>10. Whole(h, n, i, K \ {k})
          BY <4>3, <4>4, <4>5, <4>9 DEF Whole, Halfway
        <4>11. DictOK(e, K \ {k})
          BY <4>2, <4>10 DEF DictOK
        <4>12. Reduced(d, e, k)
          BY <2>2, <2>3, <4>6, <4>7, <4>8, WithoutSame DEF Reduced
        <4> QED BY <1>2, <4>11, <4>12
      <3> QED BY <3>3, <3>4, <3>5
    <2> QED BY <2>5, <2>6
  <1> QED BY <1>4, <1>5

---------------------------------------------------------------------------
(* Dictionaries: the safe iterator.                                        *)

\* The keys in the buckets that come after the bucket j of the table t, and those that
\* an iterator r has ahead of it.
Beyond(d, t, j, x) ==
  \/ \E b \in Int : b > j /\ x \in In(d.ht[t], b)
  \/ t = 1 /\ \E b \in Int : x \in In(d.ht[2], b)
Ahead(d, r, x) == x \in ToSet(r.next) \/ Beyond(d, r.table, r.index, x)

IterRecord ==
  [on : {TRUE}, table : {1, 2}, index : Int, entry : Seq(Int), next : Seq(Int), left : SUBSET Int, returned : SUBSET Int, twice : {FALSE}]

IterOK(d, r) ==
  /\ r \in IterRecord /\ r.index >= -1
  /\ IsInjective(r.next) /\ ToSet(r.next) \subseteq In(d.ht[r.table], r.index)
  /\ r.entry = <<>> => r.next = <<>>
  /\ r.index = -1 => r.table = 1 /\ r.entry = <<>> /\ r.returned = {}
  /\ \A k : r.entry = <<k>> => k \notin ToSet(r.next)
  /\ \A x \in r.left : Ahead(d, r, x)
  /\ \A x \in r.returned : ~Ahead(d, r, x) /\ x \in ToKeys(d)

LEMMA KeysOK ==
    ASSUME NEW d, NEW K, DictOK(d, K)
    PROVE  /\ K = ToKeys(d) /\ d = [ht |-> d.ht, rehashidx |-> d.rehashidx]
           /\ TableOK(d.ht[1]) /\ TableOK(d.ht[2]) /\ KeysIn(d.ht[1]) \cap KeysIn(d.ht[2]) = {}
           /\ IsRehashing(d) \/ \A b \in Int : In(d.ht[2], b) = {}
  <1>1. PICK h, g, i : Shaped(d, h, g, i) /\ Whole(h, g, i, K)
    BY DEF DictOK
  <1>2. d.ht[1] = h /\ d.ht[2] = g /\ d.rehashidx = i /\ ToKeys(d) = KeysIn(h) \cup KeysIn(g) /\ (IsRehashing(d) <=> i # -1)
    BY <1>1, ShapedParts
  <1>3. d = [ht |-> d.ht, rehashidx |-> d.rehashidx]
    BY <1>1 DEF Shaped
  <1>4. CASE Halfway(h, g, i, K)
    BY <1>2, <1>3, <1>4 DEF Halfway
  <1>5. CASE TableOK(h) /\ K = KeysIn(h) /\ i = -1 /\ g = NoTable
    <2>1. TableOK(g) /\ KeysIn(g) = {} /\ g.size = 0
      BY <1>5, FreshOK DEF NoTable
    <2>2. \A b \in Int : In(g, b) = {}
      BY <2>1, InNothing
    <2> QED BY <1>2, <1>3, <1>5, <2>1, <2>2
  <1> QED BY <1>1, <1>4, <1>5 DEF Whole

\* A key is in one bucket only.
LEMMA NotBeyond ==
    ASSUME NEW d, NEW K, DictOK(d, K), NEW t \in {1, 2}, NEW j \in Int, NEW x \in In(d.ht[t], j)
    PROVE  ~Beyond(d, t, j, x) /\ x \in ToKeys(d)
  <1>1. TableOK(d.ht[t]) /\ TableOK(d.ht[1]) /\ TableOK(d.ht[2]) /\ KeysIn(d.ht[1]) \cap KeysIn(d.ht[2]) = {}
    BY KeysOK
  <1>2. x % d.ht[t].size = j
    BY <1>1 DEF In, TableOK
  <1>3. ASSUME NEW b \in Int, x \in In(d.ht[t], b) PROVE b = j
    BY <1>1, <1>2, <1>3 DEF In, TableOK
  <1>4. x \in KeysIn(d.ht[t])
    BY <1>1, InKeys
  <1>5. ASSUME t = 1, NEW b \in Int, x \in In(d.ht[2], b) PROVE FALSE
    <2>1. x \in KeysIn(d.ht[2])
      BY <1>1, <1>5, InKeys
    <2> QED BY <1>1, <1>4, <1>5, <2>1
  <1>6. x \in ToKeys(d)
    BY <1>4 DEF ToKeys
  <1> QED BY <1>3, <1>5, <1>6 DEF Beyond

LEMMA FirstFilled ==
    ASSUME NEW h, TableOK(h), NEW from \in Nat, NEW S, S = {i \in from..(h.size - 1) : h.table[i] # <<>>}
    PROVE  /\ S = {} => \A b \in Int : b >= from => In(h, b) = {}
           /\ S # {} => Min(S) \in S /\ \A b \in Int : b >= from /\ b < Min(S) => In(h, b) = {}
  <1>1. h.size \in Nat
    BY DEF TableOK
  <1>2. ASSUME NEW b \in Int, b >= from, b \notin S PROVE In(h, b) = {}
    <2>1. b \in 0..(h.size - 1) => h.table[b] = <<>>
      BY <1>1, <1>2
    <2>2. ToSet(<<>>) = {}
      BY DEF ToSet
    <2> QED BY <2>1, <2>2 DEF In
  <1>3. S \in SUBSET Nat
    BY <1>1
  <1>4. ASSUME S # {} PROVE Min(S) \in S /\ \A y \in S : Min(S) <= y
    <2>1. PICK m \in S : \A y \in S : m <= y
      BY <1>3, <1>4, LeastNatural
    <2> QED BY <2>1 DEF Min
  <1>5. ASSUME S # {}, NEW b \in Int, b >= from, b < Min(S) PROVE In(h, b) = {}
    <2>1. Min(S) \in Nat /\ (b \in S => Min(S) <= b)
      BY <1>3, <1>4, <1>5
    <2>2. b \notin S
      BY <1>5, <2>1
    <2> QED BY <1>2, <1>5, <2>2
  <1> QED BY ONLY <1>2, <1>4, <1>5

\* The bucket u, m is the first one beyond t, j that has a chain, c.
FirstBeyond(d, t, j, u, m, c) ==
  /\ u \in {1, 2} /\ m \in Nat /\ m < d.ht[u].size /\ c = d.ht[u].table[m] /\ c # <<>>
  /\ \A x : Beyond(d, t, j, x) <=> x \in ToSet(c) \/ Beyond(d, u, m, x)

LEMMA NextBucketFirst ==
    ASSUME NEW K, DictOK(Current, K), NEW t \in {1, 2}, NEW j \in Int, j >= -1
    PROVE  \/ NextBucket(t, j + 1) = <<>> /\ \A x : ~Beyond(Current, t, j, x)
           \/ \E u, m, c : NextBucket(t, j + 1) = <<u, m, c>> /\ FirstBeyond(Current, t, j, u, m, c)
  <1> DEFINE F(u, from) == {i \in from..(ht[u].size - 1) : ht[u].table[i] # <<>>}
  <1>1. Current.ht = ht
    BY DEF Current
  <1>2. TableOK(ht[t]) /\ TableOK(ht[2]) /\ (IsRehashing(Current) \/ \A b \in Int : In(ht[2], b) = {})
    BY <1>1, KeysOK
  <1>3. j + 1 \in Nat
    OBVIOUS
  <1>4. CASE F(t, j + 1) # {}
    <2> DEFINE m == Min(F(t, j + 1))
    <2>1. m \in F(t, j + 1) /\ \A b \in Int : b >= j + 1 /\ b < m => In(ht[t], b) = {}
      BY ONLY <1>2, <1>3, <1>4, FirstFilled
    <2>2. NextBucket(t, j + 1) = <<t, m, ht[t].table[m]>>
      BY <1>4 DEF NextBucket
    <2>3. m \in Nat /\ m < ht[t].size /\ ht[t].table[m] # <<>> /\ m > j
      BY <1>2, <2>1 DEF TableOK
    <2> HIDE DEF m
    <2>4. In(ht[t], m) = ToSet(ht[t].table[m])
      BY <1>2, <2>3 DEF In, TableOK
    <2>5. \A b \in Int : b > j => b = m \/ b > m \/ In(ht[t], b) = {}
      BY <2>1, <2>3
    <2>6. \A x : Beyond(Current, t, j, x) <=> x \in ToSet(ht[t].table[m]) \/ Beyond(Current, t, m, x)
      BY <1>1, <2>3, <2>4, <2>5 DEF Beyond
    <2> QED BY <1>1, <2>2, <2>3, <2>6 DEF FirstBeyond
  <1>5. CASE F(t, j + 1) = {}
    <2>1. \A b \in Int : b > j => In(ht[t], b) = {}
      <3>1. \A b \in Int : b >= j + 1 => In(ht[t], b) = {}
        BY ONLY <1>2, <1>3, <1>5, FirstFilled
      <3> QED BY <3>1
    <2>2. CASE IsRehashing(Current) /\ t = 1 /\ F(2, 0) # {}
      <3> DEFINE m == Min(F(2, 0))
      <3>1. m \in F(2, 0) /\ \A b \in Int : b >= 0 /\ b < m => In(ht[2], b) = {}
        <4>1. 0 \in Nat /\ F(2, 0) # {}
          BY <2>2
        <4> QED BY ONLY <1>2, <4>1, FirstFilled
      <3>2. NextBucket(t, j + 1) = <<2, m, ht[2].table[m]>>
        BY <1>5, <2>2 DEF NextBucket
      <3>3. m \in Nat /\ m < ht[2].size /\ ht[2].table[m] # <<>>
        BY <1>2, <3>1 DEF TableOK
      <3> HIDE DEF m
      <3>4. In(ht[2], m) = ToSet(ht[2].table[m])
        BY <1>2, <3>3 DEF In, TableOK
      <3>5. \A b \in Int : b = m \/ b > m \/ In(ht[2], b) = {}
        <4>1. \A b \in Int : b < 0 => In(ht[2], b) = {}
          BY DEF In
        <4> QED BY <3>1, <3>3, <4>1
      <3>6. \A x : Beyond(Current, t, j, x) <=> x \in ToSet(ht[2].table[m]) \/ Beyond(Current, 2, m, x)
        BY <1>1, <2>1, <2>2, <3>3, <3>4, <3>5 DEF Beyond
      <3> QED BY <1>1, <3>2, <3>3, <3>6 DEF FirstBeyond
    <2>3. CASE ~(IsRehashing(Current) /\ t = 1 /\ F(2, 0) # {})
      <3>1. NextBucket(t, j + 1) = <<>>
        BY <1>5, <2>3 DEF NextBucket
      <3>2. t = 1 => \A b \in Int : In(ht[2], b) = {}
        <4>1. CASE IsRehashing(Current) /\ t = 1
          <5>1. 0 \in Nat /\ F(2, 0) = {}
            BY <2>3, <4>1
          <5>2. \A b \in Int : b >= 0 => In(ht[2], b) = {}
            BY ONLY <1>2, <5>1, FirstFilled
          <5>3. \A b \in Int : b < 0 => In(ht[2], b) = {}
            BY DEF In
          <5> QED BY <5>2, <5>3
        <4> QED BY <1>2, <4>1
      <3> QED BY <1>1, <2>1, <3>1, <3>2 DEF Beyond
    <2> QED BY <2>2, <2>3
  <1> QED BY <1>4, <1>5

\* What dictNext makes of the iterator r when it returns the first entry of the chain c,
\* which is in the bucket m of the table u.
Moved(r, r2, u, m, c) ==
  /\ r2 \in IterRecord /\ r2.table = u /\ r2.index = m /\ r2.entry = <<Head(c)>> /\ r2.next = Tail(c)
  /\ r2.left = r.left \ {Head(c)} /\ r2.returned \subseteq r.returned \cup {Head(c)}

LEMMA ReturnMoves ==
    ASSUME iter \in IterRecord, NEW c \in Seq(Int), c # <<>>, Head(c) \notin iter.returned
    PROVE  /\ \A r2 : r2 = Return(c) => Moved(iter, r2, iter.table, iter.index, c)
           /\ \A r3, u, m : u \in {1, 2} /\ m \in Int /\ r3 = [Return(c) EXCEPT !.table = u, !.index = m] => Moved(iter, r3, u, m, c)
  <1>1. PICK v \in Int : v = Head(c)
    BY HeadRemoved
  <1>2. PICK w \in Seq(Int) : w = Tail(c)
    BY HeadRemoved
  <1>3. PICK z \in SUBSET Int : z = (IF v \in iter.left THEN iter.returned \cup {v} ELSE iter.returned) /\ z \subseteq iter.returned \cup {v}
    BY DEF IterRecord
  <1>4. PICK y \in {FALSE} : y = (iter.twice \/ v \in iter.returned)
    BY <1>1 DEF IterRecord
  <1>5. Return(c) = [iter EXCEPT !.entry = <<v>>, !.next = w, !.left = @ \ {v}, !.returned = z, !.twice = y]
    <2>1. Return(c) = [iter EXCEPT !.entry = <<v>>, !.next = w, !.left = @ \ {v},
                                   !.returned = IF v \in iter.left THEN @ \cup {v} ELSE @, !.twice = @ \/ v \in iter.returned]
      BY ONLY <1>1, <1>2, Zenon DEF Return
    <2> QED BY ONLY <1>3, <1>4, <2>1, Zenon
  <1>6. PICK r2 : r2 = Return(c)
    OBVIOUS
  <1>7. /\ r2 \in IterRecord /\ r2.table = iter.table /\ r2.index = iter.index /\ r2.entry = <<v>> /\ r2.next = w
        /\ r2.left = iter.left \ {v} /\ r2.returned = z
    <2>1. r2 = [iter EXCEPT !.entry = <<v>>, !.next = w, !.left = @ \ {v}, !.returned = z, !.twice = y]
      BY ONLY <1>5, <1>6
    <2>2. /\ r2.table = iter.table /\ r2.index = iter.index /\ r2.entry = <<v>> /\ r2.next = w
          /\ r2.left = iter.left \ {v} /\ r2.returned = z
      BY ONLY <2>1, iter \in IterRecord DEF IterRecord
    <2>3. r2 \in IterRecord
      <3>1. <<v>> \in Seq(Int)
        OBVIOUS
      <3>2. PICK l \in SUBSET Int : l = iter.left \ {v}
        BY DEF IterRecord
      <3>3. r2 = [iter EXCEPT !.entry = <<v>>, !.next = w, !.left = l, !.returned = z, !.twice = y]
        BY ONLY <2>1, <3>2, Zenon
      <3> QED BY ONLY <3>1, <3>3, iter \in IterRecord, v \in Int, w \in Seq(Int), l \in SUBSET Int, z \in SUBSET Int, y \in {FALSE} DEF IterRecord
    <2> QED BY ONLY <2>2, <2>3
  <1>8. ASSUME NEW r3, NEW u \in {1, 2}, NEW m \in Int, r3 = [r2 EXCEPT !.table = u, !.index = m]
        PROVE  /\ r3 \in IterRecord /\ r3.table = u /\ r3.index = m /\ r3.entry = <<v>> /\ r3.next = w
               /\ r3.left = iter.left \ {v} /\ r3.returned = z
    BY <1>7, <1>8 DEF IterRecord
  <1>9. Moved(iter, r2, iter.table, iter.index, c)
    BY ONLY <1>1, <1>2, <1>3, <1>7 DEF Moved
  <1>10. ASSUME NEW r3, NEW u \in {1, 2}, NEW m \in Int, r3 = [r2 EXCEPT !.table = u, !.index = m]
         PROVE  Moved(iter, r3, u, m, c)
    <2>1. /\ r3 \in IterRecord /\ r3.table = u /\ r3.index = m /\ r3.entry = <<v>> /\ r3.next = w
          /\ r3.left = iter.left \ {v} /\ r3.returned = z
      BY <1>8, <1>10
    <2> QED BY ONLY <1>1, <1>2, <1>3, <2>1 DEF Moved
  <1> QED BY ONLY <1>6, <1>9, <1>10

LEMMA MovedKeeps ==
    ASSUME NEW d, NEW K, DictOK(d, K), NEW r, IterOK(d, r), NEW u \in {1, 2}, NEW m \in Nat, NEW c \in Seq(Int), c # <<>>,
           IsInjective(c), ToSet(c) \subseteq In(d.ht[u], m), \A x : Ahead(d, r, x) <=> x \in ToSet(c) \/ Beyond(d, u, m, x)
    PROVE  Head(c) \notin r.returned /\ \A r2 : Moved(r, r2, u, m, c) => IterOK(d, r2)
  <1> DEFINE v == Head(c)
  <1>1. v \in Int /\ Tail(c) \in Seq(Int) /\ IsInjective(Tail(c)) /\ v \notin ToSet(Tail(c)) /\ v \in ToSet(c) /\ ToSet(Tail(c)) = ToSet(c) \ {v}
    BY HeadRemoved, RemovedOnce
  <1> HIDE DEF v
  <1>2. ~Beyond(d, u, m, v) /\ v \in ToKeys(d)
    <2>1. v \in In(d.ht[u], m) /\ m \in Int
      BY <1>1
    <2> QED BY <2>1, NotBeyond
  <1>3. Ahead(d, r, v)
    BY <1>1
  <1>4. v \notin r.returned
    BY <1>3 DEF IterOK, IterRecord
  <1>5. ASSUME NEW r2, Moved(r, r2, u, m, c) PROVE IterOK(d, r2)
    <2>1. /\ r2 \in IterRecord /\ r2.next = Tail(c) /\ r2.table = u /\ r2.index = m /\ r2.entry = <<v>>
          /\ r2.left = r.left \ {v} /\ r2.returned \subseteq r.returned \cup {v}
      BY <1>5 DEF Moved, v
    <2>2. \A x : Ahead(d, r2, x) <=> x # v /\ Ahead(d, r, x)
      BY <1>1, <1>2, <2>1 DEF Ahead
    <2>3. IsInjective(r2.next) /\ ToSet(r2.next) \subseteq In(d.ht[r2.table], r2.index) /\ r2.index >= -1 /\ r2.index # -1
      BY <1>1, <2>1
    <2>4. r2.entry # <<>> /\ \A k : r2.entry = <<k>> => k \notin ToSet(r2.next)
      BY <1>1, <2>1
    <2>5. \A x \in r2.left : Ahead(d, r2, x)
      BY <2>1, <2>2 DEF IterOK
    <2>6. \A x \in r2.returned : ~Ahead(d, r2, x) /\ x \in ToKeys(d)
      BY <1>2, <2>1, <2>2 DEF IterOK
    <2> QED BY <2>1, <2>3, <2>4, <2>5, <2>6 DEF IterOK
  <1> QED BY <1>4, <1>5 DEF v

LEMMA KeyIsSomewhere ==
    ASSUME NEW d, NEW K, DictOK(d, K), NEW x \in K
    PROVE  x \in Int /\ \E t \in {1, 2} : \E b \in Int : b > -1 /\ x \in In(d.ht[t], b)
  <1>1. PICK t \in {1, 2} : x \in KeysIn(d.ht[t])
    BY KeysOK DEF ToKeys
  <1>2. TableOK(d.ht[t])
    BY KeysOK
  <1>3. PICK b \in 0..(d.ht[t].size - 1) : x \in ToSet(d.ht[t].table[b])
    BY <1>1, <1>2, TableKeys
  <1>4. d.ht[t].table[b] \in Seq(Int) /\ d.ht[t].size \in Nat
    BY <1>2, <1>3 DEF TableOK
  <1>5. x \in Int
    BY <1>3, <1>4 DEF ToSet
  <1> QED BY <1>3, <1>4, <1>5 DEF In

\* An iterator that did not begin has every key ahead of it, wherever a rehash moves it.
LEMMA UnstartedIterOK ==
    ASSUME NEW d, NEW K, DictOK(d, K), NEW e, NEW L, DictOK(e, L), K \subseteq L, NEW r, IterOK(d, r), r.index = -1
    PROVE  IterOK(e, r)
  <1>1. r \in IterRecord /\ r.table = 1 /\ r.entry = <<>> /\ r.next = <<>> /\ r.returned = {} /\ IsInjective(r.next)
    BY DEF IterOK
  <1>2. ToSet(r.next) = {} /\ (\A k : r.entry # <<k>>)
    BY <1>1 DEF ToSet
  <1>3. ASSUME NEW x \in r.left PROVE Ahead(e, r, x)
    <2>1. Beyond(d, 1, -1, x)
      BY <1>1, <1>2 DEF IterOK, Ahead
    <2>2. PICK t \in {1, 2}, b \in Int : x \in In(d.ht[t], b)
      BY <2>1 DEF Beyond
    <2>3. x \in K
      <3>1. TableOK(d.ht[t]) /\ K = ToKeys(d)
        BY KeysOK
      <3>2. x \in KeysIn(d.ht[t])
        BY <2>2, <3>1, InKeys
      <3> QED BY <3>1, <3>2 DEF ToKeys
    <2>4. \E u \in {1, 2} : \E c \in Int : c > -1 /\ x \in In(e.ht[u], c)
      BY <2>3, KeyIsSomewhere
    <2> QED BY <1>1, <2>4 DEF Ahead, Beyond
  <1> QED BY <1>1, <1>2, <1>3 DEF IterOK

LEMMA ExtendedIterOK ==
    ASSUME NEW d, NEW K, DictOK(d, K), NEW e, NEW k, DictOK(e, K \cup {k}), Extended(d, e, {k} \ K), NEW r, IterOK(d, r)
    PROVE  IterOK(e, r)
  <1>1. r.table \in {1, 2} /\ r.index \in Int
    BY DEF IterOK, IterRecord
  <1>2. Within(d.ht[1], e.ht[1], {k} \ K) /\ Within(d.ht[2], e.ht[2], {k} \ K)
    BY DEF Extended
  <1>3. K = ToKeys(d) /\ K \cup {k} = ToKeys(e)
    BY KeysOK
  <1>4. \A t \in {1, 2} : \A b \in Int : In(d.ht[t], b) \subseteq In(e.ht[t], b) /\ In(e.ht[t], b) \subseteq In(d.ht[t], b) \cup ({k} \ K)
    BY <1>2 DEF Within
  <1>5. \A x : Ahead(d, r, x) => Ahead(e, r, x)
    BY <1>1, <1>4 DEF Ahead, Beyond
  <1>6. \A x : Ahead(e, r, x) => Ahead(d, r, x) \/ x \notin K
    BY <1>1, <1>4 DEF Ahead, Beyond
  <1>7. ToSet(r.next) \subseteq In(e.ht[r.table], r.index)
    BY <1>1, <1>4 DEF IterOK
  <1> QED BY <1>3, <1>5, <1>6, <1>7 DEF IterOK

\* The entry the iterator is at is deleted.
Forgets(r, r2, k) ==
  /\ r2 \in IterRecord /\ r2.next = r.next /\ r2.table = r.table /\ r2.index = r.index /\ r2.entry = r.entry
  /\ r2.left = r.left \ {k} /\ r2.returned = r.returned \ {k}

LEMMA DeletedForgets ==
    ASSUME NEW r \in IterRecord, NEW k
    PROVE  Forgets(r, [[r EXCEPT !.left = @ \ {k}] EXCEPT !.returned = @ \ {k}], k)
  <1>1. PICK r2 : r2 = [[r EXCEPT !.left = @ \ {k}] EXCEPT !.returned = @ \ {k}]
    OBVIOUS
  <1>2. Forgets(r, r2, k)
    BY <1>1 DEF IterRecord, Forgets
  <1> QED BY <1>1, <1>2

LEMMA ReducedIterOK ==
    ASSUME NEW d, NEW K, DictOK(d, K), NEW e, NEW k, DictOK(e, K \ {k}), Reduced(d, e, k), NEW r, IterOK(d, r), r.entry = <<k>>,
           NEW r2, Forgets(r, r2, k)
    PROVE  IterOK(e, r2)
  <1>1. r \in IterRecord /\ r.table \in {1, 2} /\ r.index \in Int /\ k \notin ToSet(r.next)
    BY DEF IterOK, IterRecord
  <1>2. /\ r2 \in IterRecord /\ r2.next = r.next /\ r2.table = r.table /\ r2.index = r.index /\ r2.entry = r.entry
        /\ r2.left = r.left \ {k} /\ r2.returned = r.returned \ {k}
    BY DEF Forgets
  <1>3. K = ToKeys(d) /\ K \ {k} = ToKeys(e)
    BY KeysOK
  <1>4. \A t \in {1, 2} : \A b \in Int : In(e.ht[t], b) = In(d.ht[t], b) \ {k}
    BY DEF Reduced, Without
  <1>5. \A x : x # k => (Ahead(d, r, x) <=> Ahead(e, r2, x))
    BY <1>1, <1>2, <1>4 DEF Ahead, Beyond
  <1>6. ToSet(r2.next) \subseteq In(e.ht[r2.table], r2.index)
    BY <1>1, <1>2, <1>4 DEF IterOK
  <1> QED BY <1>1, <1>2, <1>3, <1>5, <1>6 DEF IterOK

---------------------------------------------------------------------------
(* Dictionaries: the invariant.                                            *)

DInv == DictOK(Current, ToKeys(Current)) /\ (iter.on => IterOK(Current, iter))

LEMMA SetOK ==
    ASSUME NEW e, NEW K, DictOK(e, K), Set(e)
    PROVE  Current' = e /\ DictOK(Current', ToKeys(Current'))
  <1>1. K = ToKeys(e) /\ e = [ht |-> e.ht, rehashidx |-> e.rehashidx]
    BY KeysOK
  <1>2. Current' = e
    BY <1>1 DEF Set, Current
  <1> QED BY <1>1, <1>2

LEMMA DInitInv == DInit => DInv
  <1> SUFFICES ASSUME DInit PROVE DInv
    OBVIOUS
  <1>1. Shaped(Current, NoTable, NoTable, -1) /\ ~iter.on
    BY DEF DInit, dictCreate, Current, Shaped, NoIterator
  <1>2. TableOK(NoTable)
    BY FreshOK DEF NoTable
  <1>3. DictOK(Current, KeysIn(NoTable))
    BY <1>1, <1>2 DEF DictOK, Whole
  <1> QED BY <1>1, <1>3, KeysOK DEF DInv

LEMMA DNextKeeps == DInv /\ DNext => DInv'
  <1> SUFFICES ASSUME DInv, DNext PROVE DInv'
    OBVIOUS
  <1> DEFINE K == ToKeys(Current)
  <1>0. DictOK(Current, K) /\ (iter.on => IterOK(Current, iter))
    BY DEF DInv
  <1>1. ASSUME NEW k \in Keys, Add(k) PROVE DInv'
    <2>1. k \in Int
      BY KeysAssumption
    <2> DEFINE e == dictAdd(Current, k)
    <2>2. DictOK(e, K \cup {k}) /\ (Iterators => Extended(Current, e, {k} \ K))
      BY <1>0, <2>1, AddKeeps
    <2> HIDE DEF e, K
    <2>3. Set(e) /\ iter' = iter
      BY <1>1 DEF Add, e
    <2>4. Current' = e /\ DictOK(Current', ToKeys(Current'))
      BY <2>2, <2>3, SetOK
    <2>5. iter.on => IterOK(e, iter)
      <3>1. CASE iter.on /\ Iterators
        BY <1>0, <2>2, <3>1, ExtendedIterOK
      <3>2. CASE iter.on /\ ~Iterators
        <4>1. iter.index = -1 /\ K \subseteq K \cup {k}
          BY <3>2 DEF Iterators
        <4> QED BY <1>0, <2>2, <3>2, <4>1, UnstartedIterOK
      <3> QED BY <3>1, <3>2
    <2> QED BY <2>3, <2>4, <2>5 DEF DInv
  <1>2. ASSUME NEW k \in Keys, Delete(k) PROVE DInv'
    <2>1. k \in Int
      BY KeysAssumption
    <2> DEFINE e == dictGenericDelete(Current, k)
    <2>2. DictOK(e, K \ {k}) /\ (Iterators => Reduced(Current, e, k))
      BY <1>0, <2>1, DeleteKeeps
    <2> HIDE DEF e, K
    <2>3. Set(e) /\ (iter.on => iter.entry = <<k>>) /\ (~iter.on => iter' = iter)
      BY <1>2 DEF Delete, e
    <2>4. Current' = e /\ DictOK(Current', ToKeys(Current'))
      BY <2>2, <2>3, SetOK
    <2>5. CASE iter.on
      <3>1. iter' = [[iter EXCEPT !.left = @ \ {k}] EXCEPT !.returned = @ \ {k}]
        BY <1>2, <2>5 DEF Delete, Dropped
      <3>2. IterOK(Current, iter) /\ Reduced(Current, e, k) /\ iter.entry = <<k>>
        <4>1. IterOK(Current, iter) /\ iter.entry = <<k>> /\ iter.entry # <<>>
          BY <1>0, <2>3, <2>5
        <4>2. Iterators
          BY <2>5, <4>1 DEF Iterators, IterOK
        <4> QED BY <2>2, <4>1, <4>2
      <3>3. Forgets(iter, iter', k)
        BY <3>1, <3>2, DeletedForgets DEF IterOK
      <3>4. IterOK(e, iter')
        BY ONLY <1>0, <2>2, <3>2, <3>3, ReducedIterOK
      <3> QED BY <2>4, <3>4 DEF DInv
    <2> QED BY <2>3, <2>4, <2>5 DEF DInv
  <1>3. ASSUME NEW k \in Keys, Find(k) PROVE DInv'
    <2> DEFINE e == dictFind(Current, k)
    <2>1. DictOK(e, K) /\ (Iterators => e = Current)
      BY <1>0, RehashStepKeeps DEF dictFind
    <2> HIDE DEF e, K
    <2>2. Set(e) /\ iter' = iter
      BY <1>3 DEF Find, e
    <2>3. iter.on => IterOK(e, iter)
      <3>1. CASE iter.on /\ Iterators
        BY <1>0, <2>1, <3>1
      <3>2. CASE iter.on /\ ~Iterators
        <4>1. iter.index = -1 /\ K \subseteq K
          BY <3>2 DEF Iterators
        <4> QED BY <1>0, <2>1, <3>2, <4>1, UnstartedIterOK
      <3> QED BY <3>1, <3>2
    <2>4. Current' = e /\ DictOK(Current', ToKeys(Current'))
      BY <2>1, <2>2, SetOK
    <2> QED BY <2>2, <2>3, <2>4 DEF DInv
  <1>4. CASE dictEmpty
    <2>1. TableOK(NoTable)
      BY FreshOK DEF NoTable
    <2>2. DictOK(dictCreate, KeysIn(NoTable))
      BY <2>1 DEF DictOK, Whole, Shaped, dictCreate
    <2> QED BY <1>4, <2>2, SetOK DEF DInv, dictEmpty
  <1>5. CASE tryResizeHashTables
    <2> DEFINE size == IF Current.ht[1].used < DICT_HT_INITIAL_SIZE THEN DICT_HT_INITIAL_SIZE ELSE Current.ht[1].used
    <2>1. size \in Nat
      BY <1>0, KeysOK, LimitsAssumption DEF TableOK
    <2> DEFINE e == dictExpand(Current, size)
    <2>2. DictOK(e, K)
      BY <1>0, <2>1, ExpandKeeps
    <2> HIDE DEF K
    <2>3. Set(e) /\ iter' = iter /\ ~iter.on
      BY <1>5 DEF tryResizeHashTables, dictResize
    <2> HIDE DEF e
    <2> QED BY <2>2, <2>3, SetOK DEF DInv
  <1>6. CASE incrementallyRehash
    <2>1. DictOK(dictRehash(Current, 100), K)
      BY <1>0, RehashKeeps
    <2> HIDE DEF K
    <2> QED BY <1>6, <2>1, SetOK DEF DInv, incrementallyRehash
  <1>7. CASE updateDictResizePolicy
    BY <1>0, <1>7 DEF DInv, updateDictResizePolicy, Current
  <1>8. CASE dictGetSafeIterator
    <2>1. Current' = Current
      BY <1>8 DEF dictGetSafeIterator, Current
    <2>2. iter' = [on |-> TRUE, table |-> 1, index |-> -1, entry |-> <<>>, next |-> <<>>, left |-> K, returned |-> {}, twice |-> FALSE]
      BY <1>8 DEF dictGetSafeIterator
    <2>3. ASSUME NEW x \in K PROVE x \in Int /\ \E t \in {1, 2} : \E b \in Int : b > -1 /\ x \in In(Current.ht[t], b)
      BY <1>0, <2>3, KeyIsSomewhere
    <2> HIDE DEF K
    <2>4. ToSet(<<>>) = {} /\ IsInjective(<<>>)
      BY DEF ToSet, IsInjective
    <2>5. iter' \in IterRecord
      BY <2>2, <2>3 DEF IterRecord
    <2>6. \A x \in iter'.left : Ahead(Current, iter', x)
      BY <2>2, <2>3 DEF Ahead, Beyond
    <2>7. IterOK(Current, iter')
      <3>1. IsInjective(iter'.next) /\ ToSet(iter'.next) = {} /\ iter'.index = -1 /\ iter'.entry = <<>> /\ iter'.next = <<>> /\ iter'.returned = {} /\ iter'.table = 1
        BY <2>2, <2>4
      <3>2. \A k : iter'.entry # <<k>>
        BY <3>1
      <3> QED BY <2>5, <2>6, <3>1, <3>2 DEF IterOK
    <2> QED BY <1>0, <2>1, <2>7 DEF DInv, K
  <1>9. CASE dictNext
    <2> HIDE DEF K
    <2>1. Current' = Current /\ iter.on
      BY <1>9 DEF dictNext, Current
    <2>2. IterOK(Current, iter) /\ iter \in IterRecord
      BY <1>0, <2>1 DEF IterOK
    <2>3. iter.table \in {1, 2} /\ iter.index \in Nat \cup {-1} /\ iter.next \in Seq(Int)
      BY <2>2 DEF IterOK, IterRecord
    <2>4. CASE iter.entry # <<>> /\ iter.next # <<>>
      <3>1. iter' = Return(iter.next)
        BY <1>9, <2>4 DEF dictNext
      <3>2. iter.index \in Nat
        BY <2>2, <2>3, <2>4 DEF IterOK
      <3>3. \A x : Ahead(Current, iter, x) <=> x \in ToSet(iter.next) \/ Beyond(Current, iter.table, iter.index, x)
        BY DEF Ahead
      <3>4. IsInjective(iter.next) /\ ToSet(iter.next) \subseteq In(Current.ht[iter.table], iter.index)
        BY <2>2 DEF IterOK
      <3>5. /\ Head(iter.next) \notin iter.returned
            /\ \A r2 : Moved(iter, r2, iter.table, iter.index, iter.next) => IterOK(Current, r2)
        BY ONLY <1>0, <2>2, <2>3, <2>4, <3>2, <3>3, <3>4, MovedKeeps
      <3>6. Moved(iter, iter', iter.table, iter.index, iter.next)
        BY ONLY <2>2, <2>3, <2>4, <3>1, <3>5, ReturnMoves
      <3> QED BY <1>0, <2>1, <3>5, <3>6 DEF DInv, K
    <2>5. CASE ~(iter.entry # <<>> /\ iter.next # <<>>)
      <3> DEFINE at == NextBucket(iter.table, iter.index + 1)
      <3>1. iter.next = <<>> /\ \A x : Ahead(Current, iter, x) <=> Beyond(Current, iter.table, iter.index, x)
        <4>1. iter.next = <<>> /\ ToSet(<<>>) = {}
          BY <2>2, <2>5 DEF IterOK, ToSet
        <4> QED BY <4>1 DEF Ahead
      <3>2. iter' = IF at = <<>> THEN NoIterator ELSE [Return(at[3]) EXCEPT !.table = at[1], !.index = at[2]]
        BY <1>9, <2>5 DEF dictNext
      <3>3. \/ at = <<>>
            \/ \E u, m, c : at = <<u, m, c>> /\ FirstBeyond(Current, iter.table, iter.index, u, m, c)
        <4>1. iter.index \in Int /\ iter.index >= -1
          BY <2>3
        <4> QED BY <1>0, <2>3, <4>1, NextBucketFirst
      <3> HIDE DEF at
      <3>4. CASE at = <<>>
        BY <1>0, <2>1, <3>2, <3>4 DEF DInv, NoIterator, K
      <3>5. CASE at # <<>>
        <4>1. PICK u, m, c : at = <<u, m, c>> /\ FirstBeyond(Current, iter.table, iter.index, u, m, c)
          BY <3>3, <3>5
        <4>2. iter' = [Return(c) EXCEPT !.table = u, !.index = m]
          BY <3>2, <3>5, <4>1
        <4>4. /\ u \in {1, 2} /\ m \in Nat /\ m < Current.ht[u].size /\ c = Current.ht[u].table[m] /\ c # <<>>
              /\ \A x : Ahead(Current, iter, x) <=> x \in ToSet(c) \/ Beyond(Current, u, m, x)
          BY <3>1, <4>1 DEF FirstBeyond
        <4>5. TableOK(Current.ht[u])
          BY <1>0, <4>4, KeysOK
        <4>6. c \in Seq(Int) /\ IsInjective(c) /\ ToSet(c) = In(Current.ht[u], m)
          BY <4>4, <4>5 DEF TableOK, In
        <4>7. Head(c) \notin iter.returned /\ \A r2 : Moved(iter, r2, u, m, c) => IterOK(Current, r2)
          BY <1>0, <2>2, <4>4, <4>6, MovedKeeps
        <4>8. Moved(iter, iter', u, m, c)
          <5>1. m \in Int
            BY <4>4
          <5> QED BY ONLY <2>2, <4>2, <4>4, <4>6, <4>7, <5>1, ReturnMoves
        <4> QED BY <1>0, <2>1, <4>7, <4>8 DEF DInv, K
      <3> QED BY <3>4, <3>5
    <2> QED BY <2>4, <2>5
  <1>10. CASE scanGenericCommand
    BY <1>0, <1>10 DEF DInv, scanGenericCommand, Current
  <1> QED BY <1>1, <1>2, <1>3, <1>4, <1>5, <1>6, <1>7, <1>8, <1>9, <1>10 DEF DNext

LEMMA DInvHolds == DSpec => []DInv
  <1>1. DInv /\ UNCHANGED dvars => DInv'
    BY DEF DInv, dvars, Current
  <1> QED BY <1>1, DInitInv, DNextKeeps, PTL DEF DSpec

---------------------------------------------------------------------------

\* dict.c, dictRehash, dictAddRaw, dictGenericDelete, _dictExpandIfNeeded, dictResize: in
\* every state of the dictionary every key is in one bucket, the one its hash names, in one
\* of the tables; the counters count the entries; the buckets below rehashidx are empty and
\* rehashidx is a bucket of the table that is moved.
THEOREM DictWellFormedHolds == DSpec => []DictWellFormed
  <1>1. DInv => DictWellFormed
    <2> SUFFICES ASSUME DInv PROVE DictWellFormed
      OBVIOUS
    <2>1. PICK h, g, i : Shaped(Current, h, g, i) /\ Whole(h, g, i, ToKeys(Current))
      BY DEF DInv, DictOK
    <2>2. ht[1] = h /\ ht[2] = g /\ rehashidx = i /\ (IsRehashing(Current) <=> i # -1)
      <3>1. Current.ht = ht /\ Current.rehashidx = rehashidx
        BY DEF Current
      <3> QED BY <2>1, <3>1, ShapedParts
    <2>3. TableOK(h) /\ TableOK(g) /\ KeysIn(h) \cap KeysIn(g) = {}
      <3>1. Current.ht = ht
        BY DEF Current
      <3> QED BY <2>2, <3>1, KeysOK DEF DInv
    <2>4. \A t \in 1..2 : TableOK(ht[t])
      BY <2>2, <2>3
    <2>5. \A t \in 1..2 : ht[t].used = Cardinality(KeysIn(ht[t]))
      BY <2>4 DEF TableOK
    <2>6. \A t \in 1..2 : \A b \in DOMAIN ht[t].table :
            IsInjective(ht[t].table[b]) /\ \A k \in ToSet(ht[t].table[b]) : k % ht[t].size = b
      <3> SUFFICES ASSUME NEW t \in 1..2, NEW b \in DOMAIN ht[t].table
                   PROVE  IsInjective(ht[t].table[b]) /\ \A k \in ToSet(ht[t].table[b]) : k % ht[t].size = b
        OBVIOUS
      <3>1. TableOK(ht[t]) /\ b \in 0..(ht[t].size - 1)
        BY <2>4, TableKeys
      <3> QED BY <3>1 DEF TableOK
    <2>7. IF IsRehashing(Current)
          THEN rehashidx < ht[1].size /\ ht[2].size > 0 /\ \A b \in 0..(rehashidx - 1) : ht[1].table[b] = <<>>
          ELSE ht[2] = NoTable
      <3>1. h.size \in Nat /\ g.size \in Nat
        BY <2>3 DEF TableOK
      <3>2. CASE Halfway(h, g, i, ToKeys(Current)) /\ i < h.size
        BY <2>2, <3>1, <3>2 DEF Halfway
      <3>3. CASE i = -1 /\ g = NoTable
        BY <2>2, <3>3
      <3> QED BY <2>1, <3>2, <3>3 DEF Whole
    <2> QED BY <2>2, <2>3, <2>5, <2>6, <2>7 DEF DictWellFormed
  <1> QED BY <1>1, DInvHolds, PTL

\* dict.c, dictNext: a safe iterator returns each key that was there from the beginning and
\* was not deleted once, and has returned all of them when it ends, while the table grows
\* under it and the entry it is at is deleted.
THEOREM IteratorExactHolds == DSpec => []IteratorExact
  <1>1. DInv => IteratorExact
    <2> SUFFICES ASSUME DInv, iter.on
                 PROVE  ~iter.twice /\ (iter.next = <<>> /\ NextBucket(iter.table, iter.index + 1) = <<>> => iter.left = {})
      BY DEF IteratorExact
    <2>1. IterOK(Current, iter) /\ DictOK(Current, ToKeys(Current))
      BY DEF DInv
    <2>2. iter.twice = FALSE /\ iter.table \in {1, 2} /\ iter.index \in Int /\ iter.index >= -1
      BY <2>1 DEF IterOK, IterRecord
    <2>3. ASSUME iter.next = <<>>, NextBucket(iter.table, iter.index + 1) = <<>> PROVE iter.left = {}
      <3>1. \A x : ~Beyond(Current, iter.table, iter.index, x)
        <4>1. \A u, m, c : <<u, m, c>> # <<>>
          OBVIOUS
        <4>2. \/ NextBucket(iter.table, iter.index + 1) = <<>> /\ \A x : ~Beyond(Current, iter.table, iter.index, x)
              \/ \E u, m, c : NextBucket(iter.table, iter.index + 1) = <<u, m, c>> /\ FirstBeyond(Current, iter.table, iter.index, u, m, c)
          BY ONLY <2>1, <2>2, NextBucketFirst
        <4> QED BY ONLY <2>3, <4>1, <4>2
      <3>2. ToSet(<<>>) = {}
        BY DEF ToSet
      <3>3. \A x : ~Ahead(Current, iter, x)
        BY <2>3, <3>1, <3>2 DEF Ahead
      <3> QED BY <2>1, <3>3 DEF IterOK
    <2> QED BY <2>2, <2>3
  <1> QED BY <1>1, DInvHolds, PTL
============================================================================
