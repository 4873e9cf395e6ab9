--------------------------- MODULE DownloadProofs ---------------------------
(***************************************************************************)
(* Proofs about Download, for any peers, numbers of chunks, sizes of       *)
(* batches, kills, restarts and stops.                                     *)
(*                                                                         *)
(* That the seeders are sorted is shown by induction on the number of them.*)
(*                                                                         *)
(* The inductive invariant has a part for each thread (which seeders it    *)
(* has tried, and that none of them was there all the time), for each      *)
(* download (what its seeders have answered) and for the originals that    *)
(* never went away.  Of the downloads from originals alone it also says    *)
(* which chunks are right.                                                 *)
(***************************************************************************)
EXTENDS Download, NaturalSets, FiniteSetTheorems, TLAPS

----------------------------------------------------------------------------
(* Least and greatest numbers, insertion into a sequence.                  *)

LEMMA MinIsLeast ==
  ASSUME NEW T, T \subseteq Nat, T # {}
  PROVE  Min(T) \in T /\ \A y \in T : Min(T) <= y
<1>1. \E x \in T : \A y \in T : x <= y
  BY Least
<1> QED
  BY <1>1 DEF Min

LEMMA MaxIsGreatest ==
  ASSUME NEW n \in Nat, NEW T, T \subseteq 0..n, T # {}
  PROVE  Max(T) \in T /\ \A y \in T : y <= Max(T)
<1> DEFINE B == {b \in Nat : \A y \in T : y <= b}
<1>1. n \in B
  OBVIOUS
<1>2. PICK x \in B : \A b \in B : x <= b
  BY <1>1, Least
<1>3. x \in T
  <2> SUFFICES ASSUME x \notin T PROVE FALSE
    OBVIOUS
  <2>1. \A y \in T : y < x
    BY <1>2
  <2>2. x - 1 \in Nat /\ \A y \in T : y <= x - 1
    <3>1. PICK z \in T : z \in Nat /\ z < x
      <4>1. PICK z : z \in T
        OBVIOUS
      <4> QED
        BY <4>1, <2>1
    <3>2. x \in Nat /\ x # 0
      BY <3>1
    <3>3. \A y \in T : y \in Nat /\ y < x
      BY <2>1
    <3> QED
      BY <3>2, <3>3
  <2>3. x - 1 \in B
    BY <2>2
  <2>4. x <= x - 1
    BY <2>3, <1>2
  <2> QED
    BY <2>4, <1>2
<1>4. \E z \in T : \A y \in T : z >= y
  BY <1>2, <1>3
<1>5. Max(T) \in T /\ \A y \in T : Max(T) >= y
  BY <1>4 DEF Max
<1> QED
  BY <1>5

LEMMA OneMore ==
  ASSUME NEW S, NEW a \in Seq(S), NEW x \in S
  PROVE  /\ a \o <<x>> \in Seq(S) /\ Len(a \o <<x>>) = Len(a) + 1
         /\ (a \o <<x>>)[Len(a) + 1] = x
         /\ \A j \in 1..Len(a) : (a \o <<x>>)[j] = a[j]
OBVIOUS

LEMMA Inserted ==
  ASSUME NEW S, NEW v \in Seq(S), NEW x \in S, NEW i \in 1..(Len(v) + 1)
  PROVE  /\ InsertAt(v, i, x) \in Seq(S)
         /\ Len(InsertAt(v, i, x)) = Len(v) + 1
         /\ InsertAt(v, i, x)[i] = x
         /\ \A j \in 1..(i - 1) : InsertAt(v, i, x)[j] = v[j]
         /\ \A j \in i..Len(v) : InsertAt(v, i, x)[j + 1] = v[j]
<1> DEFINE a == SubSeq(v, 1, i - 1)
           b == SubSeq(v, i, Len(v))
           ax == a \o <<x>>
<1>1. a \in Seq(S) /\ Len(a) = i - 1 /\ \A j \in 1..(i - 1) : a[j] = v[j]
  OBVIOUS
<1>2. b \in Seq(S) /\ Len(b) = (Len(v) - i) + 1 /\ \A j \in 1..Len(b) : b[j] = v[(i + j) - 1]
  OBVIOUS
<1> HIDE DEF a, b
<1>3. ax \in Seq(S) /\ Len(ax) = i /\ ax[i] = x /\ \A j \in 1..(i - 1) : ax[j] = a[j]
  <2>1. a \in Seq(S) /\ Len(a) = i - 1 /\ Len(v) \in Nat
    BY <1>1
  <2>2. ax \in Seq(S) /\ Len(ax) = Len(a) + 1 /\ ax[Len(a) + 1] = x
    BY <2>1, OneMore
  <2>3. \A j \in 1..Len(a) : ax[j] = a[j]
    BY <2>1, OneMore
  <2>4. (i - 1) + 1 = i /\ Len(a) + 1 = i
    BY <2>1
  <2> HIDE DEF ax
  <2> QED
    BY <2>1, <2>2, <2>3, <2>4
<1> HIDE DEF ax
<1>4. ax \o b \in Seq(S) /\ Len(ax \o b) = Len(v) + 1
  <2>1. ax \in Seq(S) /\ b \in Seq(S)
    BY <1>2, <1>3
  <2>2. ax \o b \in Seq(S) /\ Len(ax \o b) = Len(ax) + Len(b)
    BY <2>1
  <2>3. Len(ax) + Len(b) = Len(v) + 1
    <3>1. Len(ax) = i /\ Len(b) = (Len(v) - i) + 1 /\ Len(v) \in Nat
      BY <1>2, <1>3
    <3> QED
      BY <3>1
  <2> QED
    BY <2>2, <2>3
<1>5. \A j \in 1..i : (ax \o b)[j] = ax[j]
  BY <1>2, <1>3
<1>6. ASSUME NEW j \in i..Len(v) PROVE (ax \o b)[j + 1] = v[j]
  <2>1. (j + 1) - i \in 1..Len(b) /\ j + 1 = i + ((j + 1) - i) /\ (i + ((j + 1) - i)) - 1 = j
    BY <1>2
  <2>2. \A k \in 1..Len(b) : (ax \o b)[i + k] = b[k]
    <3>1. ax \in Seq(S) /\ b \in Seq(S) /\ Len(ax) = i
      BY <1>2, <1>3
    <3> QED
      BY <3>1
  <2> QED
    BY <2>1, <2>2, <1>2
<1>7. InsertAt(v, i, x) = ax \o b
  BY DEF InsertAt, ax, a, b
<1>8. i \in 1..i /\ \A j \in 1..(i - 1) : j \in 1..i
  OBVIOUS
<1>9. /\ ax \o b \in Seq(S) /\ Len(ax \o b) = Len(v) + 1 /\ (ax \o b)[i] = x
      /\ \A j \in 1..(i - 1) : (ax \o b)[j] = v[j]
      /\ \A j \in i..Len(v) : (ax \o b)[j + 1] = v[j]
  BY <1>1, <1>3, <1>4, <1>5, <1>6, <1>8
<1> QED
  BY <1>7, <1>9

----------------------------------------------------------------------------
(* Sorting the seeders.                                                    *)

Row == [num : Nat, holds : SUBSET Chunks]
Size(y) == Cardinality(y.holds)
RowOf(ans, n) == [num |-> n, holds |-> Holds(ans[n])]

Ascending(v) == \A i, j \in DOMAIN v : i < j => Size(v[i]) <= Size(v[j])

\* v has the first n answers, each with what it says.
Lists(v, ans, n) ==
  /\ v \in Seq(Row)
  /\ \A j \in DOMAIN v : v[j].num \in 1..n /\ v[j].holds = Holds(ans[v[j].num])
  /\ \A i \in 1..n : \E j \in DOMAIN v : v[j].num = i

LEMMA ChunksAreFinite == IsFiniteSet(Chunks) /\ \A s \in SUBSET Chunks : Cardinality(s) \in Nat
<1>1. IsFiniteSet(Chunks)
  BY FS_Interval, BoundsAssumption DEF Chunks
<1> QED
  BY <1>1, FS_Subset, FS_CardinalityType

LEMMA SizesAreNumbers == \A y \in Row : Size(y) \in Nat
BY ChunksAreFinite DEF Row, Size

LEMMA RowsAreRows ==
  ASSUME NEW ans \in Seq(Answer), NEW n \in 1..Len(ans)
  PROVE  RowOf(ans, n) \in Row
<1>1. ans[n] \in Answer
  OBVIOUS
<1>2. Holds(ans[n]) \in SUBSET Chunks
  BY <1>1 DEF Holds, Answer
<1> QED
  BY <1>2 DEF RowOf, Row

LEMMA InsertingKeepsOrder ==
  ASSUME NEW v \in Seq(Row), NEW x \in Row
  PROVE  /\ InsertSorted(v, x) \in Seq(Row)
         /\ \A j \in DOMAIN InsertSorted(v, x) :
              InsertSorted(v, x)[j] = x \/ \E k \in DOMAIN v : InsertSorted(v, x)[j] = v[k]
         /\ \E j \in DOMAIN InsertSorted(v, x) : InsertSorted(v, x)[j] = x
         /\ \A k \in DOMAIN v : \E j \in DOMAIN InsertSorted(v, x) : InsertSorted(v, x)[j] = v[k]
         /\ Ascending(v) => Ascending(InsertSorted(v, x))
<1> DEFINE smaller == {i \in DOMAIN v : Size(v[i]) < Size(x)}
           m == Max(smaller \cup {0})
           w == InsertAt(v, m + 1, x)
<1>1. InsertSorted(v, x) = w
  BY DEF InsertSorted, Size
<1>2. PICK n \in Nat : n = Len(v) /\ DOMAIN v = 1..n
  OBVIOUS
<1>3. smaller \cup {0} \subseteq 0..n /\ smaller \cup {0} # {}
  BY <1>2
<1>4. /\ m \in smaller \cup {0} /\ \A y \in smaller \cup {0} : y <= m
  BY <1>2, <1>3, MaxIsGreatest
<1> HIDE DEF m
<1>5. /\ m \in 0..n /\ (m # 0 => m \in DOMAIN v /\ Size(v[m]) < Size(x))
      /\ \A i \in DOMAIN v : i > m => ~(Size(v[i]) < Size(x))
  <2>1. m \in 0..n /\ (m # 0 => m \in smaller)
    BY <1>3, <1>4
  <2>2. ASSUME NEW i \in DOMAIN v, i > m PROVE i \notin smaller
    BY <1>2, <1>4, <2>1, <2>2
  <2> QED
    BY <2>1, <2>2
<1>6. /\ w \in Seq(Row) /\ Len(w) = n + 1 /\ w[m + 1] = x
      /\ \A j \in 1..((m + 1) - 1) : w[j] = v[j]
      /\ \A j \in (m + 1)..n : w[j + 1] = v[j]
  <2>1. m + 1 \in 1..(Len(v) + 1)
    <3>1. m \in 0..n
      BY <1>5
    <3>2. m + 1 \in 1..(n + 1)
      BY <3>1
    <3> QED
      BY <3>2, <1>2
  <2>2. /\ w \in Seq(Row) /\ Len(w) = Len(v) + 1 /\ w[m + 1] = x
        /\ \A j \in 1..((m + 1) - 1) : w[j] = v[j]
        /\ \A j \in (m + 1)..Len(v) : w[j + 1] = v[j]
    <3>1. PICK k \in 1..(Len(v) + 1) : k = m + 1
      BY <2>1
    <3>2. /\ InsertAt(v, k, x) \in Seq(Row)
          /\ Len(InsertAt(v, k, x)) = Len(v) + 1
          /\ InsertAt(v, k, x)[k] = x
          /\ \A j \in 1..(k - 1) : InsertAt(v, k, x)[j] = v[j]
          /\ \A j \in k..Len(v) : InsertAt(v, k, x)[j + 1] = v[j]
      BY Inserted
    <3>3. w = InsertAt(v, k, x)
      BY <3>1
    <3> HIDE DEF w
    <3> QED
      BY <3>1, <3>2, <3>3, Zenon
  <2> HIDE DEF w
  <2> QED
    BY <1>2, <2>2
<1> HIDE DEF w, smaller
<1>7. DOMAIN w = 1..(n + 1) /\ m + 1 \in DOMAIN w
  BY <1>5, <1>6
<1>8. ASSUME NEW j \in DOMAIN w
      PROVE  \/ j <= m /\ j \in DOMAIN v /\ w[j] = v[j]
             \/ j = m + 1 /\ w[j] = x
             \/ j > m + 1 /\ j - 1 \in DOMAIN v /\ w[j] = v[j - 1]
  <2>1. CASE j <= m
    <3>1. j \in 1..((m + 1) - 1) /\ j \in 1..n
      BY <1>5, <1>7, <2>1
    <3> QED
      BY <2>1, <3>1, <1>2, <1>6
  <2>2. CASE j = m + 1
    BY <2>2, <1>6
  <2>3. CASE j > m + 1
    <3>1. j - 1 \in (m + 1)..n /\ (j - 1) + 1 = j /\ j - 1 \in 1..n
      BY <1>5, <1>7, <2>3
    <3>2. w[(j - 1) + 1] = v[j - 1]
      BY <3>1, <1>6
    <3> QED
      BY <2>3, <3>1, <3>2, <1>2
  <2>4. j <= m \/ j = m + 1 \/ j > m + 1
    BY <1>5, <1>7
  <2> QED
    BY <2>1, <2>2, <2>3, <2>4
<1>9. ASSUME NEW k \in DOMAIN v PROVE \E j \in DOMAIN w : w[j] = v[k]
  <2>1. CASE k <= m
    <3>1. k \in 1..((m + 1) - 1) /\ k \in DOMAIN w
      BY <1>2, <1>5, <1>7, <2>1
    <3> QED
      BY <3>1, <1>6
  <2>2. CASE k > m
    <3>1. k \in (m + 1)..n /\ k + 1 \in DOMAIN w
      BY <1>2, <1>5, <1>7, <2>2
    <3> QED
      BY <3>1, <1>6
  <2>3. k <= m \/ k > m
    BY <1>2, <1>5
  <2> QED
    BY <2>1, <2>2, <2>3
<1>10. ASSUME Ascending(v) PROVE Ascending(w)
  <2>1. Size(x) \in Nat /\ \A k \in DOMAIN v : Size(v[k]) \in Nat
    BY SizesAreNumbers
  <2>2. ASSUME NEW k \in DOMAIN v, k <= m PROVE Size(v[k]) <= Size(x)
    <3>1. k = m \/ k < m
      BY <1>2, <1>5, <2>2
    <3>2. m # 0 /\ m \in DOMAIN v /\ Size(v[m]) < Size(x)
      BY <1>2, <1>5, <2>2
    <3>3. Size(v[k]) <= Size(v[m])
      BY <1>10, <2>1, <3>1, <3>2 DEF Ascending
    <3> QED
      BY <2>1, <3>2, <3>3
  <2>3. ASSUME NEW k \in DOMAIN v, k > m PROVE Size(x) <= Size(v[k])
    BY <1>5, <2>1, <2>3
  <2>4. ASSUME NEW i \in DOMAIN w, NEW j \in DOMAIN w, i < j
        PROVE  Size(w[i]) <= Size(w[j])
    <3>1. i \in Nat /\ j \in Nat /\ m \in Nat
      BY <1>5, <1>7
    <3>2. CASE i <= m /\ j <= m
      BY <3>2, <2>4, <1>8, <1>10, <3>1 DEF Ascending
    <3>3. CASE i <= m /\ j = m + 1
      BY <3>3, <3>1, <1>8, <2>2
    <3>4. CASE i <= m /\ j > m + 1
      <4>1. i \in DOMAIN v /\ w[i] = v[i] /\ j - 1 \in DOMAIN v /\ w[j] = v[j - 1]
        BY <3>1, <3>4, <1>8
      <4>2. j - 1 > m
        BY <3>1, <3>4
      <4>3. Size(v[i]) <= Size(x) /\ Size(x) <= Size(v[j - 1])
        BY <3>4, <4>1, <4>2, <2>2, <2>3
      <4> QED
        BY <4>1, <4>3, <2>1
    <3>5. CASE i = m + 1 /\ j > m + 1
      <4>1. w[i] = x /\ j - 1 \in DOMAIN v /\ w[j] = v[j - 1]
        BY <3>1, <3>5, <1>8
      <4>2. j - 1 > m
        BY <3>1, <3>5
      <4> QED
        BY <4>1, <4>2, <2>3
    <3>6. CASE i > m + 1 /\ j > m + 1
      <4>1. i - 1 \in DOMAIN v /\ w[i] = v[i - 1] /\ j - 1 \in DOMAIN v /\ w[j] = v[j - 1]
        BY <3>1, <3>6, <1>8
      <4>2. i - 1 < j - 1
        BY <3>1, <2>4
      <4> QED
        BY <4>1, <4>2, <1>10 DEF Ascending
    <3> QED
      BY <2>4, <3>1, <3>2, <3>3, <3>4, <3>5, <3>6
  <2> QED
    BY <2>4 DEF Ascending
<1>11. /\ w \in Seq(Row)
       /\ \A j \in DOMAIN w : w[j] = x \/ \E k \in DOMAIN v : w[j] = v[k]
       /\ \E j \in DOMAIN w : w[j] = x
       /\ \A k \in DOMAIN v : \E j \in DOMAIN w : w[j] = v[k]
       /\ Ascending(v) => Ascending(w)
  BY <1>6, <1>7, <1>8, <1>9, <1>10
<1> QED
  BY <1>1, <1>11

\* The sort after each of the first m insertions.
Unrolled(ans, m, g) ==
  g = [n \in 0..m |-> IF n = 0 THEN <<>> ELSE InsertSorted(g[n - 1], RowOf(ans, n))]

LEMMA SortUnrolls ==
  ASSUME NEW ans, NEW k \in Nat
  PROVE  \E g : Unrolled(ans, k, g)
<1> DEFINE S == {m \in Nat : \E g : Unrolled(ans, m, g)}
<1>1. 0 \in S
  <2> DEFINE g == [n \in 0..0 |-> <<>>]
  <2>1. Unrolled(ans, 0, g)
    BY DEF Unrolled
  <2> QED
    BY <2>1
<1>2. ASSUME NEW m \in Nat, m \in S PROVE m + 1 \in S
  <2>1. PICK g : Unrolled(ans, m, g)
    BY <1>2
  <2> DEFINE h == [n \in 0..(m + 1) |-> IF n = m + 1 THEN InsertSorted(g[m], RowOf(ans, m + 1))
                                        ELSE g[n]]
  <2>2. ASSUME NEW n \in 0..(m + 1)
        PROVE  h[n] = IF n = 0 THEN <<>> ELSE InsertSorted(h[n - 1], RowOf(ans, n))
    <3>1. CASE n = m + 1
      <4>1. n - 1 = m /\ m \in 0..(m + 1) /\ m # m + 1 /\ n # 0
        BY <3>1
      <4>2. h[m] = g[m] /\ h[n] = InsertSorted(g[m], RowOf(ans, m + 1))
        BY <3>1, <4>1
      <4> HIDE DEF h
      <4> QED
        BY <3>1, <4>1, <4>2
    <3>2. CASE n # m + 1
      <4>1. n \in 0..m /\ h[n] = g[n]
        BY <3>2
      <4>2. n # 0 => n - 1 \in 0..(m + 1) /\ n - 1 # m + 1 /\ h[n - 1] = g[n - 1]
        BY <3>2
      <4>3. g[n] = IF n = 0 THEN <<>> ELSE InsertSorted(g[n - 1], RowOf(ans, n))
        BY <2>1, <4>1 DEF Unrolled
      <4> HIDE DEF h
      <4> QED
        BY <4>1, <4>2, <4>3
    <3> QED
      BY <3>1, <3>2
  <2>3. h = [n \in 0..(m + 1) |-> h[n]]
    OBVIOUS
  <2>4. Unrolled(ans, m + 1, h)
    <3> HIDE DEF h
    <3> QED
      BY <2>2, <2>3 DEF Unrolled
  <2>5. \E f : Unrolled(ans, m + 1, f)
    BY <2>4
  <2> QED
    BY <2>5
<1>3. Nat \subseteq S
  <2> HIDE DEF S
  <2> QED
    BY <1>1, <1>2, Induction
<1> QED
  BY <1>3

LEMMA SortIsUnrolled ==
  ASSUME NEW ans \in Seq(Answer)
  PROVE  \E g : Unrolled(ans, Len(ans), g) /\ SortSeeders(ans) = g[Len(ans)]
<1> DEFINE g == CHOOSE f : Unrolled(ans, Len(ans), f)
<1>1. Unrolled(ans, Len(ans), g)
  <2>1. Len(ans) \in Nat
    OBVIOUS
  <2>2. \E f : Unrolled(ans, Len(ans), f)
    BY <2>1, SortUnrolls
  <2> QED
    BY <2>2
<1>2. SortSeeders(ans) = g[Len(ans)]
  BY DEF SortSeeders, Unrolled, RowOf
<1> QED
  BY <1>1, <1>2

LEMMA Sorted ==
  ASSUME NEW ans \in Seq(Answer)
  PROVE  Lists(SortSeeders(ans), ans, Len(ans)) /\ Ascending(SortSeeders(ans))
<1>1. PICK g : Unrolled(ans, Len(ans), g) /\ SortSeeders(ans) = g[Len(ans)]
  BY SortIsUnrolled
<1> DEFINE S == {m \in Nat : m <= Len(ans) => Lists(g[m], ans, m) /\ Ascending(g[m])}
<1>2. Len(ans) \in Nat
  OBVIOUS
<1>3. 0 \in S
  <2>1. 0 \in 0..Len(ans)
    BY <1>2
  <2>2. g[0] = <<>>
    BY <1>1, <2>1 DEF Unrolled
  <2>3. Lists(<<>>, ans, 0) /\ Ascending(<<>>)
    BY DEF Lists, Ascending
  <2> QED
    BY <2>2, <2>3
<1>4. ASSUME NEW m \in Nat, m \in S, m + 1 <= Len(ans)
      PROVE  Lists(g[m + 1], ans, m + 1) /\ Ascending(g[m + 1])
  <2> DEFINE x == RowOf(ans, m + 1)
  <2>1. m + 1 \in 1..Len(ans) /\ m + 1 \in 0..Len(ans) /\ m <= Len(ans) /\ (m + 1) - 1 = m /\ m + 1 # 0
    BY <1>2, <1>4
  <2>2. PICK v : v = g[m] /\ Lists(v, ans, m) /\ Ascending(v)
    BY <1>4, <2>1
  <2>3. g[m + 1] = InsertSorted(v, x)
    BY <1>1, <2>1, <2>2 DEF Unrolled
  <2>4. x \in Row
    BY <2>1, RowsAreRows
  <2>5. x.num = m + 1 /\ x.holds = Holds(ans[m + 1])
    BY DEF RowOf
  <2> HIDE DEF x
  <2>6. v \in Seq(Row)
    BY <2>2 DEF Lists
  <2>0. /\ InsertSorted(v, x) \in Seq(Row)
        /\ \A j \in DOMAIN InsertSorted(v, x) :
             InsertSorted(v, x)[j] = x \/ \E k \in DOMAIN v : InsertSorted(v, x)[j] = v[k]
        /\ \E j \in DOMAIN InsertSorted(v, x) : InsertSorted(v, x)[j] = x
        /\ \A k \in DOMAIN v : \E j \in DOMAIN InsertSorted(v, x) : InsertSorted(v, x)[j] = v[k]
        /\ Ascending(v) => Ascending(InsertSorted(v, x))
    BY <2>4, <2>6, InsertingKeepsOrder, Zenon
  <2>7. PICK w : w = InsertSorted(v, x)
    OBVIOUS
  <2>8. /\ w \in Seq(Row)
        /\ \A j \in DOMAIN w : w[j] = x \/ \E k \in DOMAIN v : w[j] = v[k]
        /\ \E j \in DOMAIN w : w[j] = x
        /\ \A k \in DOMAIN v : \E j \in DOMAIN w : w[j] = v[k]
        /\ Ascending(w)
    BY <2>2, <2>7, <2>0, Zenon
  <2>9. Lists(w, ans, m + 1)
    <3>1. ASSUME NEW j \in DOMAIN w
          PROVE  w[j].num \in 1..(m + 1) /\ w[j].holds = Holds(ans[w[j].num])
      <4>1. CASE w[j] = x
        BY <4>1, <2>5
      <4>2. CASE w[j] # x
        <5>1. PICK k \in DOMAIN v : w[j] = v[k]
          BY <4>2, <2>8
        <5>2. v[k].num \in 1..m /\ v[k].holds = Holds(ans[v[k].num])
          BY <2>2 DEF Lists
        <5>3. v[k].num \in 1..(m + 1)
          BY <5>2
        <5> QED
          BY <5>1, <5>2, <5>3
      <4> QED
        BY <4>1, <4>2
    <3>2. ASSUME NEW i \in 1..(m + 1) PROVE \E j \in DOMAIN w : w[j].num = i
      <4>1. CASE i = m + 1
        BY <4>1, <2>5, <2>8
      <4>2. CASE i # m + 1
        <5>1. i \in 1..m
          BY <4>2
        <5>2. PICK k \in DOMAIN v : v[k].num = i
          BY <5>1, <2>2 DEF Lists
        <5> QED
          BY <5>2, <2>8
      <4> QED
        BY <4>1, <4>2
    <3> QED
      BY <2>8, <3>1, <3>2 DEF Lists
  <2> QED
    BY <2>3, <2>7, <2>8, <2>9
<1>5. Nat \subseteq S
  <2>1. ASSUME NEW m \in Nat, m \in S PROVE m + 1 \in S
    BY <2>1, <1>4
  <2> HIDE DEF S
  <2> QED
    BY <1>3, <2>1, Induction
<1> QED
  BY <1>1, <1>2, <1>5

\* Of the seeders that hold chunk c, s has the fewest chunks.
Lightest(ans, c, s) ==
  \A i \in DOMAIN ans : c \in Holds(ans[i]) =>
    /\ s # 0
    /\ c \in Holds(ans[s])
    /\ Cardinality(Holds(ans[s])) <= Cardinality(Holds(ans[i]))

LEMMA DecidesForTheLightest ==
  ASSUME NEW ans \in Seq(Answer), NEW c \in Chunks
  PROVE  /\ Decide(SortSeeders(ans), c) \in 0..Len(ans)
         /\ Lightest(ans, c, Decide(SortSeeders(ans), c))
<1>1. PICK v : v = SortSeeders(ans) /\ Lists(v, ans, Len(ans)) /\ Ascending(v)
  BY Sorted
<1>2. PICK n \in Nat : n = Len(ans) /\ DOMAIN ans = 1..n
  OBVIOUS
<1>3. /\ v \in Seq(Row)
      /\ \A j \in DOMAIN v : v[j].num \in 1..n /\ v[j].holds = Holds(ans[v[j].num])
      /\ \A i \in 1..n : \E j \in DOMAIN v : v[j].num = i
  BY <1>1, <1>2 DEF Lists
<1> DEFINE rows == {i \in DOMAIN v : c \in v[i].holds}
<1>4. Decide(v, c) = IF rows = {} THEN 0 ELSE v[Min(rows)].num
  BY DEF Decide
<1>5. ASSUME NEW i \in 1..n, c \in Holds(ans[i])
      PROVE  \E j \in rows : v[j].num = i
  BY <1>3, <1>5
<1>6. CASE rows = {}
  <2>1. Decide(v, c) = 0 /\ 0 \in 0..n
    BY <1>4, <1>6
  <2>2. Lightest(ans, c, 0)
    BY <1>2, <1>5, <1>6 DEF Lightest
  <2> QED
    BY <1>1, <1>2, <2>1, <2>2
<1>7. CASE rows # {}
  <2>1. rows \subseteq Nat
    BY <1>3
  <2>2. PICK m : m = Min(rows) /\ m \in rows /\ \A y \in rows : m <= y
    BY <1>7, <2>1, MinIsLeast
  <2>3. Decide(v, c) = v[m].num
    BY <1>4, <1>7, <2>2
  <2>4. m \in DOMAIN v /\ c \in v[m].holds
    BY <2>2
  <2>5. PICK s : s = v[m].num /\ s \in 1..n /\ v[m].holds = Holds(ans[s])
    BY <1>3, <2>4
  <2>6. ASSUME NEW i \in 1..n, c \in Holds(ans[i])
        PROVE  Cardinality(Holds(ans[s])) <= Cardinality(Holds(ans[i]))
    <3>1. PICK j \in rows : v[j].num = i
      BY <1>5, <2>6
    <3>2. j \in DOMAIN v /\ v[j].holds = Holds(ans[i]) /\ m <= j
      BY <1>3, <2>2, <3>1
    <3>3. v[j] \in Row /\ v[m] \in Row
      BY <1>3, <2>4, <3>2
    <3>4. Size(v[j]) \in Nat /\ Size(v[m]) \in Nat
      BY <3>3, SizesAreNumbers
    <3>5. Size(v[m]) <= Size(v[j])
      <4>1. m \in Nat /\ j \in Nat
        BY <2>1, <2>2
      <4>2. CASE m = j
        BY <4>2, <3>4
      <4>3. CASE m < j
        BY <4>3, <2>4, <3>2, <1>1 DEF Ascending
      <4> QED
        BY <4>1, <4>2, <4>3, <3>2
    <3> QED
      BY <2>5, <3>2, <3>5 DEF Size
  <2>7. Lightest(ans, c, s)
    BY <1>2, <2>4, <2>5, <2>6 DEF Lightest
  <2>8. s \in 0..n
    BY <2>5
  <2> QED
    BY <1>1, <1>2, <2>3, <2>5, <2>7, <2>8
<1> QED
  BY <1>6, <1>7

LEMMA TakesTurns ==
  ASSUME NEW n \in Nat, n # 0, NEW c \in Nat
  PROVE  (c % n) + 1 \in 1..n
<1>1. c % n \in 0..(n - 1)
  OBVIOUS
<1> QED
  BY <1>1

LEMMA FirstIsLightest ==
  ASSUME NEW ans \in Seq(Answer), Len(ans) # 0, NEW c \in Chunks
  PROVE  /\ FirstSeeder(ans, c) \in 0..Len(ans)
         /\ Lightest(ans, c, FirstSeeder(ans, c))
<1>1. CASE \A i \in DOMAIN ans : ans[i] = NoEntry
  <2>1. FirstSeeder(ans, c) = (c % Len(ans)) + 1
    BY <1>1 DEF FirstSeeder
  <2>2. c \in Nat /\ Len(ans) \in Nat /\ DOMAIN ans = 1..Len(ans)
    BY BoundsAssumption DEF Chunks
  <2>3. PICK s : s = (c % Len(ans)) + 1 /\ s \in 1..Len(ans)
    BY <2>2, TakesTurns
  <2>4. \A i \in DOMAIN ans : Holds(ans[i]) = Chunks
    BY <1>1 DEF Holds
  <2>5. Cardinality(Chunks) \in Nat
    BY ChunksAreFinite
  <2>6. Lightest(ans, c, s)
    <3>1. s # 0 /\ s \in DOMAIN ans /\ Holds(ans[s]) = Chunks
      BY <2>2, <2>3, <2>4
    <3>2. Cardinality(Chunks) <= Cardinality(Chunks)
      BY <2>5
    <3> QED
      BY <2>4, <3>1, <3>2 DEF Lightest
  <2>7. s \in 0..Len(ans)
    BY <2>2, <2>3
  <2> QED
    BY <2>1, <2>3, <2>6, <2>7
<1>2. CASE ~\A i \in DOMAIN ans : ans[i] = NoEntry
  <2>1. FirstSeeder(ans, c) = Decide(SortSeeders(ans), c)
    BY <1>2 DEF FirstSeeder
  <2> QED
    BY <2>1, DecidesForTheLightest
<1> QED
  BY <1>1, <1>2

----------------------------------------------------------------------------
(* The inductive invariant: a part for each thread, for each download and  *)
(* for the originals that never went away.                                 *)

\* Seeder i was tried by a thread that has failed a times and is at s of n.
Tried(s, a, n, i) == (i < s /\ s <= i + a) \/ (i > s /\ s + n <= i + a)

Fetching == {"recv", "cut", "verify", "got"}

\* A thread t of chunk c, whose seeders se gave the answers an; st is steady.
ThreadOK(se, an, c, t, st) ==
  /\ t \in Thread /\ t.pc # "none"
  /\ t.seeder <= Len(se)
  /\ IF t.pc = "gaveup" THEN t.attempts <= Len(se) ELSE t.attempts < Len(se)
  /\ t.pc \in Fetching => t.seeder # 0
  /\ t.attempts = 0 => t.seeder = FirstSeeder(an, c)
  /\ (\E i \in DOMAIN se : se[i] \in st) =>
       /\ t.pc # "gaveup" /\ t.seeder # 0
       /\ \A i \in DOMAIN se : Tried(t.seeder, t.attempts, Len(se), i) => se[i] \notin st

\* The seeders polled so far have answered what a steady one answers.
Honest(se, an, st) ==
  /\ Len(an) <= Len(se)
  /\ \A i \in DOMAIN an : se[i] \in st => an[i] = NoEntry

\* A download in phase ph, with threads th and the entry fm for the file.
JobOK(ph, se, an, th, fm, st) ==
  /\ ph \in Phase /\ se \in Seq(Peers) /\ an \in Seq(Answer)
  /\ ph = "idle" => se = <<>> /\ an = <<>> /\ fm = NoEntry
  /\ ph # "idle" => fm \in SUBSET Chunks
  /\ ph # "fetch" => th = [c \in Chunks |-> NoThread]
  /\ ph \in {"poll", "asked", "cut"} => Len(an) < Len(se)
  /\ ph = "cut" => se[Len(an) + 1] \notin st
  /\ ph = "fetch" => /\ Len(an) = Len(se) /\ Len(se) # 0
                     /\ th = [c \in Chunks |-> th[c]]
                     /\ \A c \in Chunks : ThreadOK(se, an, c, th[c], st)
  /\ Honest(se, an, st)

Jobs == \A p \in Peers :
          JobOK(phase[p], seeders[p], answers[p], thread[p], filechunks_map[p], steady)
Steadfast == \A u \in steady : u \in up /\ u \in listed /\ phase[u] = "idle"

Disks == [Peers -> [Paths -> [Chunks -> Chunk]]]

Shapes ==
  /\ up \subseteq Peers /\ listed \subseteq Peers /\ completed \subseteq Peers
  /\ steady \subseteq Originals
  /\ path \in [Peers -> Paths] /\ target \in [Peers -> Paths] /\ file \in Disks
  /\ filechunks_map = [p \in Peers |-> filechunks_map[p]]
  /\ phase = [p \in Peers |-> phase[p]]
  /\ seeders = [p \in Peers |-> seeders[p]]
  /\ answers = [p \in Peers |-> answers[p]]
  /\ thread = [p \in Peers |-> thread[p]]
  /\ downloads \in 0..MaxDownloads
  /\ kills \in 0..MaxKills /\ starts \in 0..MaxStarts /\ stops \in 0..MaxStops

IInv == Shapes /\ Jobs /\ Steadfast

\* The originals that do not download share whole files and are idle; what a
\* download from them has got matches.
Sources == Originals \ Leechers
Pristine == \A u \in Sources : phase[u] = "idle" /\ path[u] = Upload /\ Whole(Shared(u))
Recorded(p) ==
  /\ FromOriginals(p) =>
       \A c \in Chunks : thread[p][c].pc = "got" => Copy(p)[c] = Good
  /\ phase[p] # "idle" =>
       \A c \in Chunks : c \in filechunks_map[p] => thread[p][c].pc = "got"
Contents == Pristine /\ \A p \in Peers : Recorded(p)

LEMMA ThreadSurvives ==
  ASSUME NEW se, NEW an, NEW c, NEW t, NEW st, NEW st2, st2 \subseteq st,
         ThreadOK(se, an, c, t, st)
  PROVE  ThreadOK(se, an, c, t, st2)
<1>1. /\ t \in Thread /\ t.pc # "none" /\ t.seeder <= Len(se)
      /\ (IF t.pc = "gaveup" THEN t.attempts <= Len(se) ELSE t.attempts < Len(se))
      /\ (t.pc \in Fetching => t.seeder # 0)
      /\ (t.attempts = 0 => t.seeder = FirstSeeder(an, c))
  BY DEF ThreadOK
<1>2. ASSUME \E i \in DOMAIN se : se[i] \in st2
      PROVE  /\ t.pc # "gaveup" /\ t.seeder # 0
             /\ \A i \in DOMAIN se : Tried(t.seeder, t.attempts, Len(se), i) => se[i] \notin st2
  <2>1. \E i \in DOMAIN se : se[i] \in st
    BY <1>2
  <2> QED
    BY <2>1 DEF ThreadOK
<1> QED
  BY <1>1, <1>2 DEF ThreadOK

LEMMA JobSurvives ==
  ASSUME NEW ph, NEW se, NEW an, NEW th, NEW fm, NEW st, NEW st2, st2 \subseteq st,
         JobOK(ph, se, an, th, fm, st)
  PROVE  JobOK(ph, se, an, th, fm, st2)
<1>1. Honest(se, an, st2)
  BY DEF JobOK, Honest
<1>2. ph = "fetch" => \A c \in Chunks : ThreadOK(se, an, c, th[c], st2)
  BY ThreadSurvives DEF JobOK
<1> QED
  BY <1>1, <1>2 DEF JobOK

LEMMA ThreadMoves ==
  ASSUME NEW se, NEW an, NEW c, NEW t, NEW st, ThreadOK(se, an, c, t, st), t.pc # "gaveup",
         NEW q \in Fetching \cup {"connect"}, q \in Fetching => t.seeder # 0
  PROVE  ThreadOK(se, an, c, [t EXCEPT !.pc = q], st)
<1>1. t \in Thread
  BY DEF ThreadOK
<1>2. PICK u : u = [t EXCEPT !.pc = q]
  OBVIOUS
<1>3. /\ u \in Thread /\ u.pc = q /\ u.seeder = t.seeder /\ u.attempts = t.attempts
      /\ q # "none" /\ q # "gaveup"
  BY <1>1, <1>2 DEF Thread, Fetching
<1>4. ThreadOK(se, an, c, u, st)
  BY <1>3 DEF ThreadOK
<1> QED
  BY <1>2, <1>4

\* NextSeeder, of a thread t with n seeders.
Advance(t, n) ==
  IF t.attempts + 1 >= n
  THEN [t EXCEPT !.pc = "gaveup", !.attempts = @ + 1]
  ELSE [t EXCEPT !.seeder = (@ % n) + 1, !.attempts = @ + 1]

\* Going round: the seeders tried before, and the one that has just failed.
LEMMA AllWereTried ==
  ASSUME NEW n \in Nat, NEW s \in 1..n, NEW a \in Nat, a + 1 >= n, NEW i \in 1..n
  PROVE  i = s \/ Tried(s, a, n, i)
BY DEF Tried

LEMMA OneMoreIsTried ==
  ASSUME NEW n \in Nat, NEW s \in 1..n, NEW a \in Nat, NEW i \in 1..n,
         Tried((s % n) + 1, a + 1, n, i)
  PROVE  i = s \/ Tried(s, a, n, i)
<1>1. CASE s < n
  <2>1. s % n = s
    BY <1>1
  <2>2. Tried(s + 1, a + 1, n, i)
    BY <2>1
  <2> QED
    BY <2>2, <1>1 DEF Tried
<1>2. CASE s = n
  <2>1. n \in Nat \ {0} /\ n % n = 0
    BY <1>2
  <2>2. Tried(1, a + 1, n, i)
    BY <1>2, <2>1
  <2> QED
    BY <2>2, <1>2 DEF Tried
<1> QED
  BY <1>1, <1>2

LEMMA ThreadAdvances ==
  ASSUME NEW se \in Seq(Peers), NEW an, NEW c, NEW t, NEW st, ThreadOK(se, an, c, t, st),
         t.pc = "connect", t.seeder # 0 => se[t.seeder] \notin st
  PROVE  ThreadOK(se, an, c, Advance(t, Len(se)), st)
<1>1. PICK n \in Nat : n = Len(se) /\ DOMAIN se = 1..n
  OBVIOUS
<1>2. t \in Thread /\ t.seeder \in 0..n /\ t.attempts \in Nat /\ t.attempts < n /\ t.pc = "connect"
  BY <1>1 DEF ThreadOK, Thread
<1>3. PICK s, a : s = t.seeder /\ a = t.attempts
  OBVIOUS
<1>4. ASSUME \E i \in DOMAIN se : se[i] \in st
      PROVE  s \in 1..n /\ \A i \in 1..n : i = s \/ Tried(s, a, n, i) => se[i] \notin st
  <2>1. s # 0 /\ \A i \in DOMAIN se : Tried(s, a, n, i) => se[i] \notin st
    BY <1>1, <1>3, <1>4 DEF ThreadOK
  <2>2. s \in 1..n
    BY <1>2, <1>3, <2>1
  <2> QED
    BY <1>1, <1>3, <2>1, <2>2
<1>8. PICK b \in Nat : b = t.attempts + 1 /\ b = a + 1
  BY <1>2, <1>3
<1>5. CASE a + 1 >= n
  <2>1. PICK u : u = [t EXCEPT !.pc = "gaveup", !.attempts = b]
    OBVIOUS
  <2>2. u \in Thread /\ u.pc = "gaveup" /\ u.seeder = s /\ u.attempts = a + 1
    BY <1>2, <1>3, <1>8, <2>1 DEF Thread
  <2>3. Advance(t, n) = u
    <3>1. [t EXCEPT !.pc = "gaveup", !.attempts = @ + 1] = u
      BY <1>8, <2>1
    <3> QED
      BY <1>3, <1>5, <3>1 DEF Advance
  <2>4. s <= n /\ a + 1 <= n /\ a + 1 # 0 /\ "gaveup" \notin Fetching
    BY <1>2, <1>3 DEF Fetching
  <2>5. ~\E i \in DOMAIN se : se[i] \in st
    <3> SUFFICES ASSUME \E i \in DOMAIN se : se[i] \in st PROVE FALSE
      OBVIOUS
    <3>1. PICK i \in 1..n : se[i] \in st
      BY <1>1
    <3>2. a \in Nat /\ s \in 1..n
      BY <1>2, <1>3, <1>4
    <3>3. i = s \/ Tried(s, a, n, i)
      BY <1>5, <3>2, AllWereTried
    <3> QED
      BY <1>4, <3>1, <3>3
  <2> QED
    BY <1>1, <2>2, <2>3, <2>4, <2>5 DEF ThreadOK
<1>6. CASE a + 1 < n
  <2>1. PICK r \in Nat : r = (s % n) + 1 /\ r \in 1..n
    <3>1. s \in Nat /\ n # 0
      BY <1>2, <1>3
    <3>2. (s % n) + 1 \in 1..n
      BY <3>1, TakesTurns
    <3> QED
      BY <3>2
  <2>2. PICK u : u = [t EXCEPT !.seeder = r, !.attempts = b]
    OBVIOUS
  <2>3. u \in Thread /\ u.pc = "connect" /\ u.seeder = r /\ u.attempts = a + 1
    BY <1>2, <1>3, <1>8, <2>1, <2>2 DEF Thread
  <2>4. Advance(t, n) = u
    <3>1. ~(t.attempts + 1 >= n)
      BY <1>2, <1>3, <1>6
    <3>2. [t EXCEPT !.seeder = (@ % n) + 1, !.attempts = @ + 1] = u
      BY <1>3, <1>8, <2>1, <2>2
    <3> QED
      BY <3>1, <3>2 DEF Advance
  <2>5. r <= n /\ a + 1 < n /\ a + 1 # 0 /\ r # 0
    BY <1>2, <1>3, <1>6, <2>1
  <2>6. ASSUME \E i \in DOMAIN se : se[i] \in st, NEW i \in DOMAIN se, Tried(r, a + 1, n, i)
        PROVE  se[i] \notin st
    <3>1. s \in 1..n /\ a \in Nat /\ i \in 1..n
      BY <1>1, <1>2, <1>3, <1>4, <2>6
    <3>2. Tried((s % n) + 1, a + 1, n, i)
      BY <2>1, <2>6
    <3>3. i = s \/ Tried(s, a, n, i)
      BY <3>1, <3>2, OneMoreIsTried
    <3> QED
      BY <1>4, <2>6, <3>1, <3>3
  <2> QED
    BY <1>1, <2>3, <2>4, <2>5, <2>6 DEF ThreadOK
<1>7. a + 1 >= n \/ a + 1 < n
  BY <1>2, <1>3
<1> QED
  BY <1>5, <1>6, <1>7

LEMMA ThreadStarts ==
  ASSUME NEW se \in Seq(Peers), NEW an \in Seq(Answer), NEW st, Honest(se, an, st),
         Len(an) = Len(se), Len(se) # 0, NEW c \in Chunks
  PROVE  ThreadOK(se, an, c, [pc |-> "connect", seeder |-> FirstSeeder(an, c), attempts |-> 0], st)
<1>1. PICK n \in Nat : n = Len(se) /\ n = Len(an) /\ DOMAIN se = 1..n /\ DOMAIN an = 1..n /\ n # 0
  OBVIOUS
<1>2. PICK f : f = FirstSeeder(an, c) /\ f \in 0..n /\ Lightest(an, c, f)
  BY <1>1, FirstIsLightest
<1>3. PICK t : t = [pc |-> "connect", seeder |-> f, attempts |-> 0]
  OBVIOUS
<1>4. t \in Thread /\ t.pc = "connect" /\ t.seeder = f /\ t.attempts = 0
  BY <1>2, <1>3 DEF Thread
<1>5. f <= n /\ 0 < n /\ "connect" \notin Fetching
  BY <1>1, <1>2 DEF Fetching
<1>6. ASSUME \E i \in DOMAIN se : se[i] \in st
      PROVE  f # 0 /\ \A i \in DOMAIN se : ~Tried(f, 0, n, i)
  <2>1. PICK i \in 1..n : se[i] \in st
    BY <1>1, <1>6
  <2>2. an[i] = NoEntry /\ i \in DOMAIN an
    BY <1>1, <2>1 DEF Honest
  <2>3. c \in Holds(an[i])
    BY <2>2 DEF Holds
  <2>4. f # 0
    BY <1>2, <2>2, <2>3 DEF Lightest
  <2>5. ASSUME NEW j \in 1..n PROVE ~Tried(f, 0, n, j)
    BY <1>2, <2>4 DEF Tried
  <2> QED
    BY <1>1, <2>4, <2>5
<1>7. ThreadOK(se, an, c, t, st)
  BY <1>1, <1>2, <1>4, <1>5, <1>6 DEF ThreadOK
<1> QED
  BY <1>2, <1>3, <1>7

LEMMA JobEnds ==
  ASSUME NEW st
  PROVE  JobOK("idle", <<>>, <<>>, [c \in Chunks |-> NoThread], NoEntry, st)
<1>1. Honest(<<>>, <<>>, st)
  BY DEF Honest
<1>2. <<>> \in Seq(Peers) /\ <<>> \in Seq(Answer)
  OBVIOUS
<1> QED
  BY <1>1, <1>2 DEF JobOK, Phase

LEMMA JobMoves ==
  ASSUME NEW se, NEW an, NEW th, NEW fm, NEW st, JobOK("fetch", se, an, th, fm, st),
         NEW c \in Chunks, NEW t, ThreadOK(se, an, c, t, st), NEW fm2 \in SUBSET Chunks
  PROVE  JobOK("fetch", se, an, [th EXCEPT ![c] = t], fm2, st)
<1>1. PICK th2 : th2 = [th EXCEPT ![c] = t]
  OBVIOUS
<1>2. th = [d \in Chunks |-> th[d]] /\ \A d \in Chunks : ThreadOK(se, an, d, th[d], st)
  BY DEF JobOK
<1>3. th2 = [d \in Chunks |-> IF d = c THEN t ELSE th[d]]
  BY <1>1, <1>2
<1>4. th2 = [d \in Chunks |-> th2[d]] /\ \A d \in Chunks : th2[d] = IF d = c THEN t ELSE th[d]
  BY <1>3
<1>5. \A d \in Chunks : ThreadOK(se, an, d, th2[d], st)
  BY <1>2, <1>4
<1>6. JobOK("fetch", se, an, th2, fm2, st)
  BY <1>4, <1>5 DEF JobOK
<1> QED
  BY <1>1, <1>6

----------------------------------------------------------------------------
(* Every step keeps the invariant.                                         *)

Job(p) == JobOK(phase[p], seeders[p], answers[p], thread[p], filechunks_map[p], steady)

LEMMA JobsAre == Jobs <=> \A p \in Peers : Job(p)
BY DEF Jobs, Job

\* A download that is left alone.
LEMMA JobIsLeft ==
  ASSUME NEW p \in Peers, Job(p), steady' \subseteq steady,
         phase'[p] = phase[p], seeders'[p] = seeders[p], answers'[p] = answers[p],
         thread'[p] = thread[p], filechunks_map'[p] = filechunks_map[p]
  PROVE  Job(p)'
BY JobSurvives DEF Job

\* What an ending process does to its own download and to those of others.
LEMMA StopsOneself ==
  ASSUME Shapes, NEW u \in Peers, Stop(u)
  PROVE  Job(u)' /\ phase'[u] = "idle"
<1>1. /\ phase'[u] = "idle" /\ seeders'[u] = <<>> /\ answers'[u] = <<>>
      /\ filechunks_map'[u] = NoEntry
  BY DEF Shapes, Stop
<1>2. thread'[u] = [c \in Chunks |-> NoThread]
  BY DEF Stop
<1> QED
  BY <1>1, <1>2, JobEnds DEF Job

LEMMA OthersAtStop ==
  ASSUME Shapes, NEW u \in Peers, Stop(u), NEW p \in Peers, p # u
  PROVE  /\ \/ phase'[p] = phase[p]
            \/ phase[p] = "asked" /\ Polled(p) = u /\ phase'[p] = "cut"
         /\ seeders'[p] = seeders[p] /\ answers'[p] = answers[p]
         /\ filechunks_map'[p] = filechunks_map[p]
         /\ thread'[p] = [c \in Chunks |-> thread'[p][c]]
         /\ \A c \in Chunks : \/ thread'[p][c] = thread[p][c]
                              \/ /\ thread[p][c].pc = "recv"
                                 /\ thread'[p][c] = [thread[p][c] EXCEPT !.pc = "cut"]
<1>1. /\ seeders'[p] = seeders[p] /\ answers'[p] = answers[p]
      /\ filechunks_map'[p] = filechunks_map[p]
  BY DEF Shapes, Stop
<1>5. \/ phase'[p] = phase[p]
      \/ phase[p] = "asked" /\ Polled(p) = u /\ phase'[p] = "cut"
  BY DEF Stop
<1>2. thread'[p] = [c \in Chunks |->
       CASE p = u -> NoThread
         [] p # u /\ thread[p][c].pc = "recv"
              /\ seeders[p][thread[p][c].seeder] = u
              -> [thread[p][c] EXCEPT !.pc = "cut"]
         [] OTHER -> thread[p][c]]
  BY DEF Stop
<1>3. thread'[p] = [c \in Chunks |-> thread'[p][c]]
  BY <1>2
<1>4. ASSUME NEW c \in Chunks
      PROVE  \/ thread'[p][c] = thread[p][c]
             \/ /\ thread[p][c].pc = "recv"
                /\ thread'[p][c] = [thread[p][c] EXCEPT !.pc = "cut"]
  <2>1. thread'[p][c] =
       CASE p = u -> NoThread
         [] p # u /\ thread[p][c].pc = "recv"
              /\ seeders[p][thread[p][c].seeder] = u
              -> [thread[p][c] EXCEPT !.pc = "cut"]
         [] OTHER -> thread[p][c]
    BY <1>2
  <2> QED
    BY <2>1
<1> QED
  BY <1>1, <1>3, <1>4, <1>5

LEMMA StopKeepsJobs ==
  ASSUME Shapes, Jobs, NEW u \in Peers, Stop(u)
  PROVE  Jobs' /\ steady' \subseteq steady
<1>1. steady' \subseteq steady
  BY DEF Stop
<1>2. ASSUME NEW p \in Peers, p # u PROVE Job(p)'
  <2>1. Job(p)
    BY JobsAre
  <2>2. /\ \/ phase'[p] = phase[p]
           \/ phase[p] = "asked" /\ Polled(p) = u /\ phase'[p] = "cut"
        /\ seeders'[p] = seeders[p] /\ answers'[p] = answers[p]
        /\ filechunks_map'[p] = filechunks_map[p]
        /\ thread'[p] = [c \in Chunks |-> thread'[p][c]]
        /\ \A c \in Chunks : \/ thread'[p][c] = thread[p][c]
                             \/ /\ thread[p][c].pc = "recv"
                                /\ thread'[p][c] = [thread[p][c] EXCEPT !.pc = "cut"]
    BY <1>2, OthersAtStop
  <2>3. CASE phase[p] # "fetch"
    <3>1. thread[p] = [c \in Chunks |-> NoThread]
      BY <2>1, <2>3 DEF Job, JobOK
    <3>2. \A c \in Chunks : thread[p][c] = NoThread /\ NoThread.pc = "none"
      BY <3>1 DEF NoThread
    <3>3. \A c \in Chunks : thread'[p][c] = NoThread
      BY <2>2, <3>2
    <3>4. thread'[p] = thread[p]
      BY <2>2, <3>1, <3>3
    <3>5. CASE phase'[p] = phase[p]
      BY <1>1, <2>1, <2>2, <3>4, <3>5, JobIsLeft
    <3>6. CASE phase[p] = "asked" /\ Polled(p) = u /\ phase'[p] = "cut"
      <4>1. PICK se, an, th, fm, st, st2 :
              /\ se = seeders[p] /\ an = answers[p] /\ th = thread[p]
              /\ fm = filechunks_map[p] /\ st = steady /\ st2 = steady'
        OBVIOUS
      <4>2. JobOK("asked", se, an, th, fm, st2)
        BY <1>1, <2>1, <3>6, <4>1, JobSurvives DEF Job
      <4>3. se[Len(an) + 1] \notin st2
        BY <3>6, <4>1 DEF Polled, Stop
      <4>4. JobOK("cut", se, an, th, fm, st2)
        BY <4>2, <4>3 DEF JobOK, Phase
      <4> QED
        BY <2>2, <3>4, <3>6, <4>1, <4>4 DEF Job
    <3> QED
      BY <2>2, <3>5, <3>6
  <2>4. CASE phase[p] = "fetch"
    <3>1. PICK se, an, th, fm, st : /\ se = seeders[p] /\ an = answers[p] /\ th = thread[p]
                                    /\ fm = filechunks_map[p] /\ st = steady
      OBVIOUS
    <3>2. JobOK("fetch", se, an, th, fm, st)
      BY <2>1, <2>4, <3>1 DEF Job
    <3>3. \A c \in Chunks : ThreadOK(se, an, c, th[c], st)
      BY <3>2 DEF JobOK
    <3>4. PICK th2 : th2 = thread'[p]
      OBVIOUS
    <3>5. ASSUME NEW c \in Chunks PROVE ThreadOK(se, an, c, th2[c], st)
      <4>1. CASE th2[c] = th[c]
        BY <3>3, <4>1
      <4>2. CASE th[c].pc = "recv" /\ th2[c] = [th[c] EXCEPT !.pc = "cut"]
        <5>1. "cut" \in Fetching /\ "recv" \in Fetching /\ "cut" \in Fetching \cup {"connect"}
          BY DEF Fetching
        <5>2. ThreadOK(se, an, c, th[c], st) /\ th[c].pc # "gaveup" /\ th[c].seeder # 0
          BY <3>3, <4>2, <5>1 DEF ThreadOK
        <5> QED
          BY <4>2, <5>1, <5>2, ThreadMoves
      <4> QED
        BY <2>2, <3>1, <3>4, <4>1, <4>2
    <3>6. JobOK("fetch", se, an, th2, fm, st)
      BY <2>2, <3>2, <3>4, <3>5 DEF JobOK
    <3>7. JobOK("fetch", se, an, th2, fm, steady')
      BY <1>1, <3>1, <3>6, JobSurvives
    <3> QED
      BY <2>2, <2>4, <3>1, <3>4, <3>7 DEF Job
  <2> QED
    BY <2>3, <2>4
<1>3. \A p \in Peers : Job(p)'
  BY <1>2, StopsOneself
<1> QED
  BY <1>1, <1>3 DEF Jobs, Job

LEMMA StopKeepsRest ==
  ASSUME Shapes, Steadfast, NEW u \in Peers, Stop(u)
  PROVE  /\ Steadfast' /\ up' \subseteq Peers /\ steady' \subseteq Originals
         /\ filechunks_map' = [p \in Peers |-> filechunks_map'[p]]
         /\ phase' = [p \in Peers |-> phase'[p]]
         /\ seeders' = [p \in Peers |-> seeders'[p]]
         /\ answers' = [p \in Peers |-> answers'[p]]
         /\ thread' = [p \in Peers |-> thread'[p]]
<1>1. /\ filechunks_map' = [p \in Peers |-> filechunks_map'[p]]
      /\ seeders' = [p \in Peers |-> seeders'[p]]
      /\ answers' = [p \in Peers |-> answers'[p]]
  BY DEF Shapes, Stop
<1>2. /\ thread' = [p \in Peers |-> thread'[p]]
      /\ phase' = [p \in Peers |-> phase'[p]]
  BY DEF Stop
<1>3. up' \subseteq Peers /\ steady' \subseteq Originals
  BY DEF Shapes, Stop
<1>4. ASSUME NEW v \in steady' PROVE v \in up' /\ v \in listed' /\ phase'[v] = "idle"
  <2>1. v \in steady /\ v # u /\ up' = up \ {u}
    BY <1>4 DEF Stop
  <2>2. v \in Peers
    BY <2>1, PeersAssumption DEF Shapes
  <2>3. phase[v] = "idle"
    BY <2>1 DEF Steadfast
  <2>4. phase'[v] = "idle"
    BY <2>1, <2>2, <2>3, OthersAtStop
  <2>5. listed' = listed
    BY DEF Stop, shares
  <2> QED
    BY <2>1, <2>4, <2>5 DEF Steadfast
<1> QED
  BY <1>1, <1>2, <1>3, <1>4 DEF Steadfast

\* A thread that was started belongs to a download that fetches.
LEMMA ThreadRuns ==
  ASSUME Jobs, NEW p \in Peers, NEW c \in Chunks, thread[p][c].pc # "none"
  PROVE  /\ phase[p] = "fetch"
         /\ ThreadOK(seeders[p], answers[p], c, thread[p][c], steady)
         /\ filechunks_map[p] \in SUBSET Chunks
         /\ seeders[p] \in Seq(Peers)
<1>1. Job(p)
  BY JobsAre
<1>2. phase[p] = "fetch"
  <2> SUFFICES ASSUME phase[p] # "fetch" PROVE FALSE
    OBVIOUS
  <2>1. thread[p] = [d \in Chunks |-> NoThread]
    BY <1>1 DEF Job, JobOK
  <2> QED
    BY <2>1 DEF NoThread
<1> QED
  BY <1>1, <1>2 DEF Job, JobOK

\* A thread takes a step: its download goes on, the others are left alone.
LEMMA ThreadStep ==
  ASSUME Shapes, Jobs, Steadfast, NEW p \in Peers, NEW c \in Chunks, phase[p] = "fetch",
         NEW t, ThreadOK(seeders[p], answers[p], c, t, steady), Goto(p, c, t),
         UNCHANGED <<up, phase, seeders, answers, steady>>,
         listed \subseteq listed',
         NEW fm \in SUBSET Chunks, filechunks_map' = [filechunks_map EXCEPT ![p] = fm]
  PROVE  /\ Jobs' /\ Steadfast'
         /\ filechunks_map' = [q \in Peers |-> filechunks_map'[q]]
         /\ thread' = [q \in Peers |-> thread'[q]]
<1>1. filechunks_map' = [q \in Peers |-> filechunks_map'[q]] /\ filechunks_map'[p] = fm
  BY DEF Shapes
<1>2. /\ thread' = [q \in Peers |-> thread'[q]]
      /\ thread'[p] = [thread[p] EXCEPT ![c] = t]
  BY DEF Shapes, Goto
<1>3. Job(p)'
  <2>1. PICK se, an, th, st : /\ se = seeders[p] /\ an = answers[p] /\ th = thread[p] /\ st = steady
    OBVIOUS
  <2>2. Job(p)
    BY JobsAre
  <2>3. JobOK("fetch", se, an, th, filechunks_map[p], st)
    BY <2>1, <2>2 DEF Job
  <2>4. JobOK("fetch", se, an, [th EXCEPT ![c] = t], fm, st)
    BY <2>1, <2>3, JobMoves
  <2> QED
    BY <1>1, <1>2, <2>1, <2>4 DEF Job
<1>4. ASSUME NEW q \in Peers, q # p PROVE Job(q)'
  <2>1. thread'[q] = thread[q] /\ filechunks_map'[q] = filechunks_map[q]
    BY <1>4 DEF Shapes, Goto
  <2>2. Job(q)
    BY JobsAre
  <2> QED
    BY <2>1, <2>2, JobIsLeft
<1>5. Jobs'
  BY <1>3, <1>4 DEF Jobs, Job
<1>6. Steadfast'
  BY DEF Steadfast
<1> QED
  BY <1>1, <1>2, <1>5, <1>6

LEMMA MapIsItself ==
  ASSUME Shapes, NEW p \in Peers, UNCHANGED filechunks_map
  PROVE  filechunks_map' = [filechunks_map EXCEPT ![p] = filechunks_map[p]]
BY DEF Shapes

LEMMA InitOK ==
  ASSUME Init
  PROVE  IInv
<1>1. Shapes
  <2>1. Good \in Chunk /\ Fives \in Chunk
    BY DEF Good, Fives, Chunk
  <2>2. file \in Disks /\ path \in [Peers -> Paths] /\ target \in [Peers -> Paths]
    BY <2>1, PathsAssumption DEF Init, Disks
  <2>3. downloads \in 0..MaxDownloads /\ kills \in 0..MaxKills /\ starts \in 0..MaxStarts /\ stops \in 0..MaxStops
    BY BoundsAssumption DEF Init
  <2>4. /\ up \subseteq Peers /\ listed \subseteq Peers /\ completed \subseteq Peers
        /\ steady \subseteq Originals
    BY PeersAssumption DEF Init
  <2>5. /\ filechunks_map = [p \in Peers |-> filechunks_map[p]]
        /\ phase = [p \in Peers |-> phase[p]]
        /\ seeders = [p \in Peers |-> seeders[p]]
        /\ answers = [p \in Peers |-> answers[p]]
        /\ thread = [p \in Peers |-> thread[p]]
    BY DEF Init
  <2> QED
    BY <2>2, <2>3, <2>4, <2>5 DEF Shapes
<1>2. ASSUME NEW p \in Peers PROVE Job(p)
  <2>1. /\ phase[p] = "idle" /\ seeders[p] = <<>> /\ answers[p] = <<>>
        /\ thread[p] = [c \in Chunks |-> NoThread] /\ filechunks_map[p] = NoEntry
    BY DEF Init
  <2> QED
    BY <2>1, JobEnds DEF Job
<1>3. Steadfast
  BY PeersAssumption DEF Init, Steadfast
<1> QED
  BY <1>1, <1>2, <1>3, JobsAre DEF IInv

LEMMA KillOK ==
  ASSUME IInv, NEW u \in Peers, Kill(u)
  PROVE  IInv'
<1>1. /\ Shapes /\ Jobs /\ Steadfast /\ Stop(u)
      /\ UNCHANGED <<listed, path, file, target, completed, downloads, starts, stops>>
  BY DEF IInv, Kill, Stop, shares
<1>2. Jobs'
  BY <1>1, StopKeepsJobs
<1>3. kills' \in 0..MaxKills
  BY <1>1, BoundsAssumption DEF Shapes, Kill
<1>4. Shapes' /\ Steadfast'
  BY <1>1, <1>3, StopKeepsRest DEF Shapes
<1> QED
  BY <1>2, <1>4 DEF IInv

\* The other three ways for a process to end.
LEMMA EndOK ==
  ASSUME IInv, NEW u \in Peers, Stop(u), UNCHANGED bounds
  PROVE  IInv'
<1>1. /\ Shapes /\ Jobs /\ Steadfast
      /\ UNCHANGED <<listed, path, file, target, completed, downloads, kills, starts, stops>>
  BY DEF IInv, bounds, Stop, shares
<1>2. Jobs'
  BY <1>1, StopKeepsJobs
<1>3. Shapes' /\ Steadfast'
  BY <1>1, StopKeepsRest DEF Shapes
<1> QED
  BY <1>2, <1>3 DEF IInv

LEMMA RestartOK ==
  ASSUME IInv, NEW u \in Peers, Restart(u)
  PROVE  IInv'
<1>1. Shapes /\ Jobs /\ Steadfast
  BY DEF IInv
<1>2. /\ UNCHANGED <<listed, path, file, target, filechunks_map, phase, seeders, answers, thread,
                     completed, steady, downloads, kills, stops>>
      /\ up' = up \cup {u}
  BY DEF Restart, job, shares, history
<1>3. starts' \in 0..MaxStarts
  BY <1>1, BoundsAssumption DEF Shapes, Restart
<1>4. Shapes'
  BY <1>1, <1>2, <1>3 DEF Shapes
<1>5. Jobs' /\ Steadfast'
  BY <1>1, <1>2 DEF Jobs, Steadfast
<1> QED
  BY <1>4, <1>5 DEF IInv

LEMMA GroupStopShareOK ==
  ASSUME IInv, NEW u \in Peers, GroupStopShare(u)
  PROVE  IInv'
<1>1. Shapes /\ Jobs /\ Steadfast
  BY DEF IInv
<1>2. /\ UNCHANGED <<up, path, file, target, filechunks_map, phase, seeders, answers, thread,
                     completed, downloads, kills, starts>>
      /\ listed' = listed \ {u} /\ steady' = steady \ {u}
  BY DEF GroupStopShare, job
<1>3. stops' \in 0..MaxStops
  BY <1>1, BoundsAssumption DEF Shapes, GroupStopShare
<1>4. Shapes'
  BY <1>1, <1>2, <1>3 DEF Shapes
<1>5. ASSUME NEW p \in Peers PROVE Job(p)'
  <2>1. Job(p)
    BY <1>1, JobsAre
  <2> QED
    BY <1>2, <2>1, JobIsLeft
<1>6. Jobs'
  BY <1>5 DEF Jobs, Job
<1>7. Steadfast'
  BY <1>1, <1>2 DEF Steadfast
<1> QED
  BY <1>4, <1>6, <1>7 DEF IInv

LEMMA DownloadFileOK ==
  ASSUME IInv, NEW p \in Peers, DownloadFile(p)
  PROVE  IInv'
<1>1. Shapes /\ Jobs /\ Steadfast
  BY DEF IInv
<1>2. /\ UNCHANGED <<up, listed, path, answers, thread, kills, starts, stops>>
      /\ steady' = steady \ {p} /\ completed' = completed \ {p}
  BY DEF DownloadFile, shares
<1>3. PICK s \in [1..Cardinality(listed) -> listed] : seeders' = [seeders EXCEPT ![p] = s]
  BY DEF DownloadFile
<1>4. Cardinality(listed) \in Nat /\ Cardinality(listed) # 0
  <2>1. IsFiniteSet(listed) /\ listed # {}
    BY <1>1, PeersAssumption, FS_Subset DEF Shapes, DownloadFile
  <2> QED
    BY <2>1, FS_CardinalityType, FS_EmptySet
<1>5. s \in Seq(Peers) /\ Len(s) = Cardinality(listed)
  <2>1. s \in [1..Cardinality(listed) -> Peers]
    BY <1>1 DEF Shapes
  <2> QED
    BY <1>4, <2>1
<1>6. /\ phase' = [phase EXCEPT ![p] = "poll"]
      /\ filechunks_map' = [filechunks_map EXCEPT ![p] = {}]
      /\ phase[p] = "idle" /\ downloads < MaxDownloads /\ downloads' = downloads + 1
  BY DEF DownloadFile
<1>12. PICK d \in Paths : /\ target' = [target EXCEPT ![p] = d]
                          /\ file' = [file EXCEPT ![p][d] = [c \in Chunks |-> Fives]]
  BY DEF DownloadFile
<1>7. Shapes'
  <2>1. file' \in Disks /\ target' \in [Peers -> Paths]
    <3>1. [c \in Chunks |-> Fives] \in [Chunks -> Chunk]
      BY DEF Fives, Chunk
    <3> QED
      BY <1>1, <1>12, <3>1 DEF Shapes, Disks
  <2>3. downloads' \in 0..MaxDownloads
    BY <1>1, <1>6, BoundsAssumption DEF Shapes
  <2>2. /\ filechunks_map' = [q \in Peers |-> filechunks_map'[q]]
        /\ phase' = [q \in Peers |-> phase'[q]]
        /\ seeders' = [q \in Peers |-> seeders'[q]]
    BY <1>1, <1>3, <1>6 DEF Shapes
  <2> QED
    BY <1>1, <1>2, <2>1, <2>2, <2>3 DEF Shapes
<1>8. Job(p)'
  <2>1. Job(p)
    BY <1>1, JobsAre
  <2>2. answers[p] = <<>> /\ thread[p] = [c \in Chunks |-> NoThread]
    BY <1>6, <2>1 DEF Job, JobOK
  <2>3. phase'[p] = "poll" /\ seeders'[p] = s /\ filechunks_map'[p] = {}
    BY <1>1, <1>3, <1>6 DEF Shapes
  <2>4. Honest(s, <<>>, steady')
    BY <1>4, <1>5 DEF Honest
  <2>5. Len(<<>>) < Len(s) /\ <<>> \in Seq(Answer)
    BY <1>4, <1>5
  <2>6. JobOK("poll", s, <<>>, [c \in Chunks |-> NoThread], {}, steady')
    BY <1>5, <2>4, <2>5 DEF JobOK, Phase
  <2> QED
    BY <1>2, <2>2, <2>3, <2>6 DEF Job
<1>9. ASSUME NEW q \in Peers, q # p PROVE Job(q)'
  <2>1. Job(q)
    BY <1>1, JobsAre
  <2>2. phase'[q] = phase[q] /\ seeders'[q] = seeders[q] /\ filechunks_map'[q] = filechunks_map[q]
    BY <1>1, <1>3, <1>6, <1>9 DEF Shapes
  <2> QED
    BY <1>2, <2>1, <2>2, JobIsLeft
<1>10. Jobs'
  BY <1>8, <1>9 DEF Jobs, Job
<1>11. Steadfast'
  <2>2. \A u \in steady' : u \in Peers /\ u # p /\ u \in steady
    BY <1>1, <1>2, PeersAssumption DEF Shapes
  <2>3. \A u \in steady' : phase'[u] = phase[u]
    BY <1>1, <1>6, <2>2 DEF Shapes
  <2> QED
    BY <1>1, <1>2, <2>2, <2>3 DEF Steadfast
<1> QED
  BY <1>7, <1>10, <1>11 DEF IInv

LEMMA AskChunksOK ==
  ASSUME IInv, NEW p \in Peers, AskChunks(p)
  PROVE  IInv'
<1>1. Shapes /\ Jobs /\ Steadfast
  BY DEF IInv
<1>2. /\ UNCHANGED <<up, listed, path, file, target, filechunks_map, seeders, answers, thread,
                     completed, steady, downloads, kills, starts, stops>>
      /\ phase[p] = "poll" /\ phase' = [phase EXCEPT ![p] = "asked"]
  BY DEF AskChunks, shares, history, bounds
<1>3. /\ phase'[p] = "asked" /\ phase' = [q \in Peers |-> phase'[q]]
      /\ \A q \in Peers : q # p => phase'[q] = phase[q]
  BY <1>1, <1>2 DEF Shapes
<1>4. Shapes'
  BY <1>1, <1>2, <1>3 DEF Shapes
<1>5. Job(p)'
  <2>1. PICK se, an, th, fm, st : /\ se = seeders[p] /\ an = answers[p] /\ th = thread[p]
                                  /\ fm = filechunks_map[p] /\ st = steady
    OBVIOUS
  <2>2. JobOK("poll", se, an, th, fm, st)
    BY <1>1, <1>2, <2>1, JobsAre DEF Job
  <2>3. JobOK("asked", se, an, th, fm, st)
    BY <2>2 DEF JobOK, Phase
  <2> QED
    BY <1>2, <1>3, <2>1, <2>3 DEF Job
<1>6. ASSUME NEW q \in Peers, q # p PROVE Job(q)'
  <2>1. Job(q)
    BY <1>1, JobsAre
  <2> QED
    BY <1>2, <1>3, <1>6, <2>1, JobIsLeft
<1>7. Jobs'
  BY <1>5, <1>6 DEF Jobs, Job
<1>8. Steadfast'
  <2>1. \A v \in steady : v \in Peers /\ v # p
    BY <1>1, <1>2, PeersAssumption DEF Shapes, Steadfast
  <2> QED
    BY <1>1, <1>2, <1>3, <2>1 DEF Steadfast
<1> QED
  BY <1>4, <1>7, <1>8 DEF IInv

\* An answer comes that a steady seeder may have given.
LEMMA AnsweredOK ==
  ASSUME IInv, NEW p \in Peers, phase[p] \in {"asked", "cut"},
         NEW ga \in Answer, Polled(p) \in steady => ga = NoEntry, Answered(p, ga)
  PROVE  IInv'
<1>1. Shapes /\ Jobs /\ Steadfast
  BY DEF IInv
<1>2. UNCHANGED <<up, listed, path, file, target, filechunks_map, seeders, completed, steady,
                  downloads, kills, starts, stops>>
  BY DEF Answered, shares, history, bounds
<1>3. PICK u : u = Polled(p)
  OBVIOUS
<1>4. PICK an : an = Append(answers[p], ga)
  OBVIOUS
<1>5. /\ answers' = [answers EXCEPT ![p] = an]
      /\ \/ /\ Len(an) < Len(seeders[p]) /\ UNCHANGED thread
            /\ phase' = [phase EXCEPT ![p] = "poll"]
         \/ /\ ~(Len(an) < Len(seeders[p]))
            /\ phase' = [phase EXCEPT ![p] = "fetch"]
            /\ thread' = [thread EXCEPT ![p] = [c \in Chunks |->
                 [pc |-> "connect", seeder |-> FirstSeeder(an, c), attempts |-> 0]]]
  BY <1>4 DEF Answered
<1>6. PICK se, old, st : se = seeders[p] /\ old = answers[p] /\ st = steady
  OBVIOUS
<1>7. /\ se \in Seq(Peers) /\ old \in Seq(Answer) /\ Len(old) < Len(se) /\ Honest(se, old, st)
      /\ thread[p] = [c \in Chunks |-> NoThread] /\ filechunks_map[p] \in SUBSET Chunks
  <2>1. Job(p)
    BY <1>1, JobsAre
  <2> QED
    BY <1>2, <1>6, <2>1 DEF Job, JobOK
<1>8. u = se[Len(old) + 1] /\ u \in Peers
  <2>1. u = se[Len(old) + 1]
    BY <1>3, <1>6 DEF Polled
  <2>2. Len(old) + 1 \in 1..Len(se)
    BY <1>7
  <2> QED
    BY <1>7, <2>1, <2>2
<1>9. u \in st => ga = NoEntry
  BY <1>3, <1>6
<1>11. PICK k \in Nat : k = Len(old)
  BY <1>7
<1>12. PICK n \in Nat : n = Len(se)
  BY <1>7
<1>13. /\ an \in Seq(Answer) /\ Len(an) = k + 1 /\ DOMAIN an = 1..(k + 1) /\ an[k + 1] = ga
       /\ \A i \in 1..k : an[i] = old[i]
  <2>1. an = Append(old, ga) /\ ga \in Answer
    BY <1>4, <1>6
  <2> QED
    BY <1>7, <1>11, <2>1
<1>14. Honest(se, an, st)
  <2>1. k + 1 <= n
    BY <1>7, <1>11, <1>12
  <2>2. ASSUME NEW i \in 1..(k + 1), se[i] \in st PROVE an[i] = NoEntry
    <3>1. CASE i = k + 1
      BY <3>1, <2>2, <1>8, <1>9, <1>11, <1>13
    <3>2. CASE i # k + 1
      <4>1. i \in 1..k
        BY <3>2
      <4>2. i \in DOMAIN old
        BY <4>1, <1>7, <1>11
      <4> QED
        BY <4>1, <4>2, <2>2, <1>7, <1>13 DEF Honest
    <3> QED
      BY <3>1, <3>2
  <2> QED
    BY <1>12, <1>13, <2>1, <2>2 DEF Honest
<1>15. /\ answers'[p] = an /\ seeders'[p] = se /\ steady' = st /\ filechunks_map'[p] = filechunks_map[p]
       /\ answers' = [q \in Peers |-> answers'[q]]
       /\ \A q \in Peers : q # p => answers'[q] = answers[q]
  BY <1>1, <1>2, <1>5, <1>6 DEF Shapes
<1>16. ASSUME NEW q \in Peers, q # p, phase'[q] = phase[q], thread'[q] = thread[q] PROVE Job(q)'
  <2>1. Job(q)
    BY <1>1, JobsAre
  <2> QED
    BY <1>2, <1>15, <1>16, <2>1, JobIsLeft
<1>19. \A v \in steady : v \in Peers /\ v # p
  BY <1>1, PeersAssumption DEF Shapes, Steadfast
<1>17. CASE /\ Len(an) < Len(seeders[p]) /\ UNCHANGED thread
            /\ phase' = [phase EXCEPT ![p] = "poll"]
  <2>1. JobOK("poll", se, an, [c \in Chunks |-> NoThread], filechunks_map[p], st)
    BY <1>6, <1>7, <1>13, <1>14, <1>17 DEF JobOK, Phase
  <2>6. /\ phase'[p] = "poll" /\ phase' = [q \in Peers |-> phase'[q]]
        /\ \A q \in Peers : q # p => phase'[q] = phase[q]
    BY <1>1, <1>17 DEF Shapes
  <2>2. Job(p)'
    BY <1>2, <1>7, <1>15, <1>17, <2>1, <2>6 DEF Job
  <2>3. Jobs'
    BY <1>16, <1>17, <2>2, <2>6 DEF Jobs, Job
  <2>4. Shapes'
    BY <1>1, <1>2, <1>15, <1>17, <2>6 DEF Shapes
  <2>5. Steadfast'
    BY <1>1, <1>2, <1>19, <2>6 DEF Steadfast
  <2> QED
    BY <2>3, <2>4, <2>5 DEF IInv
<1>18. CASE /\ ~(Len(an) < Len(seeders[p]))
            /\ phase' = [phase EXCEPT ![p] = "fetch"]
            /\ thread' = [thread EXCEPT ![p] = [c \in Chunks |->
                 [pc |-> "connect", seeder |-> FirstSeeder(an, c), attempts |-> 0]]]
  <2>1. Len(an) = Len(se) /\ Len(se) # 0
    <3>1. k < n /\ ~(k + 1 < n)
      BY <1>6, <1>7, <1>11, <1>12, <1>13, <1>18
    <3>2. k + 1 = n /\ n # 0
      BY <3>1
    <3> QED
      BY <3>2, <1>12, <1>13
  <2>2. PICK th : th = [c \in Chunks |->
          [pc |-> "connect", seeder |-> FirstSeeder(an, c), attempts |-> 0]]
    OBVIOUS
  <2>3. \A c \in Chunks : ThreadOK(se, an, c, th[c], st)
    <3>1. ASSUME NEW c \in Chunks
          PROVE  ThreadOK(se, an, c,
                          [pc |-> "connect", seeder |-> FirstSeeder(an, c), attempts |-> 0], st)
      BY <1>7, <1>13, <1>14, <2>1, ThreadStarts
    <3> QED
      BY <2>2, <3>1
  <2>4. th = [c \in Chunks |-> th[c]]
    BY <2>2
  <2>5. JobOK("fetch", se, an, th, filechunks_map[p], st)
    BY <1>7, <1>13, <1>14, <2>1, <2>3, <2>4 DEF JobOK, Phase
  <2>6. /\ phase' = [phase EXCEPT ![p] = "fetch"]
        /\ thread' = [thread EXCEPT ![p] = th]
    BY <1>18, <2>2
  <2>7. /\ phase'[p] = "fetch" /\ thread'[p] = th
        /\ phase' = [q \in Peers |-> phase'[q]] /\ thread' = [q \in Peers |-> thread'[q]]
        /\ \A q \in Peers : q # p => phase'[q] = phase[q] /\ thread'[q] = thread[q]
    BY <1>1, <2>6 DEF Shapes
  <2>8. Job(p)'
    BY <1>2, <1>15, <2>5, <2>7 DEF Job
  <2>9. Jobs'
    BY <1>16, <2>7, <2>8 DEF Jobs, Job
  <2>10. Shapes'
    BY <1>1, <1>2, <1>15, <2>7 DEF Shapes
  <2>11. Steadfast'
    BY <1>1, <1>2, <1>19, <2>7 DEF Steadfast
  <2> QED
    BY <2>9, <2>10, <2>11 DEF IInv
<1> QED
  BY <1>5, <1>17, <1>18

LEMMA CalcChunkOK ==
  ASSUME IInv, NEW p \in Peers, CalcChunk(p) \/ CalcChunkCut(p)
  PROVE  IInv'
<1>1. Shapes /\ Jobs /\ Steadfast
  BY DEF IInv
<1>2. PICK u : u = Polled(p)
  OBVIOUS
<1>3. PICK ph, se, an, st : ph = phase[p] /\ se = seeders[p] /\ an = answers[p] /\ st = steady
  OBVIOUS
<1>4. ph \in {"asked", "cut"}
  BY <1>3 DEF CalcChunk, CalcChunkCut
<1>5. /\ se \in Seq(Peers) /\ an \in Seq(Answer) /\ Len(an) < Len(se)
      /\ (ph = "cut" => se[Len(an) + 1] \notin st)
  <2>1. Job(p)
    BY <1>1, JobsAre
  <2> QED
    BY <1>3, <1>4, <2>1 DEF Job, JobOK
<1>6. u = se[Len(an) + 1] /\ u \in Peers
  BY <1>2, <1>3, <1>5 DEF Polled
<1>7. CASE CalcChunk(p)
  <2>1. Job(u)
    BY <1>1, <1>6, JobsAre
  <2>2. phase[u] = "idle" => filechunks_map[u] = NoEntry
    BY <2>1 DEF Job, JobOK
  <2>3. phase[u] # "idle" => filechunks_map[u] \in SUBSET Chunks
    BY <2>1 DEF Job, JobOK
  <2>4. u \in steady => phase[u] = "idle"
    BY <1>1 DEF Steadfast
  <2>5. PICK ga : ga = filechunks_map[u]
    OBVIOUS
  <2>6. ga \in Answer /\ (u \in steady => ga = NoEntry)
    BY <2>2, <2>3, <2>4, <2>5 DEF Answer
  <2>7. Answered(p, ga) /\ phase[p] \in {"asked", "cut"}
    BY <1>2, <1>7, <2>5 DEF CalcChunk, GetChunkInfo
  <2> QED
    BY <1>2, <2>6, <2>7, AnsweredOK
<1>8. CASE CalcChunkCut(p)
  <2>1. Answered(p, {0}) /\ phase[p] = "cut"
    BY <1>8 DEF CalcChunkCut
  <2>2. u \notin steady
    BY <1>3, <1>5, <1>6, <2>1
  <2>3. {0} \in Answer
    BY BoundsAssumption DEF Answer, Chunks
  <2> QED
    BY <1>2, <2>1, <2>2, <2>3, AnsweredOK
<1> QED
  BY <1>7, <1>8

LEMMA FinishOK ==
  ASSUME IInv, NEW p \in Peers, Finish(p)
  PROVE  IInv'
<1>1. Shapes /\ Jobs /\ Steadfast
  BY DEF IInv
<1>2. /\ UNCHANGED <<up, listed, path, file, target, steady, downloads, kills, starts, stops>>
      /\ phase[p] = "fetch" /\ completed' = completed \cup {p}
      /\ filechunks_map' = [filechunks_map EXCEPT ![p] = NoEntry]
      /\ phase' = [phase EXCEPT ![p] = "idle"]
      /\ seeders' = [seeders EXCEPT ![p] = <<>>]
      /\ answers' = [answers EXCEPT ![p] = <<>>]
      /\ thread' = [thread EXCEPT ![p] = [c \in Chunks |-> NoThread]]
  BY DEF Finish, shares, bounds
<1>3. Shapes'
  BY <1>1, <1>2 DEF Shapes
<1>4. Job(p)'
  <2>1. /\ phase'[p] = "idle" /\ seeders'[p] = <<>> /\ answers'[p] = <<>>
        /\ thread'[p] = [c \in Chunks |-> NoThread] /\ filechunks_map'[p] = NoEntry
    BY <1>1, <1>2 DEF Shapes
  <2> QED
    BY <2>1, JobEnds DEF Job
<1>5. ASSUME NEW q \in Peers, q # p PROVE Job(q)'
  <2>1. Job(q)
    BY <1>1, JobsAre
  <2>2. /\ phase'[q] = phase[q] /\ seeders'[q] = seeders[q] /\ answers'[q] = answers[q]
        /\ thread'[q] = thread[q] /\ filechunks_map'[q] = filechunks_map[q]
    BY <1>1, <1>2, <1>5 DEF Shapes
  <2> QED
    BY <1>2, <2>1, <2>2, JobIsLeft
<1>6. Jobs'
  BY <1>4, <1>5 DEF Jobs, Job
<1>7. Steadfast'
  <2>1. \A v \in steady : v \in Peers /\ v # p
    BY <1>1, <1>2, PeersAssumption DEF Shapes, Steadfast
  <2>2. \A v \in Peers : v # p => phase'[v] = phase[v]
    BY <1>1, <1>2 DEF Shapes
  <2> QED
    BY <1>1, <1>2, <2>1, <2>2 DEF Steadfast
<1> QED
  BY <1>3, <1>6, <1>7 DEF IInv

\* What a thread's step leaves alone, and what its step must show.
LEMMA ThreadStepOK ==
  ASSUME IInv, NEW p \in Peers, NEW c \in Chunks, phase[p] = "fetch",
         NEW t, ThreadOK(seeders[p], answers[p], c, t, steady), Goto(p, c, t),
         UNCHANGED <<up, phase, target, seeders, answers, history, bounds>>,
         listed \subseteq listed', listed' \subseteq Peers, path' \in [Peers -> Paths],
         file' \in Disks,
         NEW fm \in SUBSET Chunks, filechunks_map' = [filechunks_map EXCEPT ![p] = fm]
  PROVE  IInv'
<1>1. Shapes /\ Jobs /\ Steadfast
  BY DEF IInv
<1>2. UNCHANGED <<up, phase, target, seeders, answers, completed, steady,
                  downloads, kills, starts, stops>>
  BY DEF bounds, history
<1>3. /\ Jobs' /\ Steadfast'
      /\ filechunks_map' = [q \in Peers |-> filechunks_map'[q]]
      /\ thread' = [q \in Peers |-> thread'[q]]
  BY <1>1, <1>2, ThreadStep
<1>4. Shapes'
  BY <1>1, <1>2, <1>3 DEF Shapes
<1> QED
  BY <1>3, <1>4 DEF IInv

LEMMA ConnectOK ==
  ASSUME IInv, NEW p \in Peers, NEW c \in Chunks, Connect(p, c)
  PROVE  IInv'
<1>1. Shapes /\ Jobs
  BY DEF IInv
<1>2. PICK me : me = thread[p][c]
  OBVIOUS
<1>3. /\ me.pc = "connect" /\ me.seeder # 0 /\ Goto(p, c, [me EXCEPT !.pc = "recv"])
      /\ UNCHANGED <<up, shares, file, filechunks_map, phase, target, seeders, answers,
                     history, bounds>>
  BY <1>2 DEF Connect
<1>4. /\ phase[p] = "fetch" /\ ThreadOK(seeders[p], answers[p], c, me, steady)
      /\ filechunks_map[p] \in SUBSET Chunks
  BY <1>1, <1>2, <1>3, ThreadRuns
<1>5. ThreadOK(seeders[p], answers[p], c, [me EXCEPT !.pc = "recv"], steady)
  <2>1. "recv" \in Fetching \cup {"connect"}
    BY DEF Fetching
  <2> QED
    BY <1>3, <1>4, <2>1, ThreadMoves
<1>6. filechunks_map' = [filechunks_map EXCEPT ![p] = filechunks_map[p]]
  BY <1>1, <1>3, MapIsItself
<1>7. /\ listed \subseteq listed' /\ listed' \subseteq Peers
      /\ path' \in [Peers -> Paths] /\ file' \in Disks
  BY <1>1, <1>3 DEF Shapes, shares
<1> QED
  BY <1>3, <1>4, <1>5, <1>6, <1>7, ThreadStepOK

LEMMA ConnectFailsOK ==
  ASSUME IInv, NEW p \in Peers, NEW c \in Chunks, ConnectFails(p, c)
  PROVE  IInv'
<1>1. Shapes /\ Jobs /\ Steadfast
  BY DEF IInv
<1>2. PICK me : me = thread[p][c]
  OBVIOUS
<1>3. PICK n : n = Len(seeders[p])
  OBVIOUS
<1>4. NextSeeder(p, c) = Advance(me, n)
  BY <1>2, <1>3 DEF NextSeeder, Advance
<1>5. /\ me.pc = "connect" /\ (me.seeder # 0 => seeders[p][me.seeder] \notin up)
      /\ Goto(p, c, Advance(me, n))
      /\ UNCHANGED <<up, shares, file, filechunks_map, phase, target, seeders, answers,
                     history, bounds>>
  BY <1>2, <1>4 DEF ConnectFails
<1>6. /\ phase[p] = "fetch" /\ ThreadOK(seeders[p], answers[p], c, me, steady)
      /\ filechunks_map[p] \in SUBSET Chunks /\ seeders[p] \in Seq(Peers)
  BY <1>1, <1>2, <1>5, ThreadRuns
<1>7. me.seeder # 0 => seeders[p][me.seeder] \notin steady
  BY <1>1, <1>5 DEF Steadfast
<1>8. ThreadOK(seeders[p], answers[p], c, Advance(me, n), steady)
  <2>1. PICK se, an, st : se = seeders[p] /\ an = answers[p] /\ st = steady
    OBVIOUS
  <2>2. /\ se \in Seq(Peers) /\ ThreadOK(se, an, c, me, st)
        /\ (me.seeder # 0 => se[me.seeder] \notin st) /\ n = Len(se)
    BY <1>3, <1>6, <1>7, <2>1
  <2>3. ThreadOK(se, an, c, Advance(me, n), st)
    BY <1>5, <2>2, ThreadAdvances
  <2> QED
    BY <2>1, <2>3
<1>9. filechunks_map' = [filechunks_map EXCEPT ![p] = filechunks_map[p]]
  BY <1>1, <1>5, MapIsItself
<1>10. /\ listed \subseteq listed' /\ listed' \subseteq Peers
       /\ path' \in [Peers -> Paths] /\ file' \in Disks
  BY <1>1, <1>5 DEF Shapes, shares
<1> QED
  BY <1>5, <1>6, <1>8, <1>9, <1>10, ThreadStepOK

\* RecvChunk and RecvCut go on to the check of the hash.
LEMMA ReceivesOK ==
  ASSUME IInv, NEW p \in Peers, NEW c \in Chunks, thread[p][c].pc \in {"recv", "cut"},
         UpdateServer(p, c), Goto(p, c, [thread[p][c] EXCEPT !.pc = "verify"]),
         UNCHANGED <<up, filechunks_map, phase, target, seeders, answers, history, bounds>>,
         file' \in Disks
  PROVE  IInv'
<1>1. Shapes /\ Jobs
  BY DEF IInv
<1>2. PICK me : me = thread[p][c]
  OBVIOUS
<1>3. me.pc # "none" /\ me.pc # "gaveup" /\ me.pc \in Fetching
  BY <1>2 DEF Fetching
<1>4. /\ phase[p] = "fetch" /\ ThreadOK(seeders[p], answers[p], c, me, steady)
      /\ filechunks_map[p] \in SUBSET Chunks
  BY <1>1, <1>2, <1>3, ThreadRuns
<1>5. me.seeder # 0
  BY <1>3, <1>4 DEF ThreadOK
<1>6. ThreadOK(seeders[p], answers[p], c, [me EXCEPT !.pc = "verify"], steady)
  <2>1. "verify" \in Fetching \cup {"connect"}
    BY DEF Fetching
  <2> QED
    BY <1>3, <1>4, <1>5, <2>1, ThreadMoves
<1>7. filechunks_map' = [filechunks_map EXCEPT ![p] = filechunks_map[p]]
  BY <1>1, MapIsItself
<1>8. listed \subseteq listed' /\ listed' \subseteq Peers /\ path' \in [Peers -> Paths]
  <2>1. CASE UNCHANGED shares
    BY <1>1, <2>1 DEF Shapes, shares
  <2>2. CASE listed' = listed \cup {p} /\ path' = [path EXCEPT ![p] = target[p]]
    BY <1>1, <2>2 DEF Shapes
  <2> QED
    BY <2>1, <2>2 DEF UpdateServer
<1>9. Goto(p, c, [me EXCEPT !.pc = "verify"])
  BY <1>2
<1> QED
  BY <1>4, <1>6, <1>7, <1>8, <1>9, ThreadStepOK

LEMMA SeederIsPeer ==
  ASSUME IInv, NEW p \in Peers, NEW c \in Chunks, thread[p][c].pc \in {"recv", "cut"}
  PROVE  /\ phase[p] = "fetch" /\ thread[p][c].seeder \in DOMAIN seeders[p]
         /\ seeders[p][thread[p][c].seeder] \in Peers
<1>1. Jobs
  BY DEF IInv
<1>2. PICK me : me = thread[p][c]
  OBVIOUS
<1>3. me.pc # "none" /\ me.pc \in Fetching
  BY <1>2 DEF Fetching
<1>4. PICK se : se = seeders[p]
  OBVIOUS
<1>5. phase[p] = "fetch" /\ ThreadOK(se, answers[p], c, me, steady) /\ se \in Seq(Peers)
  BY <1>1, <1>2, <1>3, <1>4, ThreadRuns
<1>6. me.seeder \in Nat /\ me.seeder # 0 /\ me.seeder <= Len(se)
  BY <1>3, <1>5 DEF ThreadOK, Thread
<1>7. me.seeder \in 1..Len(se)
  BY <1>5, <1>6
<1>8. me.seeder \in DOMAIN se /\ se[me.seeder] \in Peers
  BY <1>5, <1>7
<1> QED
  BY <1>2, <1>4, <1>5, <1>8

\* What a download writes at its path.
LEMMA Writes ==
  ASSUME Shapes, NEW p \in Peers, NEW x \in [Chunks -> Chunk],
         file' = [file EXCEPT ![p][target[p]] = x]
  PROVE  /\ file' \in Disks /\ file'[p][target[p]] = x
         /\ \A q \in Peers : q # p => file'[q] = file[q]
<1>1. file \in Disks /\ target[p] \in Paths
  BY DEF Shapes
<1> QED
  BY <1>1 DEF Disks

LEMMA CopiesAreChunks ==
  ASSUME Shapes, NEW p \in Peers
  PROVE  Shared(p) \in [Chunks -> Chunk] /\ Copy(p) \in [Chunks -> Chunk]
<1>1. file[p] \in [Paths -> [Chunks -> Chunk]] /\ target[p] \in Paths /\ path[p] \in Paths
  BY DEF Shapes, Disks
<1> QED
  BY <1>1 DEF Shared, Copy

LEMMA RecvChunkWrites ==
  ASSUME IInv, NEW p \in Peers, NEW c \in Chunks, RecvChunk(p, c),
         NEW u, u = seeders[p][thread[p][c].seeder]
  PROVE  /\ u \in Peers
         /\ \E spill \in BOOLEAN :
              /\ Received(Copy(p), Shared(u), c, spill) \in [Chunks -> Chunk]
              /\ file' = [file EXCEPT ![p][target[p]] = Received(Copy(p), Shared(u), c, spill)]
<1>1. PICK old, sent : old = Copy(p) /\ sent = Shared(u)
  OBVIOUS
<1>2. PICK spill \in BOOLEAN :
        file' = [file EXCEPT ![p][target[p]] = Received(Copy(p), Shared(u), c, spill)]
  BY DEF RecvChunk, Copy
<1>3. u \in Peers /\ Shapes
  BY SeederIsPeer DEF RecvChunk, IInv
<1>4. old \in [Chunks -> Chunk] /\ sent \in [Chunks -> Chunk]
  BY <1>1, <1>3, CopiesAreChunks
<1>5. \A x \in Chunk : [x EXCEPT !.head = FALSE] \in Chunk
  BY Zenon DEF Chunk
<1>6. Received(old, sent, c, spill) \in [Chunks -> Chunk]
  BY <1>4, <1>5 DEF Received
<1> QED
  BY <1>1, <1>2, <1>3, <1>6

LEMMA RecvChunkOK ==
  ASSUME IInv, NEW p \in Peers, NEW c \in Chunks, RecvChunk(p, c)
  PROVE  IInv'
<1>1. PICK x \in [Chunks -> Chunk] : file' = [file EXCEPT ![p][target[p]] = x]
  BY RecvChunkWrites
<1>2. file' \in Disks
  BY <1>1, Writes DEF IInv
<1> QED
  BY <1>2, ReceivesOK, Zenon DEF RecvChunk

LEMMA RecvCutWrites ==
  ASSUME IInv, NEW p \in Peers, NEW c \in Chunks, RecvCut(p, c)
  PROVE  \E part \in Chunk :
           file' = [file EXCEPT ![p][target[p]] = [Copy(p) EXCEPT ![c] = part]]
<1>1. PICK u : u = seeders[p][thread[p][c].seeder]
  OBVIOUS
<1>2. PICK old, new : old = Copy(p)[c] /\ new = Shared(u)[c]
  OBVIOUS
<1>3. PICK part \in {old, [old EXCEPT !.head = new.head],
                     [head |-> new.head, rest |-> old.rest /\ new.rest]} :
        file' = [file EXCEPT ![p][target[p]][c] = part]
  BY <1>1, <1>2, Zenon DEF RecvCut
<1>4. u \in Peers /\ Shapes
  BY <1>1, SeederIsPeer, Zenon DEF RecvCut, IInv
<1>5. Copy(p) \in [Chunks -> Chunk] /\ Shared(u) \in [Chunks -> Chunk]
  BY <1>4, CopiesAreChunks
<1>6. old \in Chunk /\ new \in Chunk
  BY <1>2, <1>5
<1>7. part \in Chunk
  <2>1. new.head \in BOOLEAN /\ (old.rest /\ new.rest) \in BOOLEAN
    BY <1>6 DEF Chunk
  <2>2. [old EXCEPT !.head = new.head] \in Chunk
    BY <1>6, <2>1 DEF Chunk
  <2>3. [head |-> new.head, rest |-> old.rest /\ new.rest] \in Chunk
    BY <2>1 DEF Chunk
  <2> QED
    BY <1>3, <1>6, <2>2, <2>3
<1>8. file' = [file EXCEPT ![p][target[p]] = [Copy(p) EXCEPT ![c] = part]]
  BY <1>3 DEF Copy
<1> QED
  BY <1>7, <1>8

LEMMA RecvCutOK ==
  ASSUME IInv, NEW p \in Peers, NEW c \in Chunks, RecvCut(p, c)
  PROVE  IInv'
<1>1. PICK part \in Chunk :
        file' = [file EXCEPT ![p][target[p]] = [Copy(p) EXCEPT ![c] = part]]
  BY RecvCutWrites
<1>2. Copy(p) \in [Chunks -> Chunk] /\ Shapes
  BY CopiesAreChunks DEF IInv
<1>3. [Copy(p) EXCEPT ![c] = part] \in [Chunks -> Chunk]
  BY <1>2
<1>4. file' \in Disks
  BY <1>1, <1>2, <1>3, Writes
<1> QED
  BY <1>4, ReceivesOK, Zenon DEF RecvCut

LEMMA VerifyOK ==
  ASSUME IInv, NEW p \in Peers, NEW c \in Chunks, Verify(p, c)
  PROVE  IInv'
<1>1. Shapes /\ Jobs
  BY DEF IInv
<1>2. PICK me : me = thread[p][c]
  OBVIOUS
<1>3. PICK q : q = IF Copy(p)[c] = Good THEN "got" ELSE "connect"
  OBVIOUS
<1>4. /\ me.pc = "verify" /\ Goto(p, c, [me EXCEPT !.pc = q])
      /\ UNCHANGED <<up, shares, file, phase, target, seeders, answers, history, bounds>>
      /\ filechunks_map' = IF Copy(p)[c] = Good
                           THEN [filechunks_map EXCEPT ![p] = @ \cup {c}]
                           ELSE filechunks_map
  BY <1>2, <1>3 DEF Verify
<1>5. me.pc # "none" /\ me.pc # "gaveup" /\ me.pc \in Fetching
  BY <1>4 DEF Fetching
<1>6. /\ phase[p] = "fetch" /\ ThreadOK(seeders[p], answers[p], c, me, steady)
      /\ filechunks_map[p] \in SUBSET Chunks
  BY <1>1, <1>2, <1>5, ThreadRuns
<1>7. me.seeder # 0
  BY <1>5, <1>6 DEF ThreadOK
<1>8. ThreadOK(seeders[p], answers[p], c, [me EXCEPT !.pc = q], steady)
  <2>1. q \in Fetching \cup {"connect"}
    BY <1>3 DEF Fetching
  <2> QED
    BY <1>5, <1>6, <1>7, <2>1, ThreadMoves
<1>9. PICK fm \in SUBSET Chunks : filechunks_map' = [filechunks_map EXCEPT ![p] = fm]
  <2>1. CASE Copy(p)[c] = Good
    <3>1. filechunks_map[p] \cup {c} \in SUBSET Chunks
      BY <1>6
    <3>2. filechunks_map' = [filechunks_map EXCEPT ![p] = filechunks_map[p] \cup {c}]
      BY <1>4, <2>1
    <3> QED
      BY <3>1, <3>2
  <2>2. CASE Copy(p)[c] # Good
    <3>1. filechunks_map' = [filechunks_map EXCEPT ![p] = filechunks_map[p]]
      BY <1>1, <1>4, <2>2, MapIsItself
    <3> QED
      BY <1>6, <3>1
  <2> QED
    BY <2>1, <2>2
<1>10. /\ listed \subseteq listed' /\ listed' \subseteq Peers
       /\ path' \in [Peers -> Paths] /\ file' \in Disks
  BY <1>1, <1>4 DEF Shapes, shares
<1> QED
  BY <1>4, <1>6, <1>8, <1>9, <1>10, ThreadStepOK

LEMMA TransferFailsOK ==
  ASSUME IInv, NEW p \in Peers, NEW c \in Chunks, TransferFails(p, c)
  PROVE  IInv'
<1>1. PICK u : u = seeders[p][thread[p][c].seeder]
  OBVIOUS
<1>2. thread[p][c].pc = "recv" /\ Stop(u) /\ UNCHANGED bounds
  BY <1>1 DEF TransferFails
<1>3. u \in Peers
  BY <1>1, <1>2, SeederIsPeer
<1> QED
  BY <1>2, <1>3, EndOK

LEMMA NextOK ==
  ASSUME IInv, [Next]_vars
  PROVE  IInv'
<1>1. CASE UNCHANGED vars
  <2>1. UNCHANGED <<up, listed, path, file, target, filechunks_map, phase, seeders, answers,
                    thread, completed, steady, downloads, kills, starts, stops>>
    BY <1>1 DEF vars, job, bounds, shares, history
  <2> QED
    BY <2>1 DEF IInv, Shapes, Jobs, Steadfast
<1>2. CASE Next
  <2>1. ASSUME NEW p \in Peers, DownloadFile(p) PROVE IInv'
    BY <2>1, DownloadFileOK
  <2>2. ASSUME NEW p \in Peers, GetChunks(p) PROVE IInv'
    <3>1. CASE AskChunks(p) \/ CalcChunk(p) \/ CalcChunkCut(p)
      BY <3>1, AskChunksOK, CalcChunkOK
    <3>2. CASE CalcChunkFails(p)
      BY <3>2, EndOK DEF CalcChunkFails
    <3>3. CASE Finish(p)
      BY <3>3, FinishOK
    <3> QED
      BY <2>2, <3>1, <3>2, <3>3 DEF GetChunks
  <2>3. ASSUME NEW p \in Peers, Kill(p) \/ Restart(p) \/ GroupStopShare(p) PROVE IInv'
    BY <2>3, KillOK, RestartOK, GroupStopShareOK
  <2>4. ASSUME NEW p \in Peers, NEW c \in Chunks, DownloadKernel(p, c) PROVE IInv'
    <3>1. CASE ReadsOutOfBounds(p, c)
      BY <3>1, EndOK DEF ReadsOutOfBounds
    <3> QED
      BY <2>4, <3>1, ConnectOK, ConnectFailsOK, RecvChunkOK, RecvCutOK, VerifyOK,
         TransferFailsOK DEF DownloadKernel
  <2> QED
    BY <1>2, <2>1, <2>2, <2>3, <2>4 DEF Next
<1> QED
  BY <1>1, <1>2

LEMMA Invariance == Spec => []IInv
<1>1. Init => IInv
  BY InitOK
<1>2. IInv /\ [Next]_vars => IInv'
  BY NextOK
<1> QED
  BY <1>1, <1>2, PTL DEF Spec

----------------------------------------------------------------------------
(* Round robin.                                                            *)

LEMMA Remainder ==
  ASSUME NEW n \in Nat, n # 0, NEW q \in Nat, NEW r \in 0..(n - 1)
  PROVE  (n * q + r) % n = r
OBVIOUS

LEMMA Quotient ==
  ASSUME NEW n \in Nat, n # 0, NEW c \in Nat
  PROVE  c % n \in 0..(n - 1) /\ \E q \in Nat : c = n * q + (c % n)
<1>1. c \div n \in Nat /\ c = n * (c \div n) + (c % n)
  OBVIOUS
<1>2. c % n \in 0..(n - 1)
  OBVIOUS
<1> QED
  BY <1>1, <1>2

\* The seat b before a in the same round, and the seat b after a in the last one.
LEMMA SeatBefore ==
  ASSUME NEW n \in Nat, n # 0, NEW c \in Nat, NEW a \in 0..(n - 1), c % n = a, NEW b \in 0..a
  PROVE  c - (a - b) \in Nat /\ c - (a - b) <= c /\ (c - (a - b)) % n = b
<1>1. PICK q \in Nat : c = n * q + a
  BY Quotient
<1>2. PICK m \in Nat : m = n * q
  OBVIOUS
<1>3. c - (a - b) = m + b /\ m + b \in Nat /\ m + b <= c
  BY <1>1, <1>2
<1>4. b \in 0..(n - 1)
  OBVIOUS
<1>5. (n * q + b) % n = b
  BY <1>4, Remainder
<1> QED
  BY <1>2, <1>3, <1>5

LEMMA SeatAfter ==
  ASSUME NEW n \in Nat, n # 0, NEW c \in Nat, NEW a \in 0..(n - 1), c % n = a, c # a,
         NEW b \in (a + 1)..(n - 1)
  PROVE  (c - n) + (b - a) \in Nat /\ (c - n) + (b - a) <= c /\ ((c - n) + (b - a)) % n = b
<1>1. PICK q \in Nat : c = n * q + a
  BY Quotient
<1>2. q # 0
  <2> SUFFICES ASSUME q = 0 PROVE FALSE
    OBVIOUS
  <2>1. n * q = 0
    OBVIOUS
  <2> QED
    BY <1>1, <2>1
<1>3. PICK r \in Nat : q = r + 1
  <2>1. q - 1 \in Nat /\ q = (q - 1) + 1
    BY <1>2
  <2> QED
    BY <2>1
<1>4. PICK m \in Nat : m = n * r
  OBVIOUS
<1>5. n * q = m + n
  BY <1>3, <1>4
<1>6. (c - n) + (b - a) = m + b /\ m + b \in Nat /\ m + b <= c
  BY <1>1, <1>4, <1>5
<1>7. b \in 0..(n - 1)
  OBVIOUS
<1>8. (n * r + b) % n = b
  BY <1>7, Remainder
<1> QED
  BY <1>4, <1>6, <1>8

\* The chunks of seeder k of n.
Share(n, k) == {c \in Chunks : (c % n) + 1 = k}

LEMMA SharesAreEven ==
  ASSUME NEW n \in Nat, n # 0, NEW i \in 1..n, NEW j \in 1..n
  PROVE  Cardinality(Share(n, i)) <= Cardinality(Share(n, j)) + 1
<1>1. Chunks \subseteq Nat /\ \A c \in Chunks, d \in Nat : d <= c => d \in Chunks
  BY BoundsAssumption DEF Chunks
<1>2. PICK a, b \in 0..(n - 1) : a = i - 1 /\ b = j - 1
  <2>1. i - 1 \in 0..(n - 1) /\ j - 1 \in 0..(n - 1)
    OBVIOUS
  <2> QED
    BY <2>1
<1>3. PICK I, J : I = Share(n, i) /\ J = Share(n, j)
  OBVIOUS
<1>4. \A c \in Chunks : (c \in I <=> c % n = a) /\ (c \in J <=> c % n = b)
  <2>1. ASSUME NEW c \in Chunks PROVE ((c % n) + 1 = i <=> c % n = a) /\ ((c % n) + 1 = j <=> c % n = b)
    <3>1. c % n \in 0..(n - 1)
      BY <1>1, Quotient
    <3> QED
      BY <1>2, <3>1
  <2> QED
    BY <1>3, <2>1 DEF Share
<1>5. I \subseteq Chunks /\ J \subseteq Chunks
  BY <1>3 DEF Share
<1>6. IsFiniteSet(I) /\ IsFiniteSet(J) /\ Cardinality(I) \in Nat /\ Cardinality(J) \in Nat
  BY <1>5, ChunksAreFinite, FS_Subset
<1>7. CASE b <= a
  <2> DEFINE f == [c \in I |-> c - (a - b)]
  <2>1. b \in 0..a
    BY <1>2, <1>7
  <2>2. ASSUME NEW c \in I PROVE c - (a - b) \in J
    <3>1. c \in Chunks /\ c \in Nat /\ c % n = a
      BY <1>1, <1>4, <1>5
    <3>2. c - (a - b) \in Nat /\ c - (a - b) <= c /\ (c - (a - b)) % n = b
      BY <2>1, <3>1, SeatBefore
    <3>3. c - (a - b) \in Chunks
      BY <1>1, <3>1, <3>2
    <3> QED
      BY <1>4, <3>2, <3>3
  <2>3. f \in [I -> J]
    BY <2>2
  <2>4. ASSUME NEW c \in I, NEW d \in I, f[c] = f[d] PROVE c = d
    <3>1. c \in Nat /\ d \in Nat
      BY <1>1, <1>5
    <3> QED
      BY <1>2, <2>4, <3>1
  <2>5. f \in Injection(I, J)
    <3> HIDE DEF f
    <3> QED
      BY <2>3, <2>4 DEF Injection, IsInjective
  <2>6. Cardinality(I) <= Cardinality(J)
    <3> HIDE DEF f
    <3> QED
      BY <1>6, <2>5, FS_Injection
  <2> QED
    BY <1>3, <1>6, <2>6
<1>8. CASE b > a
  <2> DEFINE I1 == I \ {a}
             f == [c \in I1 |-> (c - n) + (b - a)]
  <2>1. b \in (a + 1)..(n - 1)
    BY <1>2, <1>8
  <2>2. ASSUME NEW c \in I1 PROVE (c - n) + (b - a) \in J
    <3>1. c \in Chunks /\ c \in Nat /\ c % n = a /\ c # a
      BY <1>1, <1>4, <1>5
    <3>2. /\ (c - n) + (b - a) \in Nat /\ (c - n) + (b - a) <= c
          /\ ((c - n) + (b - a)) % n = b
      BY <2>1, <3>1, SeatAfter
    <3>3. (c - n) + (b - a) \in Chunks
      BY <1>1, <3>1, <3>2
    <3> QED
      BY <1>4, <3>2, <3>3
  <2>3. f \in [I1 -> J]
    BY <2>2
  <2>4. ASSUME NEW c \in I1, NEW d \in I1, f[c] = f[d] PROVE c = d
    <3>1. c \in Nat /\ d \in Nat
      BY <1>1, <1>5
    <3> QED
      BY <1>2, <2>4, <3>1
  <2>5. f \in Injection(I1, J)
    <3> HIDE DEF f, I1
    <3> QED
      BY <2>3, <2>4 DEF Injection, IsInjective
  <2>6. Cardinality(I1) <= Cardinality(J)
    <3> HIDE DEF f, I1
    <3> QED
      BY <1>6, <2>5, FS_Injection
  <2>7. Cardinality(I1) = IF a \in I THEN Cardinality(I) - 1 ELSE Cardinality(I)
    BY <1>6, FS_RemoveElement
  <2>8. Cardinality(I) <= Cardinality(J) + 1
    <3> HIDE DEF I1
    <3> QED
      BY <1>6, <2>6, <2>7
  <2> QED
    BY <1>3, <2>8
<1>9. b <= a \/ b > a
  BY <1>2
<1> QED
  BY <1>7, <1>8, <1>9

----------------------------------------------------------------------------
(* Downloads from originals.                                               *)

\* What a step of another peer leaves to q.
Left(q) ==
  /\ phase'[q] = phase[q] /\ seeders'[q] = seeders[q] /\ thread'[q] = thread[q]
  /\ filechunks_map'[q] = filechunks_map[q]
  /\ file'[q] = file[q] /\ target'[q] = target[q] /\ path'[q] = path[q]

LEMMA SourcesArePeers == Sources \subseteq Peers
BY PeersAssumption DEF Sources

LEMMA ContentsInit ==
  ASSUME Init
  PROVE  Contents
<1>1. Pristine
  <2> SUFFICES ASSUME NEW u \in Sources
               PROVE  phase[u] = "idle" /\ path[u] = Upload /\ Whole(Shared(u))
    BY DEF Pristine
  <2>1. u \in Peers /\ u \in Originals
    BY SourcesArePeers DEF Sources
  <2>2. phase[u] = "idle" /\ path[u] = Upload
    BY <2>1 DEF Init
  <2>3. file[u][Upload] = [c \in Chunks |-> Good]
    BY <2>1, PathsAssumption DEF Init
  <2> QED
    BY <2>2, <2>3 DEF Whole, Shared
<1>2. ASSUME NEW p \in Peers PROVE Recorded(p)
  <2>1. phase[p] = "idle" /\ \A c \in Chunks : thread[p][c] = NoThread
    BY DEF Init
  <2> QED
    BY <2>1 DEF Recorded, NoThread
<1> QED
  BY <1>1, <1>2 DEF Contents

\* The three things a step has to show of a peer.
LEMMA RecordedMeans ==
  ASSUME NEW p
  PROVE  Recorded(p)' <=>
         /\ (\A i \in DOMAIN seeders'[p] : seeders'[p][i] \in Sources) =>
              \A c \in Chunks : thread'[p][c].pc = "got" => file'[p][target'[p]][c] = Good
         /\ phase'[p] # "idle" =>
              \A c \in Chunks : c \in filechunks_map'[p] => thread'[p][c].pc = "got"
BY DEF Recorded, FromOriginals, Copy, Sources

LEMMA PristineMeans ==
  Pristine' <=> \A u \in Sources :
                  /\ phase'[u] = "idle" /\ path'[u] = Upload
                  /\ \A c \in Chunks : file'[u][path'[u]][c] = Good
BY DEF Pristine, Whole, Shared, Sources

LEMMA RecordedStays ==
  ASSUME NEW q, Recorded(q), Left(q)
  PROVE  Recorded(q)'
BY RecordedMeans DEF Recorded, FromOriginals, Copy, Sources, Left

LEMMA PristineStays ==
  ASSUME Pristine, \A u \in Sources : /\ phase'[u] = "idle" /\ path'[u] = path[u]
                                      /\ file'[u] = file[u]
  PROVE  Pristine'
BY PristineMeans DEF Pristine, Whole, Shared

\* A step of a peer that is not a source, seen from the others.
LEMMA ContentsStep ==
  ASSUME Contents, NEW p \in Peers, p \notin Sources,
         \A q \in Peers : q # p => Left(q), Recorded(p)'
  PROVE  Contents'
<1>1. Pristine'
  <2>1. \A u \in Sources : Left(u) /\ phase[u] = "idle"
    BY SourcesArePeers DEF Contents, Pristine
  <2> QED
    BY <2>1, PristineStays DEF Contents, Left
<1>2. \A q \in Peers : Recorded(q)'
  BY RecordedStays DEF Contents
<1> QED
  BY <1>1, <1>2 DEF Contents

LEMMA BusyIsNoSource ==
  ASSUME Contents, NEW p, phase[p] # "idle"
  PROVE  p \notin Sources
BY DEF Contents, Pristine

\* A process ends, that of a seeder or of a peer that downloads.
LEMMA ContentsStop ==
  ASSUME IInv, Contents, NEW u \in Peers, Stop(u)
  PROVE  Contents'
<1>1. Shapes /\ Jobs /\ UNCHANGED <<path, file, target>>
  BY DEF IInv, Stop, shares
<1>2. Pristine'
  <2>1. \A v \in Sources : v \in Peers /\ phase[v] = "idle"
    BY SourcesArePeers DEF Contents, Pristine
  <2>2. \A v \in Sources : phase'[v] = "idle"
    BY <1>1, <2>1, StopsOneself, OthersAtStop
  <2> QED
    BY <1>1, <2>2, PristineStays DEF Contents
<1>3. Recorded(u)'
  <2>1. Job(u)' /\ phase'[u] = "idle"
    BY <1>1, StopsOneself
  <2>2. thread'[u] = [c \in Chunks |-> NoThread]
    BY <2>1 DEF Job, JobOK
  <2>3. \A c \in Chunks : thread'[u][c].pc # "got"
    BY <2>2 DEF NoThread
  <2> QED
    BY <2>1, <2>3, RecordedMeans
<1>4. ASSUME NEW p \in Peers, p # u PROVE Recorded(p)'
  <2>1. /\ \/ phase'[p] = phase[p]
           \/ phase[p] = "asked" /\ Polled(p) = u /\ phase'[p] = "cut"
        /\ seeders'[p] = seeders[p]
        /\ filechunks_map'[p] = filechunks_map[p]
        /\ \A c \in Chunks : \/ thread'[p][c] = thread[p][c]
                             \/ /\ thread[p][c].pc = "recv"
                                /\ thread'[p][c] = [thread[p][c] EXCEPT !.pc = "cut"]
    BY <1>1, <1>4, OthersAtStop
  <2>2. ASSUME NEW c \in Chunks PROVE thread'[p][c].pc = "got" <=> thread[p][c].pc = "got"
    <3>1. CASE thread'[p][c] = thread[p][c]
      BY <3>1
    <3>2. CASE /\ thread[p][c].pc = "recv"
               /\ thread'[p][c] = [thread[p][c] EXCEPT !.pc = "cut"]
      <4>1. PICK t : t = thread[p][c]
        OBVIOUS
      <4>2. t \in Thread
        BY <1>1, <3>2, <4>1, ThreadRuns DEF ThreadOK
      <4>3. [t EXCEPT !.pc = "cut"].pc = "cut"
        BY <4>2 DEF Thread
      <4> QED
        BY <3>2, <4>1, <4>3
    <3> QED
      BY <2>1, <3>1, <3>2
  <2>3. Recorded(p) /\ (phase'[p] # "idle" => phase[p] # "idle")
    BY <2>1 DEF Contents
  <2> QED
    BY <1>1, <2>1, <2>2, <2>3, RecordedMeans DEF Recorded, FromOriginals, Copy, Sources
<1> QED
  BY <1>2, <1>3, <1>4 DEF Contents

\* A thread takes a step; what it writes beside its chunk leaves the copy alone if
\* it comes from a source.
LEMMA ContentsThread ==
  ASSUME IInv, Contents, NEW p \in Peers, NEW c \in Chunks,
         thread[p][c].pc \notin {"none", "got"},
         NEW t, Goto(p, c, t), UNCHANGED <<phase, target, seeders>>,
         \A q \in Peers : q # p => /\ file'[q] = file[q] /\ path'[q] = path[q]
                                   /\ filechunks_map'[q] = filechunks_map[q],
         FromOriginals(p) =>
           \A e \in Chunks : e # c => file'[p][target[p]][e] = file[p][target[p]][e],
         t.pc = "got" => file'[p][target[p]][c] = Good,
         filechunks_map'[p] = filechunks_map[p]
           \/ (filechunks_map'[p] = filechunks_map[p] \cup {c} /\ t.pc = "got")
  PROVE  Contents'
<1>1. Shapes /\ Jobs
  BY DEF IInv
<1>2. PICK th : th = thread[p]
  OBVIOUS
<1>3. phase[p] = "fetch"
  BY <1>1, ThreadRuns
<1>4. th = [e \in Chunks |-> th[e]]
  <2>1. Job(p)
    BY <1>1, JobsAre
  <2> QED
    BY <1>2, <1>3, <2>1 DEF Job, JobOK
<1>5. thread'[p] = [th EXCEPT ![c] = t] /\ \A q \in Peers : q # p => thread'[q] = thread[q]
  BY <1>1, <1>2 DEF Shapes, Goto
<1>6. thread'[p][c] = t /\ \A e \in Chunks : e # c => thread'[p][e] = thread[p][e]
  BY <1>2, <1>4, <1>5
<1>7. Recorded(p)
  BY DEF Contents
<1>8. ASSUME \A i \in DOMAIN seeders'[p] : seeders'[p][i] \in Sources,
             NEW e \in Chunks, thread'[p][e].pc = "got"
      PROVE  file'[p][target'[p]][e] = Good
  <2>1. FromOriginals(p)
    BY <1>8 DEF FromOriginals, Sources
  <2>2. CASE e = c
    BY <1>6, <1>8, <2>2
  <2>3. CASE e # c
    BY <1>6, <1>7, <1>8, <2>1, <2>3 DEF Recorded, Copy
  <2> QED
    BY <2>2, <2>3
<1>9. c \notin filechunks_map[p]
  BY <1>3, <1>7 DEF Recorded
<1>10. ASSUME NEW e \in Chunks, e \in filechunks_map'[p] PROVE thread'[p][e].pc = "got"
  <2>1. CASE e = c
    BY <1>6, <1>9, <1>10, <2>1
  <2>2. CASE e # c
    <3>1. e \in filechunks_map[p]
      BY <1>10, <2>2
    <3>2. thread[p][e].pc = "got"
      BY <1>3, <1>7, <3>1 DEF Recorded
    <3> QED
      BY <1>6, <2>2, <3>2
  <2> QED
    BY <2>1, <2>2
<1>11. Recorded(p)'
  BY <1>8, <1>10, RecordedMeans
<1>12. p \notin Sources
  BY <1>3, BusyIsNoSource
<1>13. \A q \in Peers : q # p => Left(q)
  BY <1>5 DEF Left
<1> QED
  BY <1>11, <1>12, <1>13, ContentsStep

LEMMA ContentsDownloadFile ==
  ASSUME IInv, Contents, NEW p \in Peers, DownloadFile(p)
  PROVE  Contents'
<1>1. Shapes /\ Jobs
  BY DEF IInv
<1>2. /\ phase' = [phase EXCEPT ![p] = "poll"] /\ phase[p] = "idle"
      /\ filechunks_map' = [filechunks_map EXCEPT ![p] = {}]
      /\ UNCHANGED <<path, thread>>
  BY DEF DownloadFile, shares
<1>3. PICK s : seeders' = [seeders EXCEPT ![p] = s]
  BY DEF DownloadFile
<1>4. PICK d \in Paths : /\ target' = [target EXCEPT ![p] = d]
                         /\ file' = [file EXCEPT ![p][d] = [c \in Chunks |-> Fives]]
  BY DEF DownloadFile
<1>5. p \notin Sources
  BY DEF DownloadFile, Sources
<1>6. \A q \in Peers : q # p => Left(q)
  BY <1>1, <1>2, <1>3, <1>4 DEF Shapes, Disks, Left
<1>7. thread[p] = [c \in Chunks |-> NoThread]
  <2>1. Job(p)
    BY <1>1, JobsAre
  <2> QED
    BY <1>2, <2>1 DEF Job, JobOK
<1>8. \A c \in Chunks : thread'[p][c].pc # "got"
  BY <1>2, <1>7 DEF NoThread
<1>9. filechunks_map'[p] = {}
  BY <1>1, <1>2 DEF Shapes
<1>10. Recorded(p)'
  BY <1>8, <1>9, RecordedMeans
<1> QED
  BY <1>5, <1>6, <1>10, ContentsStep

\* The polls, up to the start of the threads.
LEMMA ContentsPoll ==
  ASSUME IInv, Contents, NEW p \in Peers, AskChunks(p) \/ CalcChunk(p) \/ CalcChunkCut(p)
  PROVE  Contents'
<1>1. Shapes /\ Jobs
  BY DEF IInv
<1>2. /\ phase[p] \in {"poll", "asked", "cut"}
      /\ UNCHANGED <<path, file, target, filechunks_map, seeders>>
      /\ \E x : phase' = [phase EXCEPT ![p] = x]
      /\ \/ UNCHANGED thread
         \/ \E an : thread' = [thread EXCEPT ![p] = [c \in Chunks |->
                [pc |-> "connect", seeder |-> FirstSeeder(an, c), attempts |-> 0]]]
  <2>1. CASE AskChunks(p)
    BY <2>1 DEF AskChunks, shares
  <2>2. ASSUME NEW ga, Answered(p, ga)
        PROVE  /\ UNCHANGED <<path, file, target, filechunks_map, seeders>>
               /\ \E x : phase' = [phase EXCEPT ![p] = x]
               /\ \/ UNCHANGED thread
                  \/ \E an : thread' = [thread EXCEPT ![p] = [c \in Chunks |->
                       [pc |-> "connect", seeder |-> FirstSeeder(an, c), attempts |-> 0]]]
    BY <2>2 DEF Answered, shares
  <2> QED
    BY <2>1, <2>2 DEF CalcChunk, CalcChunkCut
<1>3. \A c \in Chunks : thread[p][c].pc # "got"
  <2>1. Job(p)
    BY <1>1, JobsAre
  <2>2. thread[p] = [c \in Chunks |-> NoThread]
    BY <1>2, <2>1 DEF Job, JobOK
  <2> QED
    BY <2>2 DEF NoThread
<1>4. \A c \in Chunks : c \notin filechunks_map'[p]
  BY <1>2, <1>3 DEF Contents, Recorded
<1>5. \A c \in Chunks : thread'[p][c].pc # "got"
  <2>1. CASE UNCHANGED thread
    BY <1>3, <2>1
  <2>2. ASSUME NEW an, thread' = [thread EXCEPT ![p] = [c \in Chunks |->
                 [pc |-> "connect", seeder |-> FirstSeeder(an, c), attempts |-> 0]]]
        PROVE  \A c \in Chunks : thread'[p][c].pc # "got"
    <3>1. thread'[p] = [c \in Chunks |->
                 [pc |-> "connect", seeder |-> FirstSeeder(an, c), attempts |-> 0]]
      BY <1>1, <2>2 DEF Shapes
    <3> QED
      BY <3>1
  <2> QED
    BY <1>2, <2>1, <2>2
<1>6. Recorded(p)'
  BY <1>4, <1>5, RecordedMeans
<1>7. \A q \in Peers : q # p => Left(q)
  <2>1. \A q \in Peers : q # p => phase'[q] = phase[q]
    BY <1>1, <1>2 DEF Shapes
  <2>2. \A q \in Peers : q # p => thread'[q] = thread[q]
    BY <1>1, <1>2 DEF Shapes
  <2> QED
    BY <1>2, <2>1, <2>2 DEF Left
<1>8. p \notin Sources
  BY <1>2, BusyIsNoSource
<1> QED
  BY <1>6, <1>7, <1>8, ContentsStep

LEMMA ContentsFinish ==
  ASSUME IInv, Contents, NEW p \in Peers, Finish(p)
  PROVE  Contents'
<1>1. Shapes
  BY DEF IInv
<1>2. /\ UNCHANGED <<path, file, target>> /\ phase[p] = "fetch"
      /\ phase' = [phase EXCEPT ![p] = "idle"]
      /\ filechunks_map' = [filechunks_map EXCEPT ![p] = NoEntry]
      /\ seeders' = [seeders EXCEPT ![p] = <<>>]
      /\ thread' = [thread EXCEPT ![p] = [c \in Chunks |-> NoThread]]
  BY DEF Finish, shares
<1>3. phase'[p] = "idle" /\ thread'[p] = [c \in Chunks |-> NoThread]
  BY <1>1, <1>2 DEF Shapes
<1>4. \A c \in Chunks : thread'[p][c].pc # "got"
  BY <1>3 DEF NoThread
<1>5. Recorded(p)'
  BY <1>3, <1>4, RecordedMeans
<1>6. \A q \in Peers : q # p => Left(q)
  BY <1>1, <1>2 DEF Shapes, Left
<1>7. p \notin Sources
  BY <1>2, BusyIsNoSource
<1> QED
  BY <1>5, <1>6, <1>7, ContentsStep

\* A step of a thread that writes nothing and does not finish its chunk.
LEMMA ContentsNoWrite ==
  ASSUME IInv, Contents, NEW p \in Peers, NEW c \in Chunks,
         thread[p][c].pc \notin {"none", "got"},
         NEW t, Goto(p, c, t), t.pc # "got",
         UNCHANGED <<path, file, target, filechunks_map, phase, seeders>>
  PROVE  Contents'
BY ContentsThread

LEMMA ContentsConnect ==
  ASSUME IInv, Contents, NEW p \in Peers, NEW c \in Chunks,
         Connect(p, c) \/ ConnectFails(p, c)
  PROVE  Contents'
<1>1. Jobs
  BY DEF IInv
<1>2. PICK me : me = thread[p][c]
  OBVIOUS
<1>3. me.pc = "connect" /\ UNCHANGED <<path, file, target, filechunks_map, phase, seeders>>
  BY <1>2 DEF Connect, ConnectFails, shares
<1>4. me \in Thread
  BY <1>1, <1>2, <1>3, ThreadRuns DEF ThreadOK
<1>5. CASE Connect(p, c)
  <2>1. PICK t : t = [me EXCEPT !.pc = "recv"]
    OBVIOUS
  <2>2. Goto(p, c, t)
    BY <1>2, <1>5, <2>1 DEF Connect
  <2>3. t.pc # "got"
    BY <1>4, <2>1 DEF Thread
  <2> QED
    BY <1>2, <1>3, <2>2, <2>3, ContentsNoWrite
<1>6. CASE ConnectFails(p, c)
  <2>1. PICK t : t = NextSeeder(p, c)
    OBVIOUS
  <2>2. Goto(p, c, t)
    BY <1>6, <2>1 DEF ConnectFails
  <2>3. t.pc # "got"
    <3>1. PICK n : n = Len(seeders[p])
      OBVIOUS
    <3>2. t = Advance(me, n)
      BY <1>2, <2>1, <3>1 DEF NextSeeder, Advance
    <3>3. [me EXCEPT !.pc = "gaveup", !.attempts = @ + 1].pc = "gaveup"
      BY <1>4 DEF Thread
    <3>4. [me EXCEPT !.seeder = (@ % n) + 1, !.attempts = @ + 1].pc = "connect"
      BY <1>3, <1>4 DEF Thread
    <3> QED
      BY <3>2, <3>3, <3>4 DEF Advance
  <2> QED
    BY <1>2, <1>3, <2>2, <2>3, ContentsNoWrite
<1> QED
  BY <1>5, <1>6

\* A thread has received and goes on to the check of the hash.
LEMMA ContentsReceives ==
  ASSUME IInv, Contents, NEW p \in Peers, NEW c \in Chunks,
         thread[p][c].pc \in {"recv", "cut"}, UpdateServer(p, c),
         Goto(p, c, [thread[p][c] EXCEPT !.pc = "verify"]),
         UNCHANGED <<filechunks_map, phase, target, seeders>>,
         NEW x \in [Chunks -> Chunk], file' = [file EXCEPT ![p][target[p]] = x],
         FromOriginals(p) => \A e \in Chunks : e # c => x[e] = file[p][target[p]][e]
  PROVE  Contents'
<1>1. Shapes /\ Jobs
  BY DEF IInv
<1>2. PICK me : me = thread[p][c]
  OBVIOUS
<1>3. me \in Thread
  BY <1>1, <1>2, ThreadRuns DEF ThreadOK
<1>4. PICK t : t = [me EXCEPT !.pc = "verify"]
  OBVIOUS
<1>5. t.pc = "verify" /\ Goto(p, c, t)
  BY <1>2, <1>3, <1>4 DEF Thread
<1>6. file'[p][target[p]] = x /\ \A q \in Peers : q # p => file'[q] = file[q]
  BY <1>1, Writes
<1>7. \A q \in Peers : q # p => path'[q] = path[q]
  <2>1. CASE UNCHANGED shares
    BY <2>1 DEF shares
  <2>2. CASE path' = [path EXCEPT ![p] = target[p]]
    BY <1>1, <2>2 DEF Shapes
  <2> QED
    BY <2>1, <2>2 DEF UpdateServer
<1>8. thread[p][c].pc \notin {"none", "got"}
  OBVIOUS
<1>9. FromOriginals(p) =>
        \A e \in Chunks : e # c => file'[p][target[p]][e] = file[p][target[p]][e]
  BY <1>6
<1> QED
  BY <1>5, <1>6, <1>7, <1>8, <1>9, ContentsThread

LEMMA ContentsRecvChunk ==
  ASSUME IInv, Contents, NEW p \in Peers, NEW c \in Chunks, RecvChunk(p, c)
  PROVE  Contents'
<1>1. PICK u : u = seeders[p][thread[p][c].seeder]
  OBVIOUS
<1>2. u \in Peers /\ \E spill \in BOOLEAN :
        /\ Received(Copy(p), Shared(u), c, spill) \in [Chunks -> Chunk]
        /\ file' = [file EXCEPT ![p][target[p]] = Received(Copy(p), Shared(u), c, spill)]
  BY <1>1, RecvChunkWrites
<1>3. PICK spill \in BOOLEAN :
        /\ Received(Copy(p), Shared(u), c, spill) \in [Chunks -> Chunk]
        /\ file' = [file EXCEPT ![p][target[p]] = Received(Copy(p), Shared(u), c, spill)]
  BY <1>2
<1>4. PICK x : x = Received(Copy(p), Shared(u), c, spill)
  OBVIOUS
<1>5. /\ thread[p][c].pc = "recv" /\ UpdateServer(p, c)
      /\ Goto(p, c, [thread[p][c] EXCEPT !.pc = "verify"])
      /\ UNCHANGED <<filechunks_map, phase, target, seeders>>
  BY Zenon DEF RecvChunk
<1>6. thread[p][c].seeder \in DOMAIN seeders[p]
  BY <1>5, SeederIsPeer
<1>7. ASSUME FromOriginals(p), NEW e \in Chunks, e # c PROVE x[e] = file[p][target[p]][e]
  <2>1. u \in Sources
    BY <1>1, <1>6, <1>7 DEF FromOriginals, Sources
  <2>2. Shared(u)[e] = Good
    BY <2>1 DEF Contents, Pristine, Whole
  <2>3. Shared(u)[e].head
    BY <2>2 DEF Good
  <2>4. x[e] = Copy(p)[e]
    BY <1>4, <1>7, <2>3 DEF Received
  <2> QED
    BY <2>4 DEF Copy
<1>8. /\ file' = [file EXCEPT ![p][target[p]] = x] /\ x \in [Chunks -> Chunk]
      /\ thread[p][c].pc \in {"recv", "cut"}
  BY <1>3, <1>4, <1>5
<1> QED
  BY <1>5, <1>7, <1>8, ContentsReceives, Zenon

LEMMA ContentsRecvCut ==
  ASSUME IInv, Contents, NEW p \in Peers, NEW c \in Chunks, RecvCut(p, c)
  PROVE  Contents'
<1>1. PICK part \in Chunk :
        file' = [file EXCEPT ![p][target[p]] = [Copy(p) EXCEPT ![c] = part]]
  BY RecvCutWrites
<1>2. Copy(p) \in [Chunks -> Chunk]
  BY CopiesAreChunks DEF IInv
<1>3. PICK x \in [Chunks -> Chunk] : x = [Copy(p) EXCEPT ![c] = part]
  BY <1>2
<1>4. \A e \in Chunks : e # c => x[e] = file[p][target[p]][e]
  BY <1>2, <1>3 DEF Copy
<1>5. /\ thread[p][c].pc = "cut" /\ UpdateServer(p, c)
      /\ Goto(p, c, [thread[p][c] EXCEPT !.pc = "verify"])
      /\ UNCHANGED <<filechunks_map, phase, target, seeders>>
  BY Zenon DEF RecvCut
<1>6. /\ file' = [file EXCEPT ![p][target[p]] = x] /\ x \in [Chunks -> Chunk]
      /\ thread[p][c].pc \in {"recv", "cut"}
  BY <1>1, <1>3, <1>5
<1> QED
  BY <1>4, <1>5, <1>6, ContentsReceives, Zenon

LEMMA ContentsVerify ==
  ASSUME IInv, Contents, NEW p \in Peers, NEW c \in Chunks, Verify(p, c)
  PROVE  Contents'
<1>1. Shapes /\ Jobs
  BY DEF IInv
<1>2. PICK me : me = thread[p][c]
  OBVIOUS
<1>3. PICK q : q = IF Copy(p)[c] = Good THEN "got" ELSE "connect"
  OBVIOUS
<1>4. PICK t : t = [me EXCEPT !.pc = q]
  OBVIOUS
<1>5. /\ me.pc = "verify" /\ Goto(p, c, t) /\ UNCHANGED <<path, file, phase, target, seeders>>
      /\ filechunks_map' = IF Copy(p)[c] = Good
                           THEN [filechunks_map EXCEPT ![p] = @ \cup {c}]
                           ELSE filechunks_map
  BY <1>2, <1>3, <1>4 DEF Verify, shares
<1>6. me \in Thread
  BY <1>1, <1>2, <1>5, ThreadRuns DEF ThreadOK
<1>7. t.pc = q
  BY <1>4, <1>6 DEF Thread
<1>8. /\ \/ filechunks_map'[p] = filechunks_map[p]
         \/ filechunks_map'[p] = filechunks_map[p] \cup {c} /\ t.pc = "got"
      /\ \A o \in Peers : o # p => filechunks_map'[o] = filechunks_map[o]
  <2>1. CASE Copy(p)[c] = Good
    <3>1. /\ filechunks_map'[p] = filechunks_map[p] \cup {c}
          /\ \A o \in Peers : o # p => filechunks_map'[o] = filechunks_map[o]
      BY <1>1, <1>5, <2>1 DEF Shapes
    <3> QED
      BY <1>3, <1>7, <2>1, <3>1
  <2>2. CASE Copy(p)[c] # Good
    BY <1>5, <2>2
  <2> QED
    BY <2>1, <2>2
<1>9. t.pc = "got" => file'[p][target[p]][c] = Good
  BY <1>3, <1>5, <1>7 DEF Copy
<1> QED
  BY <1>2, <1>5, <1>8, <1>9, ContentsThread

LEMMA ContentsNext ==
  ASSUME IInv, Contents, [Next]_vars
  PROVE  Contents'
<1>1. ASSUME UNCHANGED <<path, file, target, filechunks_map, phase, seeders, thread>>
      PROVE  Contents'
  <2>1. \A q : Left(q)
    BY <1>1 DEF Left
  <2>2. Pristine'
    BY <1>1, PristineStays DEF Contents, Pristine
  <2> QED
    BY <2>1, <2>2, RecordedStays DEF Contents
<1>2. CASE UNCHANGED vars
  BY <1>1, <1>2 DEF vars, job, shares
<1>3. CASE Next
  <2>1. ASSUME NEW p \in Peers, DownloadFile(p) PROVE Contents'
    BY <2>1, ContentsDownloadFile
  <2>2. ASSUME NEW p \in Peers, GetChunks(p) PROVE Contents'
    <3>1. CASE CalcChunkFails(p)
      BY <3>1, ContentsStop DEF CalcChunkFails
    <3> QED
      BY <2>2, <3>1, ContentsPoll, ContentsFinish DEF GetChunks
  <2>3. ASSUME NEW p \in Peers, Kill(p) PROVE Contents'
    BY <2>3, ContentsStop DEF Kill
  <2>4. ASSUME NEW p \in Peers, Restart(p) \/ GroupStopShare(p) PROVE Contents'
    BY <1>1, <2>4 DEF Restart, GroupStopShare, job, shares
  <2>5. ASSUME NEW p \in Peers, NEW c \in Chunks, DownloadKernel(p, c) PROVE Contents'
    <3>1. CASE Connect(p, c) \/ ConnectFails(p, c)
      BY <3>1, ContentsConnect
    <3>2. CASE ReadsOutOfBounds(p, c)
      BY <3>2, ContentsStop DEF ReadsOutOfBounds
    <3>3. CASE RecvChunk(p, c)
      BY <3>3, ContentsRecvChunk
    <3>4. CASE RecvCut(p, c)
      BY <3>4, ContentsRecvCut
    <3>5. CASE TransferFails(p, c)
      <4>1. PICK u : u = seeders[p][thread[p][c].seeder]
        OBVIOUS
      <4>2. thread[p][c].pc = "recv" /\ Stop(u)
        BY <3>5, <4>1 DEF TransferFails
      <4>3. u \in Peers
        BY <4>1, <4>2, SeederIsPeer
      <4> QED
        BY <4>2, <4>3, ContentsStop
    <3>6. CASE Verify(p, c)
      BY <3>6, ContentsVerify
    <3> QED
      BY <2>5, <3>1, <3>2, <3>3, <3>4, <3>5, <3>6 DEF DownloadKernel
  <2> QED
    BY <1>3, <2>1, <2>2, <2>3, <2>4, <2>5 DEF Next
<1> QED
  BY <1>2, <1>3

----------------------------------------------------------------------------
(* The theorems.                                                           *)

\* Whoever dies, restarts or stops sharing, the lists of seeders, the answers,
\* the threads' numbers of a seeder and of failed attempts of DownloadFile and
\* DownloadKernel stay within their bounds: no number is past the list.
THEOREM TypeCorrect == Spec => []TypeOK
<1>1. IInv => TypeOK
  <2> SUFFICES ASSUME IInv PROVE TypeOK
    OBVIOUS
  <2>1. Shapes /\ \A p \in Peers : Job(p)
    BY JobsAre DEF IInv
  <2>2. ASSUME NEW p \in Peers
        PROVE  /\ filechunks_map[p] \in Answer /\ phase[p] \in Phase
               /\ seeders[p] \in Seq(Peers) /\ answers[p] \in Seq(Answer)
               /\ Len(answers[p]) <= Len(seeders[p])
               /\ thread[p] \in [Chunks -> Thread]
               /\ \A c \in Chunks : /\ thread[p][c].seeder <= Len(seeders[p])
                                    /\ thread[p][c].attempts <= Len(seeders[p])
    <3>1. PICK ph, se, an, th, fm, st :
            /\ ph = phase[p] /\ se = seeders[p] /\ an = answers[p] /\ th = thread[p]
            /\ fm = filechunks_map[p] /\ st = steady
      OBVIOUS
    <3>2. JobOK(ph, se, an, th, fm, st)
      BY <2>1, <3>1 DEF Job
    <3>3. /\ ph \in Phase /\ se \in Seq(Peers) /\ an \in Seq(Answer)
          /\ Len(an) <= Len(se)
      BY <3>2 DEF JobOK, Honest
    <3>4. fm \in Answer
      BY <3>2 DEF JobOK, Answer
    <3>5. th \in [Chunks -> Thread] /\ \A c \in Chunks : th[c].seeder <= Len(se) /\ th[c].attempts <= Len(se)
      <4>1. CASE ph = "fetch"
        <5>1. /\ th = [c \in Chunks |-> th[c]]
              /\ \A c \in Chunks : ThreadOK(se, an, c, th[c], st)
          BY <3>2, <4>1 DEF JobOK
        <5>2. PICK n \in Nat : n = Len(se)
          BY <3>3
        <5>3. ASSUME NEW c \in Chunks PROVE th[c] \in Thread /\ th[c].seeder <= n /\ th[c].attempts <= n
          <6>1. PICK t : t = th[c]
            OBVIOUS
          <6>2. /\ t \in Thread /\ t.seeder <= n
                /\ IF t.pc = "gaveup" THEN t.attempts <= n ELSE t.attempts < n
            BY <5>1, <5>2, <6>1 DEF ThreadOK
          <6>3. t.attempts \in Nat
            BY <6>2 DEF Thread
          <6> QED
            BY <6>1, <6>2, <6>3
        <5>4. th \in [Chunks -> Thread]
          BY <5>1, <5>3
        <5> QED
          BY <5>2, <5>3, <5>4
      <4>2. CASE ph # "fetch"
        <5>1. th = [c \in Chunks |-> NoThread]
          BY <3>2, <4>2 DEF JobOK
        <5>2. NoThread \in Thread /\ NoThread.seeder = 0 /\ NoThread.attempts = 0
          BY DEF NoThread, Thread
        <5>3. PICK n \in Nat : n = Len(se)
          BY <3>3
        <5>4. 0 <= n
          OBVIOUS
        <5> QED
          BY <5>1, <5>2, <5>3, <5>4
      <4> QED
        BY <4>1, <4>2
    <3> QED
      BY <3>1, <3>3, <3>4, <3>5
  <2>3. /\ filechunks_map \in [Peers -> Answer]
        /\ phase \in [Peers -> Phase]
        /\ seeders \in [Peers -> Seq(Peers)]
        /\ answers \in [Peers -> Seq(Answer)]
        /\ thread \in [Peers -> [Chunks -> Thread]]
    <3>1. /\ filechunks_map = [p \in Peers |-> filechunks_map[p]]
          /\ phase = [p \in Peers |-> phase[p]]
          /\ seeders = [p \in Peers |-> seeders[p]]
          /\ answers = [p \in Peers |-> answers[p]]
          /\ thread = [p \in Peers |-> thread[p]]
      BY <2>1 DEF Shapes
    <3> QED
      BY <2>2, <3>1
  <2> QED
    BY <2>1, <2>2, <2>3 DEF Shapes, TypeOK, Disks
<1> QED
  BY <1>1, Invariance, PTL

\* A thread of DownloadKernel goes once round its seeders, from wherever it
\* started, and gives up only after each of them failed it: not one of them was
\* there all the time.
THEOREM GivingUpIsJustified == Spec => []GivesUpOnlyIfNoneReachable
<1>1. IInv => GivesUpOnlyIfNoneReachable
  <2> SUFFICES ASSUME IInv, NEW p \in Peers, NEW c \in Chunks, thread[p][c].pc = "gaveup",
                      NEW i \in DOMAIN seeders[p], seeders[p][i] \in steady
               PROVE  FALSE
    BY DEF GivesUpOnlyIfNoneReachable
  <2>1. ThreadOK(seeders[p], answers[p], c, thread[p][c], steady)
    BY ThreadRuns DEF IInv
  <2> QED
    BY <2>1 DEF ThreadOK
<1> QED
  BY <1>1, Invariance, PTL

\* The seeder number that GetChunks decides for a chunk: after the sort, of any
\* number of seeders, the first that has the chunk has the fewest chunks of those
\* that have it; round robin spreads any number of chunks evenly.
THEOREM SeedersChosenFairly == Spec => []SeedersAreChosenFairly
<1>1. IInv => SeedersAreChosenFairly
  <2> SUFFICES ASSUME IInv PROVE SeedersAreChosenFairly
    OBVIOUS
  <2>1. SUFFICES ASSUME NEW p \in Peers, phase[p] = "fetch"
                 PROVE  /\ \A c \in Chunks : thread[p][c].attempts = 0 =>
                             Lightest(answers[p], c, thread[p][c].seeder)
                        /\ (\A i \in DOMAIN answers[p] : answers[p][i] = NoEntry)
                             /\ {c \in Chunks : thread[p][c].attempts = 0} = Chunks =>
                           \A i, j \in DOMAIN answers[p] :
                             Cardinality({c \in Chunks : thread[p][c].seeder = i})
                               <= Cardinality({c \in Chunks : thread[p][c].seeder = j}) + 1
    BY DEF SeedersAreChosenFairly, Lightest
  <2>2. PICK se, an, th, st : se = seeders[p] /\ an = answers[p] /\ th = thread[p] /\ st = steady
    OBVIOUS
  <2>3. JobOK("fetch", se, an, th, filechunks_map[p], st)
    BY <2>1, <2>2, JobsAre DEF IInv, Job
  <2>4. /\ an \in Seq(Answer) /\ Len(an) # 0
        /\ \A c \in Chunks : ThreadOK(se, an, c, th[c], st)
    BY <2>3 DEF JobOK
  <2>5. \A c \in Chunks : th[c].attempts = 0 => th[c].seeder = FirstSeeder(an, c)
    BY <2>4 DEF ThreadOK
  <2>6. ASSUME NEW c \in Chunks, th[c].attempts = 0 PROVE Lightest(an, c, th[c].seeder)
    BY <2>4, <2>5, <2>6, FirstIsLightest
  <2>7. ASSUME \A i \in DOMAIN an : an[i] = NoEntry, {c \in Chunks : th[c].attempts = 0} = Chunks,
               NEW i \in DOMAIN an, NEW j \in DOMAIN an
        PROVE  Cardinality({c \in Chunks : th[c].seeder = i})
                 <= Cardinality({c \in Chunks : th[c].seeder = j}) + 1
    <3>1. PICK n \in Nat : n = Len(an) /\ DOMAIN an = 1..n /\ n # 0
      BY <2>4
    <3>2. \A c \in Chunks : th[c].seeder = (c % n) + 1
      BY <2>5, <2>7, <3>1 DEF FirstSeeder
    <3>3. \A k : {c \in Chunks : th[c].seeder = k} = Share(n, k)
      BY <3>2 DEF Share
    <3>4. Cardinality(Share(n, i)) <= Cardinality(Share(n, j)) + 1
      BY <2>7, <3>1, SharesAreEven
    <3> QED
      BY <3>3, <3>4
  <2> QED
    BY <2>2, <2>6, <2>7
<1> QED
  BY <1>1, Invariance, PTL

LEMMA ContentsInvariance == Spec => [](IInv /\ Contents)
<1>1. Init => IInv /\ Contents
  BY InitOK, ContentsInit
<1>2. (IInv /\ Contents) /\ [Next]_vars => (IInv /\ Contents)'
  BY NextOK, ContentsNext
<1> QED
  BY <1>1, <1>2, PTL DEF Spec

\* However many peers download and whoever dies: of a download from originals that
\* do not download themselves, filechunks_map tells other peers only of chunks that
\* match their hashes, although the threads of DownloadKernel write side by side
\* and a seeder sends a block too many.
THEOREM OriginalsRecordsMatch == Spec => []OriginalsChunksMatch
<1>1. IInv /\ Contents => OriginalsChunksMatch
  <2> SUFFICES ASSUME IInv, Contents, NEW p \in Peers, NEW c \in Chunks, FromOriginals(p),
                      filechunks_map[p] # NoEntry, c \in filechunks_map[p]
               PROVE  Copy(p)[c] = Good
    BY DEF OriginalsChunksMatch
  <2>1. Job(p)
    BY JobsAre DEF IInv
  <2>2. phase[p] # "idle"
    BY <2>1 DEF Job, JobOK
  <2> QED
    BY <2>2 DEF Contents, Recorded
<1> QED
  BY <1>1, ContentsInvariance, PTL

\* Of a download from originals that do not download themselves, DownloadFile,
\* which does not ask its threads how they ended, reports a file that is whole, or
\* one of its threads gave up.
THEOREM OriginalsComplete == Spec => CompleteUnlessGivenUp
<1>1. IInv /\ Contents /\ [Next]_vars =>
        [\A p \in Peers : p \in completed' \ completed /\ FromOriginals(p) =>
           Whole(Copy(p)) \/ \E c \in Chunks : thread[p][c].pc = "gaveup"]_vars
  <2> SUFFICES ASSUME IInv, Contents, Next, NEW p \in Peers, p \in completed' \ completed,
                      FromOriginals(p)
               PROVE  Whole(Copy(p)) \/ \E c \in Chunks : thread[p][c].pc = "gaveup"
    OBVIOUS
  <2>1. Finish(p)
    <3>1. ASSUME NEW q \in Peers, DownloadFile(q) PROVE completed' \subseteq completed
      BY <3>1 DEF DownloadFile
    <3>5. ASSUME NEW u, Stop(u) PROVE UNCHANGED completed
      BY <3>5 DEF Stop
    <3>2. ASSUME NEW q \in Peers, GetChunks(q) PROVE UNCHANGED completed \/ (q = p /\ Finish(q))
      <4>1. CASE AskChunks(q)
        BY <4>1 DEF AskChunks, history
      <4>2. CASE CalcChunk(q) \/ CalcChunkCut(q)
        BY <4>2 DEF CalcChunk, CalcChunkCut, Answered, history
      <4>3. CASE CalcChunkFails(q)
        BY <3>5, <4>3 DEF CalcChunkFails
      <4>4. CASE Finish(q)
        BY <4>4 DEF Finish
      <4> QED
        BY <3>2, <4>1, <4>2, <4>3, <4>4 DEF GetChunks
    <3>3. ASSUME NEW q \in Peers, Kill(q) \/ Restart(q) \/ GroupStopShare(q) PROVE UNCHANGED completed
      BY <3>3, <3>5 DEF Kill, Restart, GroupStopShare, history
    <3>4. ASSUME NEW q \in Peers, NEW c \in Chunks, DownloadKernel(q, c) PROVE UNCHANGED completed
      <4>1. CASE ReadsOutOfBounds(q, c)
        BY <3>5, <4>1 DEF ReadsOutOfBounds
      <4>2. CASE TransferFails(q, c)
        BY <3>5, <4>2, Zenon DEF TransferFails
      <4>3. CASE Connect(q, c) \/ ConnectFails(q, c)
        BY <4>3 DEF Connect, ConnectFails, history
      <4>4. CASE Verify(q, c)
        BY <4>4 DEF Verify, history
      <4>5. CASE RecvChunk(q, c)
        BY <4>5, Zenon DEF RecvChunk, history
      <4>6. CASE RecvCut(q, c)
        BY <4>6, Zenon DEF RecvCut, history
      <4> QED
        BY <3>4, <4>1, <4>2, <4>3, <4>4, <4>5, <4>6 DEF DownloadKernel
    <3> QED
      BY <3>1, <3>2, <3>3, <3>4 DEF Next
  <2>2. \A c \in Chunks : thread[p][c].pc \in {"got", "gaveup"}
    BY <2>1 DEF Finish
  <2> QED
    BY <2>2 DEF Contents, Recorded, Whole
<1> QED
  BY <1>1, ContentsInvariance, PTL DEF Spec, CompleteUnlessGivenUp
=============================================================================
