---------------------------- MODULE StreamProofs ----------------------------
(***************************************************************************)
(* Theorems about Stream, for every size of records, blocks, requests and  *)
(* files.                                                                  *)
(***************************************************************************)
EXTENDS Stream, SequenceTheorems, TLAPS

----------------------------------------------------------------------------
(* How many records a write takes.                                         *)

LEMMA RecordsFacts ==
  ASSUME NEW n \in Nat
  PROVE  /\ Records(n) \in Nat
         /\ n = 0 => Records(n) = 0
         /\ n \in 1..RecordMax => Records(n) = 1
         /\ n > RecordMax => Records(n) = Records(n - RecordMax) + 1
         /\ \A i \in 1..Records(n) : (i - 1) * RecordMax < n
         /\ n <= Records(n) * RecordMax
<1> DEFINE R == RecordMax
           d == Records(n)
<1>0. R \in Nat /\ R > 0
  BY SizesAssumption
<1> HIDE DEF R
<1>1. d \in Nat /\ R * d <= n + R - 1 /\ n + R - 1 < R * d + R
  <2>1. \A x \in Nat : x \div R \in Nat /\ x = R * (x \div R) + (x % R) /\ x % R \in 0..(R - 1)
    BY <1>0
  <2> QED
    BY <1>0, <2>1 DEF Records, R
<1>2. \A p, q \in Nat : p < q => R * p + R <= R * q
  <2> SUFFICES ASSUME NEW p \in Nat, NEW q \in Nat, p < q PROVE R * p + R <= R * q
    OBVIOUS
  <2>1. q = p + 1 + (q - p - 1) /\ q - p - 1 \in Nat
    OBVIOUS
  <2>2. R * (q - p - 1) >= 0
    BY <1>0, <2>1
  <2>3. R * q = R * p + R + R * (q - p - 1)
    BY <1>0
  <2> QED
    BY <1>0, <2>2, <2>3
<1>3. \A x, q \in Nat : R * q <= x + R - 1 /\ x + R - 1 < R * q + R => Records(x) = q
  <2> SUFFICES ASSUME NEW x \in Nat, NEW q \in Nat, R * q <= x + R - 1, x + R - 1 < R * q + R
               PROVE  Records(x) = q
    OBVIOUS
  <2> DEFINE e == Records(x)
  <2>1. e \in Nat /\ R * e <= x + R - 1 /\ x + R - 1 < R * e + R
    <3>1. \A y \in Nat : y \div R \in Nat /\ y = R * (y \div R) + (y % R) /\ y % R \in 0..(R - 1)
      BY <1>0
    <3> QED
      BY <1>0, <3>1 DEF Records, R
  <2> HIDE DEF e
  <2>2. ~(e < q) /\ ~(q < e)
    BY <1>0, <1>2, <2>1
  <2> QED
    BY <2>1, <2>2 DEF e
<1>4. n = 0 => Records(n) = 0
  BY <1>0, <1>3
<1>5. n \in 1..R => Records(n) = 1
  BY <1>0, <1>3
<1>6. ASSUME n > R PROVE Records(n) = Records(n - R) + 1
  <2>1. n - R \in Nat /\ d # 0
    BY <1>0, <1>1, <1>6
  <2>2. d - 1 \in Nat /\ R * (d - 1) = R * d - R
    BY <1>0, <1>1, <2>1
  <2>3. Records(n - R) = d - 1
    BY <1>0, <1>1, <1>3, <2>1, <2>2
  <2> QED
    BY <1>1, <2>3
<1>7. ASSUME NEW i \in 1..d PROVE (i - 1) * R < n
  <2>1. i - 1 \in Nat /\ i - 1 < d
    BY <1>1
  <2>2. R * (i - 1) + R <= R * d
    BY <1>1, <1>2, <2>1
  <2> QED
    BY <1>0, <1>1, <2>1, <2>2
<1>8. n <= d * R
  BY <1>0, <1>1
<1> QED
  BY <1>1, <1>4, <1>5, <1>6, <1>7, <1>8 DEF R

----------------------------------------------------------------------------
(* Records that carry a part of the file.                                  *)

\* Record r carries units x+1..y of the file, or its end.
Carries(r, x, y) ==
  \/ r.kind = "data" /\ x < y /\ r.data = SubSeq(file, x + 1, y)
  \/ r.kind = "over" /\ x = Len(file) /\ y = Len(file)

Positions(n) == [1..(n + 1) -> 0..Len(file)]

\* The records of q carry units b+1..e of the file in order, and "Sync Over" is
\* the last of them if it is there.
Links(q, a) ==
  \A i \in 1..Len(q) : /\ Carries(q[i], a[i], a[i + 1])
                       /\ q[i].kind = "over" => i = Len(q)
Chain(q, b, e) ==
  \E a \in Positions(Len(q)) : a[1] = b /\ a[Len(q) + 1] = e /\ Links(q, a)

AllData(q) == \A i \in 1..Len(q) : q[i].kind = "data"

LEMMA ChainEmpty ==
  ASSUME Len(file) \in Nat, NEW b, NEW e
  PROVE  Chain(<< >>, b, e) <=> b = e /\ b \in 0..Len(file)
<1>1. Len(<< >>) = 0 /\ 0 + 1 = 1
  OBVIOUS
<1>2. ASSUME Chain(<< >>, b, e) PROVE b = e /\ b \in 0..Len(file)
  BY <1>1, <1>2 DEF Chain, Positions
<1>3. ASSUME b = e, b \in 0..Len(file) PROVE Chain(<< >>, b, e)
  <2> DEFINE a == [i \in 1..(0 + 1) |-> b]
  <2>1. a \in Positions(0) /\ a[1] = b
    BY <1>3 DEF Positions
  <2>2. Links(<< >>, a)
    BY <1>1 DEF Links
  <2> HIDE DEF a
  <2> QED
    BY <1>1, <1>3, <2>1, <2>2 DEF Chain
<1> QED
  BY <1>2, <1>3

\* The first record of a chain.
LEMMA ChainHead ==
  ASSUME Len(file) \in Nat, NEW S, NEW q \in Seq(S), q # << >>, NEW b, NEW e, Chain(q, b, e)
  PROVE  \/ /\ Head(q).kind = "data"
            /\ \E m \in 0..Len(file) : /\ b < m /\ b \in 0..Len(file)
                                       /\ Head(q).data = SubSeq(file, b + 1, m)
                                       /\ Chain(Tail(q), m, e)
         \/ /\ Head(q).kind = "over" /\ b = Len(file) /\ e = Len(file)
            /\ Len(q) = 1 /\ Tail(q) = << >>
<1>1. PICK a \in Positions(Len(q)) : a[1] = b /\ a[Len(q) + 1] = e /\ Links(q, a)
  BY DEF Chain
<1> DEFINE p == Tail(q)
           n == Len(q)
<1>2. /\ n \in Nat /\ n >= 1 /\ Head(q) = q[1] /\ p \in Seq(S)
      /\ Len(p) = n - 1
      /\ \A i \in 1..(n - 1) : p[i] = q[i + 1]
  OBVIOUS
<1> HIDE DEF p, n
<1>3. 1 \in 1..n /\ 1 \in 1..(n + 1) /\ 2 \in 1..(n + 1) /\ 1 + 1 = 2
  BY <1>2
<1>4. a[1] \in 0..Len(file) /\ a[2] \in 0..Len(file)
  BY <1>1, <1>3 DEF Positions, n
<1>5. Carries(q[1], a[1], a[2]) /\ (q[1].kind = "over" => 1 = n)
  BY <1>1, <1>3 DEF Links, n
<1>6. CASE q[1].kind = "data"
  <2> DEFINE c == [i \in 1..((n - 1) + 1) |-> a[i + 1]]
  <2>1. \A i \in 1..((n - 1) + 1) : i + 1 \in 1..(n + 1)
    BY <1>2
  <2>2. /\ c \in Positions(n - 1)
        /\ \A i \in 1..n : c[i] = a[i + 1]
    <3>1. a \in [1..(n + 1) -> 0..Len(file)]
      BY DEF Positions, n
    <3>2. (n - 1) + 1 = n
      BY <1>2
    <3> QED
      BY <2>1, <3>1, <3>2 DEF Positions
  <2> HIDE DEF c
  <2>3. c[1] = a[2] /\ c[(n - 1) + 1] = e
    <3>1. n \in 1..n /\ (n - 1) + 1 = n
      BY <1>2
    <3> QED
      BY <1>1, <1>3, <2>2, <3>1 DEF n
  <2>4. ASSUME NEW i \in 1..(n - 1)
        PROVE  Carries(p[i], c[i], c[i + 1]) /\ (p[i].kind = "over" => i = n - 1)
    <3>1. i + 1 \in 1..n /\ i \in 1..n /\ (i + 1 = n => i = n - 1)
      BY <1>2
    <3>2. p[i] = q[i + 1] /\ c[i] = a[i + 1] /\ c[i + 1] = a[(i + 1) + 1]
      BY <1>2, <2>2, <3>1
    <3>3. Carries(q[i + 1], a[i + 1], a[(i + 1) + 1]) /\ (q[i + 1].kind = "over" => i + 1 = n)
      BY <1>1, <3>1 DEF Links, n
    <3> QED
      BY <3>1, <3>2, <3>3
  <2>5. Chain(p, a[2], e)
    BY <1>2, <2>2, <2>3, <2>4 DEF Chain, Links
  <2>6. a[1] < a[2] /\ q[1].data = SubSeq(file, a[1] + 1, a[2])
    BY <1>5, <1>6 DEF Carries
  <2> QED
    BY <1>1, <1>2, <1>4, <1>6, <2>5, <2>6 DEF p
<1>7. CASE q[1].kind # "data"
  <2>1. q[1].kind = "over" /\ a[1] = Len(file) /\ a[2] = Len(file) /\ n = 1
    BY <1>5, <1>7 DEF Carries
  <2>2. Len(p) = 0
    BY <1>2, <2>1
  <2>3. p = << >>
    BY <1>2, <2>2
  <2>4. e = a[2]
    BY <1>1, <1>3, <2>1 DEF n
  <2> QED
    BY <1>1, <1>2, <2>1, <2>3, <2>4 DEF p, n
<1> QED
  BY <1>6, <1>7

\* A chain that is cut short.
LEMMA ChainCut ==
  ASSUME Len(file) \in Nat, NEW S, NEW q \in Seq(S), NEW b, NEW e, Chain(q, b, e),
         NEW k \in 0..Len(q)
  PROVE  \E m : Chain(SubSeq(q, 1, k), b, m)
<1>1. PICK a \in Positions(Len(q)) : a[1] = b /\ a[Len(q) + 1] = e /\ Links(q, a)
  BY DEF Chain
<1> DEFINE p == SubSeq(q, 1, k)
           c == [i \in 1..(k + 1) |-> a[i]]
<1>2. Len(q) \in Nat /\ k \in Nat /\ k <= Len(q)
  OBVIOUS
<1>3. Len(p) = k /\ \A i \in 1..k : p[i] = q[i]
  BY <1>2
<1>4. c \in Positions(k) /\ \A i \in 1..(k + 1) : c[i] = a[i]
  <2>1. \A i \in 1..(k + 1) : i \in 1..(Len(q) + 1)
    BY <1>2
  <2> QED
    BY <2>1 DEF Positions
<1> HIDE DEF p, c
<1>5. ASSUME NEW i \in 1..k
      PROVE  Carries(p[i], c[i], c[i + 1]) /\ (p[i].kind = "over" => i = k)
  <2>1. i \in 1..Len(q) /\ i \in 1..(k + 1) /\ i + 1 \in 1..(k + 1) /\ (i = Len(q) => i = k)
    BY <1>2
  <2>2. p[i] = q[i] /\ c[i] = a[i] /\ c[i + 1] = a[i + 1]
    BY <1>3, <1>4, <2>1
  <2> QED
    BY <1>1, <2>1, <2>2 DEF Links
<1>6. c[1] = b
  BY <1>1, <1>2, <1>4
<1>7. Chain(p, b, c[k + 1])
  BY <1>3, <1>4, <1>5, <1>6 DEF Chain, Links
<1> QED
  BY <1>7 DEF p

\* Two chains, the first of which does not end the file.
LEMMA ChainConcat ==
  ASSUME Len(file) \in Nat, NEW S, NEW p \in Seq(S), NEW q \in Seq(S), NEW b, NEW m, NEW e,
         Chain(p, b, m), AllData(p), Chain(q, m, e)
  PROVE  Chain(p \o q, b, e)
<1>1. PICK a \in Positions(Len(p)) : a[1] = b /\ a[Len(p) + 1] = m /\ Links(p, a)
  BY DEF Chain
<1>2. PICK c \in Positions(Len(q)) : c[1] = m /\ c[Len(q) + 1] = e /\ Links(q, c)
  BY DEF Chain
<1> DEFINE r == p \o q
           k == Len(p)
           n == Len(q)
           z == [i \in 1..((k + n) + 1) |-> IF i <= k THEN a[i] ELSE c[i - k]]
<1>3. k \in Nat /\ n \in Nat /\ r \in Seq(S) /\ Len(r) = k + n
  OBVIOUS
<1>4. \A i \in 1..(k + n) : r[i] = IF i <= k THEN p[i] ELSE q[i - k]
  BY ConcatProperties
<1>a. a \in [1..(k + 1) -> 0..Len(file)] /\ c \in [1..(n + 1) -> 0..Len(file)]
  BY DEF Positions
<1> HIDE DEF r, k, n
<1>b. \A i \in 1..((k + n) + 1) : IF i <= k THEN i \in 1..(k + 1) ELSE i - k \in 1..(n + 1)
  BY <1>3
<1>5. /\ z \in Positions(k + n)
      /\ \A i \in 1..((k + n) + 1) : z[i] = IF i <= k THEN a[i] ELSE c[i - k]
  BY <1>a, <1>b DEF Positions
<1> HIDE DEF z
<1>c. a[1] = b /\ a[k + 1] = m /\ c[1] = m /\ c[n + 1] = e
  BY <1>1, <1>2 DEF k, n
<1>6. z[1] = b
  <2>1. CASE k = 0
    <3>1. 1 \in 1..((k + n) + 1) /\ ~(1 <= k) /\ 1 - k = 1 /\ k + 1 = 1
      BY <1>3, <2>1
    <3> QED
      BY <1>5, <1>c, <3>1
  <2>2. CASE k # 0
    <3>1. 1 \in 1..((k + n) + 1) /\ 1 <= k
      BY <1>3, <2>2
    <3> QED
      BY <1>5, <1>c, <3>1
  <2> QED
    BY <2>1, <2>2
<1>7. z[(k + n) + 1] = e
  <2>1. (k + n) + 1 \in 1..((k + n) + 1) /\ ~((k + n) + 1 <= k) /\ ((k + n) + 1) - k = n + 1
    BY <1>3
  <2> QED
    BY <1>5, <1>c, <2>1
<1>8. ASSUME NEW i \in 1..(k + n)
      PROVE  Carries(r[i], z[i], z[i + 1]) /\ (r[i].kind = "over" => i = k + n)
  <2>0. i \in 1..((k + n) + 1) /\ i + 1 \in 1..((k + n) + 1)
    BY <1>3
  <2>1. CASE i <= k
    <3>1. i \in 1..k
      BY <1>3, <2>1
    <3>2. z[i] = a[i] /\ r[i] = p[i]
      BY <1>4, <1>5, <2>0, <2>1
    <3>3. z[i + 1] = a[i + 1]
      <4>1. CASE i = k
        <5>1. ~(i + 1 <= k) /\ (i + 1) - k = 1
          BY <1>3, <4>1
        <5> QED
          BY <1>5, <1>c, <2>0, <4>1, <5>1
      <4>2. CASE i # k
        <5>1. i + 1 <= k
          BY <1>3, <3>1, <4>2
        <5> QED
          BY <1>5, <2>0, <5>1
      <4> QED
        BY <4>1, <4>2
    <3>4. Carries(p[i], a[i], a[i + 1]) /\ p[i].kind = "data"
      BY <1>1, <3>1 DEF Links, AllData, k
    <3> QED
      BY <3>2, <3>3, <3>4
  <2>2. CASE ~(i <= k)
    <3> DEFINE j == i - k
    <3>1. /\ j \in 1..n /\ (i + 1) - k = j + 1 /\ ~(i + 1 <= k) /\ (j = n => i = k + n)
      BY <1>3, <2>2
    <3>2. z[i] = c[j] /\ r[i] = q[j]
      BY <1>4, <1>5, <2>0, <2>2
    <3>3. z[i + 1] = c[(i + 1) - k]
      BY <1>5, <2>0, <3>1
    <3> HIDE DEF j
    <3>4. Carries(q[j], c[j], c[j + 1]) /\ (q[j].kind = "over" => j = n)
      BY <1>2, <3>1 DEF Links, n
    <3> QED
      BY <3>1, <3>2, <3>3, <3>4
  <2> QED
    BY <2>1, <2>2
<1> QED
  BY <1>3, <1>5, <1>6, <1>7, <1>8 DEF Chain, Links, r

\* "Sync Over", at the end of the file.
LEMMA ChainOver ==
  ASSUME Len(file) \in Nat
  PROVE  Chain(<<[kind |-> "over"]>>, Len(file), Len(file))
<1> DEFINE r == [kind |-> "over"]
           q == <<r>>
           a == [i \in 1..(1 + 1) |-> Len(file)]
<1>1. Len(q) = 1 /\ q[1] = r /\ r.kind = "over"
  OBVIOUS
<1>2. a \in Positions(1) /\ a[1] = Len(file) /\ a[1 + 1] = Len(file)
  BY DEF Positions
<1> HIDE DEF q, a, r
<1>3. Links(q, a)
  BY <1>1, <1>2 DEF Links, Carries
<1>4. Chain(q, Len(file), Len(file))
  BY <1>1, <1>2, <1>3 DEF Chain
<1> QED
  BY <1>4 DEF q, r

\* What SSL_write makes of a block.
LEMMA DataRecordsFacts ==
  ASSUME file \in Seq(Units), NEW a \in 0..Len(file), NEW b \in 0..Len(file), a < b
  PROVE  /\ DataRecords(a, b) \in Seq(Record)
         /\ Len(DataRecords(a, b)) > 0
         /\ AllData(DataRecords(a, b))
         /\ Chain(DataRecords(a, b), a, b)
         /\ b - a <= RecordMax => \A i \in 1..Len(DataRecords(a, b)) :
                                    Len(DataRecords(a, b)[i].data) = b - a
<1> DEFINE q == DataRecords(a, b)
           R == RecordMax
           n == Records(b - a)
           x(i) == a + (i - 1) * R
           y(i) == x(i) + SizeOfRecord(b - a, i)
           z == [i \in 1..(n + 1) |-> IF i <= n THEN x(i) ELSE b]
<1>0. R \in Nat /\ R > 0 /\ Len(file) \in Nat /\ a \in Nat /\ b \in Nat /\ b - a \in Nat /\ b - a > 0
  BY SizesAssumption
<1>1. /\ n \in Nat
      /\ \A i \in 1..n : (i - 1) * R < b - a
      /\ b - a <= n * R
      /\ b - a <= R => n = 1
  <2> DEFINE m == b - a
  <2>1. m \in Nat /\ (m <= R => m \in 1..R)
    BY <1>0
  <2> HIDE DEF m
  <2>2. /\ Records(m) \in Nat
        /\ \A i \in 1..Records(m) : (i - 1) * R < m
        /\ m <= Records(m) * R
        /\ m <= R => Records(m) = 1
    BY <2>1, RecordsFacts
  <2> QED
    BY <2>2 DEF m
<1>2. /\ q = [i \in 1..n |-> [kind |-> "data", data |-> SubSeq(file, x(i) + 1, y(i))]]
  BY DEF DataRecords
<1> HIDE DEF q, R, n
<1>3. n > 0
  BY <1>0, <1>1
<1>4. ASSUME NEW i \in 1..n
      PROVE  /\ x(i) \in 0..Len(file) /\ y(i) \in 0..Len(file) /\ x(i) < y(i)
             /\ y(i) = IF i = n THEN b ELSE x(i + 1)
             /\ b - a <= R => y(i) - x(i) = b - a
  <2> DEFINE p == (i - 1) * R
  <2>1. i - 1 \in Nat /\ p \in Nat /\ p < b - a
    BY <1>0, <1>1
  <2>2. (i + 1 - 1) * R = p + R
    BY <1>0
  <2>3. CASE i = n
    <3>1. n * R = p + R
      BY <1>0, <1>1, <2>2, <2>3
    <3> HIDE DEF p
    <3>2. b - a - p <= R
      BY <1>0, <1>1, <2>1, <3>1
    <3>3. SizeOfRecord(b - a, i) = b - a - p
      BY <1>0, <2>1, <3>2 DEF SizeOfRecord, Smaller, R, p
    <3>4. x(i) = a + p
      BY DEF p
    <3>5. ASSUME b - a <= R PROVE p = 0
      <4>1. i = 1
        BY <1>1, <2>3, <3>5
      <4> QED
        BY <1>0, <4>1 DEF p
    <3>6. y(i) = x(i) + SizeOfRecord(b - a, i)
      OBVIOUS
    <3> HIDE DEF x, y
    <3> QED
      BY <1>0, <2>1, <2>3, <3>3, <3>4, <3>5, <3>6
  <2>4. CASE i # n
    <3>1. i + 1 \in 1..n
      BY <1>1, <2>4
    <3>2. p + R < b - a
      <4>1. (i + 1 - 1) * R < b - a
        BY <1>1, <3>1
      <4> QED
        BY <2>2, <4>1
    <3>3. SizeOfRecord(b - a, i) = R
      BY <1>0, <2>1, <3>2 DEF SizeOfRecord, Smaller, R, p
    <3>4. x(i) = a + p /\ x(i + 1) = a + (p + R)
      BY <2>2
    <3>5. ~(b - a <= R)
      BY <1>0, <2>1, <3>2
    <3> HIDE DEF x, p
    <3> QED
      BY <1>0, <2>1, <2>4, <3>2, <3>3, <3>4, <3>5
  <2> QED
    BY <2>3, <2>4
<1> HIDE DEF x, y
<1>5. q \in [1..n -> Record] /\ \A i \in 1..n : q[i].kind = "data" /\ q[i].data = SubSeq(file, x(i) + 1, y(i))
  <2>1. ASSUME NEW i \in 1..n
        PROVE  SubSeq(file, x(i) + 1, y(i)) \in Seq(Units)
    <3>1. x(i) \in Nat /\ y(i) \in Nat /\ y(i) <= Len(file)
      BY <1>0, <1>4
    <3> QED
      BY <1>0, <3>1, SubSeqProperties
  <2> QED
    BY <1>2, <2>1 DEF Record
<1>6. q \in Seq(Record) /\ Len(q) = n
  BY <1>1, <1>5
<1>7. AllData(q)
  BY <1>5, <1>6 DEF AllData
<1>8. Chain(q, a, b)
  <2>1. z \in Positions(n) /\ \A i \in 1..(n + 1) : z[i] = IF i <= n THEN x(i) ELSE b
    <3>1. \A i \in 1..(n + 1) : i <= n => i \in 1..n
      BY <1>1
    <3>2. \A i \in 1..n : x(i) \in 0..Len(file)
      BY <1>4
    <3> QED
      BY <3>1, <3>2 DEF Positions
  <2> HIDE DEF z
  <2>2. z[1] = a
    <3>1. 1 \in 1..(n + 1) /\ 1 <= n
      BY <1>1, <1>3
    <3>2. x(1) = a
      BY <1>0 DEF x
    <3> QED
      BY <2>1, <3>1, <3>2
  <2>3. z[n + 1] = b
    <3>1. n + 1 \in 1..(n + 1) /\ ~(n + 1 <= n)
      BY <1>1
    <3> QED
      BY <2>1, <3>1
  <2>4. ASSUME NEW i \in 1..n
        PROVE  z[i] = x(i) /\ z[i + 1] = y(i)
    <3>1. i \in 1..(n + 1) /\ i <= n /\ i + 1 \in 1..(n + 1) /\ (i + 1 <= n <=> i # n)
      BY <1>1
    <3> QED
      BY <1>4, <2>1, <3>1
  <2>5. Links(q, z)
    BY <1>4, <1>5, <1>6, <2>4 DEF Links, Carries
  <2> QED
    BY <1>6, <2>1, <2>2, <2>3, <2>5 DEF Chain
<1>9. ASSUME b - a <= R, NEW i \in 1..n
      PROVE  Len(q[i].data) = b - a
  <2>1. /\ x(i) \in Nat /\ y(i) \in Nat /\ y(i) <= Len(file) /\ x(i) < y(i)
        /\ y(i) - x(i) = b - a
    BY <1>0, <1>4, <1>9
  <2>2. /\ \A j \in (x(i) + 1)..y(i) : file[j] \in Units
        /\ x(i) + 1 \in Int /\ y(i) \in Int /\ x(i) + 1 <= y(i)
    BY <1>0, <2>1
  <2>3. Len(SubSeq(file, x(i) + 1, y(i))) = y(i) - (x(i) + 1) + 1
    BY <2>2, SubSeqProperties
  <2>4. Len(SubSeq(file, x(i) + 1, y(i))) = b - a
    BY <1>0, <2>1, <2>3
  <2> QED
    BY <1>5, <2>4
<1> QED
  BY <1>3, <1>6, <1>7, <1>8, <1>9 DEF q, R
----------------------------------------------------------------------------
(* The invariant.                                                          *)

Shape ==
  /\ file \in Seq(Units) /\ Len(file) <= MaxFile
  /\ len \in 1..(MsgMax + 1)
  /\ client \in [pc : {"header", "payload", "first", "block", "ack", "end", "closed"},
                 out : Seq(Record), pos : 0..Len(file)]
  /\ c2s \in Seq(Record)
  /\ acks \in Nat
  /\ server \in [pc : {"header", "payload", "ack", "read", "over", "refused"},
                 need : 0..(MsgMax + 1), got : Nat]
  /\ server.got <= server.need
  /\ copy \in Seq(Units)
  /\ broken \in {"no", "cut", "reset"}

\* The records the receiver may still get.
Pending == IF broken = "no" THEN c2s \o client.out ELSE c2s

\* What it may get of the request: its length, if it has not come yet, and as many
\* records as the units that are missing take.
Left == len - server.got
Base == IF server.pc = "header" THEN 1 ELSE 0
Expected(i) == IF i <= Base THEN [kind |-> "len", n |-> len]
               ELSE [kind |-> "msg", n |-> SizeOfRecord(Left, i - Base)]
Asked(q) ==
  /\ Len(q) <= Base + Records(Left)
  /\ \A i \in 1..Len(q) : q[i] = Expected(i)

Asking ==
  server.pc \in {"header", "payload"} =>
    /\ acks = 0 /\ copy = << >>
    /\ server.pc = "header" => server.got = 0
    /\ server.pc = "payload" => server.need = len
    /\ server.got < len
    /\ Asked(Pending)
    /\ broken = "no" =>
         /\ client.pos = 0
         /\ \/ client.pc = "header" /\ server.pc = "header" /\ Len(Pending) = 0
            \/ client.pc = "payload" /\ server.got = 0 /\ Len(Pending) = Base
            \/ client.pc = "first" /\ Len(Pending) = Base + Records(Left)

\* What it may get of the file continues its copy.
Sending ==
  server.pc \in {"ack", "read", "over"} =>
    /\ server.got = len
    /\ Len(copy) <= Len(file) /\ copy = SubSeq(file, 1, Len(copy))
    /\ \E e \in 0..Len(file) : Chain(Pending, Len(copy), e) /\ (broken = "no" => e = client.pos)
    /\ broken = "no" =>
         /\ client.pc \notin {"header", "payload"}
         /\ client.pc = "first" => client.pos = 0
         /\ client.pc = "ack" => client.pos > 0
         /\ client.pc = "closed" => client.out = << >>
         /\ client.pc \in {"first", "block", "ack"} => AllData(Pending) /\ server.pc # "over"
         /\ client.pc \in {"end", "closed"} =>
              /\ client.pos = Len(file)
              /\ IF server.pc = "over" THEN Pending = << >>
                 ELSE Len(Pending) > 0 /\ Pending[Len(Pending)].kind = "over"

\* One acknowledgement for the request and one for each record.
Acknowledging ==
  /\ server.pc = "refused" => acks = 0 /\ copy = << >>
  /\ acks <= Len(copy) + 1
  /\ server.pc = "ack" /\ broken = "no" => acks <= Len(copy)

\* A file of one record: as many acknowledgements are read as are sent.
Sent == (IF server.pc = "ack" THEN 0 ELSE 1) + (IF Len(copy) = 0 THEN 0 ELSE 1)
Read == CASE client.pc = "first" -> 0
          [] client.pc = "ack" -> 1
          [] OTHER -> 1 + (IF client.pos = 0 THEN 0 ELSE 1)
InStep ==
  /\ broken = "reset" => Len(file) > RecordMax
  /\ Len(file) <= RecordMax /\ broken = "no" /\ server.pc \in {"ack", "read", "over"} =>
       /\ Len(copy) \in {0, Len(file)} /\ client.pos \in {0, Len(file)}
       /\ \A i \in 1..Len(Pending) :
            Pending[i].kind = "data" => Len(Pending[i].data) = Len(file)
       /\ acks + Read = Sent

Inv == Shape /\ Asking /\ Sending /\ Acknowledging /\ InStep

LEMMA InitInv == Init => Inv
<1> SUFFICES ASSUME Init PROVE Inv
  OBVIOUS
<1>0. RecordMax \in Nat /\ RecordMax > 0 /\ MaxFile \in Nat /\ MsgMax \in Nat
  BY SizesAssumption
<1>1. PICK n \in 0..MaxFile : file = [i \in 1..n |-> i]
  BY DEF Init
<1>2. file \in Seq(Units) /\ Len(file) = n /\ n \in Nat /\ n <= MaxFile
  BY <1>0, <1>1 DEF Units
<1>3. << >> \in Seq(Record) /\ << >> \in Seq(Units) /\ Len(<< >>) = 0
  OBVIOUS
<1>4. Shape
  <2>1. client \in [pc : {"header", "payload", "first", "block", "ack", "end", "closed"},
                    out : Seq(Record), pos : 0..Len(file)]
    BY <1>2, <1>3 DEF Init
  <2>2. /\ server \in [pc : {"header", "payload", "ack", "read", "over", "refused"},
                       need : 0..(MsgMax + 1), got : Nat]
        /\ server.got <= server.need
    BY <1>0 DEF Init
  <2>3. /\ len \in 1..(MsgMax + 1) /\ c2s \in Seq(Record) /\ acks \in Nat
        /\ copy \in Seq(Units) /\ broken \in {"no", "cut", "reset"}
    BY <1>3 DEF Init
  <2> QED
    BY <1>2, <2>1, <2>2, <2>3 DEF Shape
<1>5. /\ acks = 0 /\ copy = << >> /\ Len(copy) = 0 /\ server.pc = "header" /\ server.got = 0
      /\ client.pc = "header" /\ client.pos = 0 /\ broken = "no"
  BY DEF Init
<1>6. Pending = << >> /\ Len(Pending) = 0
  BY DEF Pending, Init
<1>7. Asking
  <2>1. Base = 1 /\ Left = len /\ len \in Nat /\ len > 0
    BY <1>0, <1>5 DEF Base, Left, Init
  <2>2. Records(Left) \in Nat
    BY <2>1, RecordsFacts
  <2>3. Asked(Pending)
    BY <1>6, <2>1, <2>2 DEF Asked
  <2> QED
    BY <1>5, <1>6, <2>1, <2>3 DEF Asking
<1>8. Sending /\ Acknowledging /\ InStep
  BY <1>5 DEF Sending, Acknowledging, InStep
<1> QED
  BY <1>4, <1>7, <1>8 DEF Inv

\* How the records on their way change.
LEMMA PendingIsSeq == Shape => Pending \in Seq(Record) /\ c2s \in Seq(Record) /\ client.out \in Seq(Record)
BY DEF Shape, Pending

LEMMA PendingHead ==
  ASSUME Shape, c2s # << >>, c2s' = Tail(c2s), UNCHANGED <<client, broken>>
  PROVE  Pending # << >> /\ Head(c2s) = Head(Pending) /\ Pending' = Tail(Pending)
<1>1. c2s \in Seq(Record) /\ client.out \in Seq(Record)
  BY PendingIsSeq
<1>2. CASE broken = "no"
  <2> DEFINE p == c2s
             q == client.out
  <2>1. p \o q # << >> /\ Head(p \o q) = Head(p) /\ Tail(p \o q) = Tail(p) \o q
    BY <1>1
  <2> QED
    BY <1>2, <2>1 DEF Pending
<1>3. CASE broken # "no"
  BY <1>3 DEF Pending
<1> QED
  BY <1>2, <1>3

LEMMA PendingWritten ==
  ASSUME Shape, SSLWriteAll, broken = "no", server.pc # "refused"
  PROVE  /\ Pending' = Pending
         /\ client' = [client EXCEPT !.out = Tail(@)] /\ client'.out \in Seq(Record)
         /\ client.out # << >>
         /\ c2s' \in Seq(Record)
         /\ UNCHANGED <<file, len, acks, server, copy, broken>>
<1> DEFINE p == c2s
           q == client.out
           h == Head(q)
<1>1. p \in Seq(Record) /\ q \in Seq(Record)
  BY PendingIsSeq
<1>2. q # << >> /\ c2s' = Append(p, h) /\ client' = [client EXCEPT !.out = Tail(@)]
      /\ UNCHANGED <<file, len, acks, server, copy, broken>>
  BY DEF SSLWriteAll
<1>3. client'.out = Tail(q)
  BY <1>2 DEF Shape
<1> HIDE DEF p, q
<1>4. Append(p, h) \o Tail(q) = p \o q
  BY <1>1, <1>2
<1>5. Append(p, h) \in Seq(Record) /\ Tail(q) \in Seq(Record)
  BY <1>1, <1>2
<1> QED
  BY <1>2, <1>3, <1>4, <1>5 DEF Pending, p, q

LEMMA PendingGrows ==
  ASSUME Shape, broken = "no", client.out = << >>, UNCHANGED <<c2s, broken>>
  PROVE  Pending = c2s /\ Pending' = Pending \o client'.out
<1>1. c2s \o << >> = c2s
  BY PendingIsSeq
<1> QED
  BY <1>1 DEF Pending
----------------------------------------------------------------------------
(* The steps of the client.                                                *)

\* Nothing that it does is noticed when the connection is gone.
LEMMA Unnoticed ==
  ASSUME Inv, Shape', broken # "no" \/ server.pc = "refused",
         UNCHANGED <<file, len, server, copy, broken, c2s>>, acks' <= acks
  PROVE  Inv'
<1>1. acks \in Nat /\ acks' \in Nat /\ copy \in Seq(Units) /\ Len(copy) \in Nat
  BY DEF Inv, Shape
<1>2. Acknowledging'
  BY <1>1 DEF Inv, Acknowledging
<1>3. broken # "no" => Pending' = Pending
  BY DEF Pending
<1>4. Asking'
  BY <1>1, <1>3 DEF Inv, Asking, Asked, Base, Left, Expected
<1>5. Sending'
  <2> SUFFICES ASSUME server.pc \in {"ack", "read", "over"}
               PROVE  Sending'
    BY DEF Sending
  <2>1. broken # "no"
    OBVIOUS
  <2>2. PICK e \in 0..Len(file) : Chain(Pending, Len(copy), e)
    BY DEF Inv, Sending
  <2>3. Chain(Pending, Len(copy), e)'
    BY <1>3, <2>1, <2>2 DEF Chain, Links, Positions, Carries
  <2> QED
    BY <2>1, <2>3 DEF Inv, Sending
<1>6. InStep'
  BY DEF Inv, InStep
<1> QED
  BY <1>2, <1>4, <1>5, <1>6 DEF Inv

\* A step of the client changes no more than this.
LEMMA ClientShape ==
  ASSUME Shape, UNCHANGED <<file, len, server, copy, broken>>, c2s' \in Seq(Record),
         acks' \in Nat, NEW out \in Seq(Record), NEW pos \in 0..Len(file),
         NEW pc \in {"header", "payload", "first", "block", "ack", "end", "closed"},
         \/ client' = [client EXCEPT !.pc = pc, !.out = out, !.pos = pos]
         \/ client' = [client EXCEPT !.pc = pc, !.out = out] /\ pos = client.pos
         \/ client' = [client EXCEPT !.pc = pc] /\ out = client.out /\ pos = client.pos
         \/ client' = [client EXCEPT !.out = out] /\ pc = client.pc /\ pos = client.pos
  PROVE  Shape' /\ client'.pc = pc /\ client'.out = out /\ client'.pos = pos
<1>1. client \in [pc : {"header", "payload", "first", "block", "ack", "end", "closed"},
                  out : Seq(Record), pos : 0..Len(file)]
  BY DEF Shape
<1>2. client' = [pc |-> pc, out |-> out, pos |-> pos]
  BY <1>1
<1> QED
  BY <1>2 DEF Shape

LEMMA StepSSLWriteAll == ASSUME Inv, SSLWriteAll PROVE Inv'
<1>0. Shape /\ << >> \in Seq(Record) /\ acks \in Nat
  BY DEF Inv, Shape
<1>1. CASE broken # "no" \/ server.pc = "refused"
  <2>1. UNCHANGED <<file, len, server, copy, broken, c2s, acks>> /\ client' = [client EXCEPT !.out = << >>]
    BY <1>1 DEF SSLWriteAll
  <2>2. client.pc \in {"header", "payload", "first", "block", "ack", "end", "closed"}
        /\ client.pos \in 0..Len(file) /\ c2s \in Seq(Record)
    BY <1>0 DEF Shape
  <2>3. Shape'
    BY <1>0, <2>1, <2>2, ClientShape
  <2> QED
    BY <1>0, <1>1, <2>1, <2>3, Unnoticed
<1>2. CASE broken = "no" /\ server.pc # "refused"
  <2>1. /\ Pending' = Pending
        /\ client' = [client EXCEPT !.out = Tail(@)] /\ client'.out \in Seq(Record)
        /\ client.out # << >> /\ c2s' \in Seq(Record)
        /\ UNCHANGED <<file, len, acks, server, copy, broken>>
    BY <1>0, <1>2, PendingWritten
  <2>2. /\ client.pc \in {"header", "payload", "first", "block", "ack", "end", "closed"}
        /\ client.pos \in 0..Len(file) /\ Tail(client.out) \in Seq(Record)
    BY <1>0, <2>1 DEF Shape
  <2>3. Shape' /\ client'.pc = client.pc /\ client'.pos = client.pos
    BY <1>0, <2>1, <2>2, ClientShape
  <2>4. Asking'
    BY <2>1, <2>3 DEF Inv, Asking, Asked, Base, Left, Expected
  <2>5. Sending'
    <3>1. \A e : Chain(Pending, Len(copy), e) => Chain(Pending, Len(copy), e)'
      BY <2>1 DEF Chain, Links, Positions, Carries
    <3> QED
      BY <2>1, <2>3, <3>1 DEF Inv, Sending, AllData
  <2>6. Acknowledging' /\ InStep'
    BY <2>1, <2>3 DEF Inv, Acknowledging, InStep, Read, Sent
  <2> QED
    BY <2>3, <2>4, <2>5, <2>6 DEF Inv
<1> QED
  BY <1>1, <1>2

LEMMA StepSendLength == ASSUME Inv, SendLength PROVE Inv'
<1> DEFINE r == [kind |-> "len", n |-> len]
           out == <<r>>
<1>1. /\ Shape /\ acks \in Nat /\ c2s \in Seq(Record) /\ len \in 1..(MsgMax + 1)
      /\ client.pos \in 0..Len(file)
  BY DEF Inv, Shape
<1>2. r \in Record
  BY <1>1 DEF Record
<1>3. out \in Seq(Record) /\ Len(out) = 1 /\ out[1] = r
  BY <1>2
<1> HIDE DEF out
<1>4. /\ client.pc = "header" /\ client.out = << >>
      /\ client' = [client EXCEPT !.pc = "payload", !.out = out]
      /\ UNCHANGED <<file, len, c2s, acks, broken, server, copy>>
  BY DEF SendLength, Call, wire, out
<1>5. Shape' /\ client'.pc = "payload" /\ client'.out = out /\ client'.pos = client.pos
  BY <1>1, <1>3, <1>4, ClientShape
<1>6. CASE broken # "no" \/ server.pc = "refused"
  BY <1>1, <1>4, <1>5, <1>6, Unnoticed
<1>7. CASE broken = "no" /\ server.pc # "refused"
  <2>1. /\ server.pc = "header" /\ server.got = 0 /\ Len(Pending) = 0 /\ client.pos = 0
        /\ acks = 0 /\ copy = << >>
    BY <1>4, <1>7 DEF Inv, Shape, Asking, Sending
  <2>2. Pending' = Pending \o out /\ Pending \in Seq(Record)
    BY <1>1, <1>4, <1>5, <1>7, PendingGrows, PendingIsSeq
  <2>3. Pending = << >>
    BY <2>1, <2>2
  <2>4. Pending' = out
    BY <1>3, <2>2, <2>3
  <2>5. Base' = 1 /\ Left' = len /\ len \in Nat /\ len > 0
    BY <1>1, <1>4, <2>1, SizesAssumption DEF Base, Left
  <2>6. Records(Left)' \in Nat
    <3>1. Records(len) \in Nat
      BY <2>5, RecordsFacts
    <3> QED
      BY <2>5, <3>1 DEF Records
  <2>7. \A i \in 1..1 : Expected(i)' = r
    BY <1>4, <2>5 DEF Expected
  <2>8. Asked(Pending)'
    <3>1. Len(Pending)' = 1 /\ \A i \in 1..1 : Pending'[i] = r
      BY <1>3, <2>4
    <3>2. (Len(Pending) <= Base + Records(Left))'
      BY <2>5, <2>6, <3>1
    <3> QED
      BY <2>7, <3>1, <3>2 DEF Asked
  <2>9. Asking'
    BY <1>3, <1>4, <1>5, <2>1, <2>4, <2>5, <2>8 DEF Asking
  <2>10. Sending' /\ Acknowledging' /\ InStep'
    BY <1>4, <1>7, <2>1 DEF Inv, Sending, Acknowledging, InStep
  <2> QED
    BY <1>5, <2>9, <2>10 DEF Inv
<1> QED
  BY <1>6, <1>7

\* What SSL_write makes of the request, or of what is left of it.
LEMMA SizeOfRecordFacts ==
  ASSUME NEW n \in Nat, NEW i \in 1..Records(n)
  PROVE  SizeOfRecord(n, i) \in 1..n
<1> DEFINE p == (i - 1) * RecordMax
<1>1. Records(n) \in Nat /\ p < n
  BY RecordsFacts
<1>2. RecordMax \in Nat /\ RecordMax > 0
  BY SizesAssumption
<1>3. i - 1 \in Nat /\ p \in Nat
  BY <1>1, <1>2
<1> HIDE DEF p
<1>4. SizeOfRecord(n, i) = IF RecordMax < n - p THEN RecordMax ELSE n - p
  BY DEF SizeOfRecord, Smaller, p
<1> QED
  BY <1>1, <1>2, <1>3, <1>4

LEMMA MsgRecordsFacts ==
  ASSUME NEW n \in 1..(MsgMax + 1)
  PROVE  /\ MsgRecords(n) \in Seq(Record)
         /\ Len(MsgRecords(n)) = Records(n) /\ Records(n) \in Nat
         /\ \A i \in 1..Records(n) :
              MsgRecords(n)[i] = [kind |-> "msg", n |-> SizeOfRecord(n, i)]
<1>1. MsgMax \in Nat /\ n \in Nat
  BY SizesAssumption
<1>2. Records(n) \in Nat
  BY <1>1, RecordsFacts
<1>3. \A i \in 1..Records(n) : SizeOfRecord(n, i) \in 1..n
  BY <1>1, SizeOfRecordFacts
<1>4. \A i \in 1..Records(n) : SizeOfRecord(n, i) \in 1..(MsgMax + 1)
  BY <1>1, <1>3
<1>5. \A i \in 1..Records(n) : [kind |-> "msg", n |-> SizeOfRecord(n, i)] \in Record
  BY <1>4 DEF Record
<1>6. /\ MsgRecords(n) \in [1..Records(n) -> Record]
      /\ \A i \in 1..Records(n) :
           MsgRecords(n)[i] = [kind |-> "msg", n |-> SizeOfRecord(n, i)]
  BY <1>5 DEF MsgRecords
<1> QED
  BY <1>2, <1>6

LEMMA StepSendPayload == ASSUME Inv, SendPayload PROVE Inv'
<1> DEFINE out == MsgRecords(len)
<1>1. /\ Shape /\ acks \in Nat /\ c2s \in Seq(Record) /\ len \in 1..(MsgMax + 1)
      /\ client.pos \in 0..Len(file) /\ len \in Nat /\ server.got \in Nat
  BY SizesAssumption DEF Inv, Shape
<1>2. /\ out \in Seq(Record)
      /\ Len(out) = Records(len) /\ Records(len) \in Nat
      /\ \A i \in 1..Records(len) : out[i] = [kind |-> "msg", n |-> SizeOfRecord(len, i)]
  BY <1>1, MsgRecordsFacts
<1>3. /\ client.pc = "payload" /\ client.out = << >>
      /\ client' = [client EXCEPT !.pc = "first", !.out = out]
      /\ UNCHANGED <<file, len, c2s, acks, broken, server, copy>>
  BY DEF SendPayload, Call, wire
<1> HIDE DEF out
<1>4. Shape' /\ client'.pc = "first" /\ client'.out = out /\ client'.pos = client.pos
  BY <1>1, <1>2, <1>3, ClientShape
<1>5. CASE broken # "no" \/ server.pc = "refused"
  BY <1>1, <1>3, <1>4, <1>5, Unnoticed
<1>6. CASE broken = "no" /\ server.pc # "refused"
  <2>1. server.pc \in {"header", "payload"}
    BY <1>3, <1>6 DEF Inv, Shape, Sending
  <2>2. /\ server.got = 0 /\ Len(Pending) = Base /\ client.pos = 0 /\ Asked(Pending)
        /\ acks = 0 /\ copy = << >>
    BY <1>3, <1>6, <2>1 DEF Inv, Asking
  <2>3. Pending' = Pending \o out /\ Pending \in Seq(Record)
    BY <1>1, <1>3, <1>4, <1>6, PendingGrows, PendingIsSeq
  <2>4. Left = len /\ Left' = len /\ Base' = Base /\ Base \in {0, 1}
    BY <1>1, <1>3, <2>2 DEF Left, Base
  <2> DEFINE p == Pending
             q == p \o out
  <2>5. /\ Len(q) = Base + Records(len)
        /\ \A i \in 1..Len(q) : q[i] = IF i <= Base THEN p[i] ELSE out[i - Base]
    <3>1. p \in Seq(Record) /\ Len(p) = Base
      BY <2>2, <2>3
    <3> HIDE DEF p
    <3>2. /\ Len(p \o out) = Len(p) + Len(out)
          /\ \A i \in 1..(Len(p) + Len(out)) :
               (p \o out)[i] = IF i <= Len(p) THEN p[i] ELSE out[i - Len(p)]
      BY <1>2, <3>1, ConcatProperties
    <3> QED
      BY <1>2, <3>1, <3>2
  <2> HIDE DEF q
  <2>6. ASSUME NEW i \in 1..Len(q)
        PROVE  q[i] = IF i <= Base THEN [kind |-> "len", n |-> len]
                      ELSE [kind |-> "msg", n |-> SizeOfRecord(len, i - Base)]
    <3>1. CASE i <= Base
      <4>1. i \in 1..Len(p)
        BY <2>2, <2>4, <3>1
      <4>2. p[i] = Expected(i)
        BY <2>2, <4>1 DEF Asked
      <4> QED
        BY <2>5, <3>1, <4>2 DEF Expected
    <3>2. CASE ~(i <= Base)
      <4>1. i - Base \in 1..Records(len)
        BY <1>2, <2>4, <2>5, <3>2
      <4> QED
        BY <1>2, <2>5, <3>2, <4>1
    <3> QED
      BY <3>1, <3>2
  <2>7. Records(Left)' = Records(len)
    BY <2>4 DEF Records
  <2>8. \A i : Expected(i)' = IF i <= Base THEN [kind |-> "len", n |-> len]
                              ELSE [kind |-> "msg", n |-> SizeOfRecord(len, i - Base)]
    BY <1>3, <2>4 DEF Expected, SizeOfRecord
  <2>9. Pending' = q
    BY <2>3 DEF q
  <2>a. Base + Records(len) <= Base + Records(len)
    BY <1>2, <2>4
  <2>10. Asked(Pending)'
    BY <2>4, <2>5, <2>6, <2>7, <2>8, <2>9, <2>a DEF Asked
  <2>11. Asking'
    BY <1>1, <1>3, <1>4, <2>1, <2>2, <2>4, <2>5, <2>7, <2>9, <2>10 DEF Asking, Inv
  <2>12. Sending' /\ Acknowledging' /\ InStep'
    BY <1>3, <1>6, <2>1, <2>2 DEF Inv, Sending, Acknowledging, InStep
  <2> QED
    BY <1>4, <2>11, <2>12 DEF Inv
<1> QED
  BY <1>5, <1>6

LEMMA StepReadAck ==
  ASSUME Inv, NEW pc \in {"first", "ack"}, ReadAck(pc)
  PROVE  Inv'
<1>1. /\ Shape /\ acks \in Nat /\ c2s \in Seq(Record)
      /\ client.pos \in 0..Len(file) /\ << >> \in Seq(Record) /\ Len(copy) \in Nat
  BY DEF Inv, Shape
<1>2. /\ client.pc = pc /\ client.out = << >>
      /\ client' = [client EXCEPT !.pc = "block"]
      /\ UNCHANGED <<file, len, c2s, broken, server, copy>>
      /\ \/ acks > 0 /\ acks' = acks - 1
         \/ acks = 0 /\ (broken # "no" \/ server.pc = "refused") /\ acks' = acks
  BY DEF ReadAck
<1>3. acks' \in Nat /\ acks' <= acks
  BY <1>1, <1>2
<1>4. Shape' /\ client'.pc = "block" /\ client'.out = << >> /\ client'.pos = client.pos
  BY <1>1, <1>2, <1>3, ClientShape
<1>5. CASE broken # "no" \/ server.pc = "refused"
  BY <1>1, <1>2, <1>3, <1>4, <1>5, Unnoticed
<1>6. CASE broken = "no" /\ server.pc # "refused"
  <2>1. acks > 0 /\ acks' = acks - 1
    BY <1>2, <1>6
  <2>2. server.pc \in {"ack", "read", "over"}
    BY <1>6, <2>1, <1>1 DEF Inv, Shape, Asking
  <2>3. Pending' = Pending
    <3>1. client'.out = client.out /\ c2s' = c2s /\ broken' = broken
      BY <1>2, <1>4
    <3> QED
      BY <3>1 DEF Pending
  <2>4. \A e : Chain(Pending, Len(copy), e) => Chain(Pending, Len(copy), e)'
    BY <1>2, <2>3 DEF Chain, Links, Positions, Carries
  <2>5. Sending'
    BY <1>2, <1>4, <1>6, <2>2, <2>3, <2>4 DEF Inv, Sending, AllData
  <2>6. Asking'
    BY <1>2, <2>2 DEF Asking
  <2>7. Acknowledging'
    BY <1>1, <1>2, <1>3, <1>6, <2>2 DEF Inv, Acknowledging
  <2>8. Read' = Read + 1 /\ Read \in Nat /\ Sent' = Sent /\ Sent \in Nat
    BY <1>1, <1>2, <1>4, <1>6, <2>2 DEF Inv, Sending, Read, Sent
  <2>9. InStep'
    BY <1>1, <1>2, <1>4, <1>6, <2>1, <2>2, <2>3, <2>8 DEF Inv, InStep
  <2> QED
    BY <1>4, <2>5, <2>6, <2>7, <2>9 DEF Inv
<1> QED
  BY <1>5, <1>6

LEMMA ConcatElements ==
  ASSUME NEW S, NEW p \in Seq(S), NEW q \in Seq(S)
  PROVE  /\ p \o q \in Seq(S) /\ Len(p \o q) = Len(p) + Len(q)
         /\ \A i \in 1..Len(p \o q) : \/ i \in 1..Len(p) /\ (p \o q)[i] = p[i]
                                      \/ i - Len(p) \in 1..Len(q) /\ (p \o q)[i] = q[i - Len(p)]
<1>1. Len(p) \in Nat /\ Len(q) \in Nat
  OBVIOUS
<1>2. /\ p \o q \in Seq(S) /\ Len(p \o q) = Len(p) + Len(q)
      /\ \A i \in 1..(Len(p) + Len(q)) :
           (p \o q)[i] = IF i <= Len(p) THEN p[i] ELSE q[i - Len(p)]
  BY ConcatProperties
<1> QED
  BY <1>1, <1>2

LEMMA StepSendBlock == ASSUME Inv, SendBlock PROVE Inv'
<1> DEFINE pos == client.pos
           to == Smaller(pos + BlockMax, Len(file))
           out == DataRecords(pos, to)
<1>1. /\ Shape /\ acks \in Nat /\ c2s \in Seq(Record) /\ file \in Seq(Units) /\ Len(file) \in Nat
      /\ pos \in 0..Len(file) /\ Len(copy) \in Nat
  BY DEF Inv, Shape
<1>2. /\ client.pc = "block" /\ client.out = << >> /\ pos < Len(file)
      /\ client' = [client EXCEPT !.pc = "ack", !.out = out, !.pos = to]
      /\ UNCHANGED <<file, len, c2s, acks, broken, server, copy>>
  BY DEF SendBlock, wire, Shape, Inv
<1>3. /\ to \in 0..Len(file) /\ pos < to
      /\ Len(file) <= RecordMax /\ pos = 0 => to = Len(file)
  BY <1>1, <1>2, SizesAssumption DEF Smaller
<1> HIDE DEF to, pos
<1>4. /\ out \in Seq(Record) /\ Len(out) > 0 /\ AllData(out) /\ Chain(out, pos, to)
      /\ to - pos <= RecordMax => \A i \in 1..Len(out) : Len(out[i].data) = to - pos
  BY <1>1, <1>3, DataRecordsFacts
<1> HIDE DEF out
<1>5. Shape' /\ client'.pc = "ack" /\ client'.out = out /\ client'.pos = to
  BY <1>1, <1>2, <1>3, <1>4, ClientShape
<1>6. CASE broken # "no" \/ server.pc = "refused"
  BY <1>1, <1>2, <1>5, <1>6, Unnoticed
<1>7. CASE broken = "no" /\ server.pc # "refused"
  <2>1. server.pc \in {"ack", "read", "over"}
    BY <1>1, <1>2, <1>7 DEF Inv, Shape, Asking
  <2>2. Pending' = Pending \o out /\ Pending \in Seq(Record)
    BY <1>1, <1>2, <1>5, <1>7, PendingGrows, PendingIsSeq
  <2>3. Chain(Pending, Len(copy), pos) /\ AllData(Pending) /\ server.pc # "over"
    BY <1>2, <1>7, <2>1 DEF Inv, Sending, pos
  <2> DEFINE p == Pending
             q == p \o out
  <2>4. p \in Seq(Record) /\ Chain(p, Len(copy), pos) /\ AllData(p)
    BY <2>2, <2>3
  <2> HIDE DEF p
  <2>5. Chain(q, Len(copy), to)
    BY <1>1, <1>4, <2>4, ChainConcat
  <2>6. /\ q \in Seq(Record)
        /\ \A i \in 1..Len(q) : \/ i \in 1..Len(p) /\ q[i] = p[i]
                                \/ i - Len(p) \in 1..Len(out) /\ q[i] = out[i - Len(p)]
    BY <1>4, <2>4, ConcatElements
  <2>7. Pending' = q
    BY <2>2 DEF p
  <2> HIDE DEF q
  <2>8. AllData(q)
    BY <1>4, <2>4, <2>6 DEF AllData
  <2>9. PICK e \in 0..Len(file) : e = to
    BY <1>3
  <2>a. Chain(Pending, Len(copy), e)'
    BY <1>2, <2>5, <2>7, <2>9 DEF Chain, Links, Positions, Carries
  <2>b. AllData(Pending)'
    BY <2>7, <2>8 DEF AllData
  <2>c. to > 0
    BY <1>1, <1>3
  <2>10. Sending'
    BY <1>2, <1>5, <2>1, <2>3, <2>9, <2>a, <2>b, <2>c DEF Inv, Sending
  <2>11. Asking' /\ Acknowledging'
    BY <1>2, <2>1 DEF Inv, Asking, Acknowledging
  <2>12. InStep'
    <3>1. SUFFICES ASSUME Len(file) <= RecordMax PROVE InStep'
      BY <1>2, <1>7 DEF InStep
    <3>2. /\ Len(copy) \in {0, Len(file)} /\ pos \in {0, Len(file)}
          /\ \A i \in 1..Len(p) : p[i].kind = "data" => Len(p[i].data) = Len(file)
          /\ acks + Read = Sent
      BY <1>7, <2>1, <3>1 DEF Inv, InStep, pos, p
    <3>3. pos = 0 /\ to = Len(file) /\ to - pos = Len(file) /\ to - pos <= RecordMax
      BY <1>1, <1>2, <1>3, <3>1, <3>2
    <3>4. \A i \in 1..Len(q) : q[i].kind = "data" => Len(q[i].data) = Len(file)
      BY <1>4, <2>6, <3>2, <3>3
    <3>5. Read = 1 /\ Read' = 1 /\ Sent' = Sent
      BY <1>2, <1>5, <3>3 DEF Read, Sent, pos
    <3> QED
      BY <1>2, <1>5, <1>7, <2>7, <3>2, <3>3, <3>4, <3>5 DEF InStep
  <2> QED
    BY <1>5, <2>10, <2>11, <2>12 DEF Inv
<1> QED
  BY <1>6, <1>7

LEMMA StepSendOver == ASSUME Inv, SendOver PROVE Inv'
<1> DEFINE r == [kind |-> "over"]
           out == <<r>>
<1>1. /\ Shape /\ acks \in Nat /\ c2s \in Seq(Record) /\ Len(file) \in Nat
      /\ client.pos \in 0..Len(file) /\ Len(copy) \in Nat
  BY DEF Inv, Shape
<1>2. r \in Record /\ r.kind = "over"
  BY DEF Record
<1>3. out \in Seq(Record) /\ Len(out) = 1 /\ out[1] = r
  BY <1>2
<1>4. Chain(out, Len(file), Len(file))
  BY <1>1, ChainOver
<1>5. /\ client.pc = "block" /\ client.out = << >> /\ client.pos = Len(file)
      /\ client' = [client EXCEPT !.pc = "end", !.out = out]
      /\ UNCHANGED <<file, len, c2s, acks, broken, server, copy>>
  BY DEF SendOver, Call, wire
<1> HIDE DEF out, r
<1>6. Shape' /\ client'.pc = "end" /\ client'.out = out /\ client'.pos = client.pos
  BY <1>1, <1>3, <1>5, ClientShape
<1>7. CASE broken # "no" \/ server.pc = "refused"
  BY <1>1, <1>5, <1>6, <1>7, Unnoticed
<1>8. CASE broken = "no" /\ server.pc # "refused"
  <2>1. server.pc \in {"ack", "read", "over"}
    BY <1>1, <1>5, <1>8 DEF Inv, Shape, Asking
  <2>2. Pending' = Pending \o out /\ Pending \in Seq(Record)
    BY <1>1, <1>5, <1>6, <1>8, PendingGrows, PendingIsSeq
  <2>3. Chain(Pending, Len(copy), Len(file)) /\ AllData(Pending) /\ server.pc # "over"
    BY <1>5, <1>8, <2>1 DEF Inv, Sending
  <2> DEFINE p == Pending
             q == p \o out
  <2>4. p \in Seq(Record) /\ Chain(p, Len(copy), Len(file)) /\ AllData(p)
    BY <2>2, <2>3
  <2> HIDE DEF p
  <2>5. Chain(q, Len(copy), Len(file))
    BY <1>1, <1>3, <1>4, <2>4, ChainConcat
  <2>6. /\ q \in Seq(Record) /\ Len(q) = Len(p) + 1 /\ Len(p) \in Nat
        /\ \A i \in 1..Len(q) : \/ i \in 1..Len(p) /\ q[i] = p[i]
                                \/ i - Len(p) \in 1..1 /\ q[i] = out[i - Len(p)]
    <3>0. Len(p) \in Nat
      BY <2>4
    <3>1. /\ q \in Seq(Record) /\ Len(q) = Len(p) + Len(out)
          /\ \A i \in 1..Len(q) : \/ i \in 1..Len(p) /\ q[i] = p[i]
                                  \/ i - Len(p) \in 1..Len(out) /\ q[i] = out[i - Len(p)]
      BY <1>3, <2>4, ConcatElements
    <3> HIDE DEF q
    <3> QED
      BY <1>3, <3>0, <3>1
  <2>7. Pending' = q
    BY <2>2 DEF p
  <2> HIDE DEF q
  <2>8. Len(q) > 0 /\ q[Len(q)].kind = "over"
    <3>1. Len(q) \in 1..Len(q) /\ ~(Len(q) \in 1..Len(p)) /\ Len(q) - Len(p) = 1
      BY <2>6
    <3> QED
      BY <1>2, <1>3, <2>6, <3>1
  <2>9. PICK e \in 0..Len(file) : e = Len(file)
    BY <1>1
  <2>a. Chain(Pending, Len(copy), e)'
    BY <1>5, <2>5, <2>7, <2>9 DEF Chain, Links, Positions, Carries
  <2>10. Sending'
    BY <1>5, <1>6, <2>1, <2>3, <2>7, <2>8, <2>9, <2>a DEF Inv, Sending
  <2>11. Asking' /\ Acknowledging'
    BY <1>5, <2>1 DEF Inv, Asking, Acknowledging
  <2>12. InStep'
    <3>1. SUFFICES ASSUME Len(file) <= RecordMax PROVE InStep'
      BY <1>5, <1>8 DEF InStep
    <3>2. /\ Len(copy) \in {0, Len(file)}
          /\ \A i \in 1..Len(p) : p[i].kind = "data" => Len(p[i].data) = Len(file)
          /\ acks + Read = Sent
      BY <1>8, <2>1, <3>1 DEF Inv, InStep, p
    <3>3. \A i \in 1..Len(q) : q[i].kind = "data" => Len(q[i].data) = Len(file)
      BY <1>2, <1>3, <2>6, <3>2
    <3>4. Read' = Read /\ Sent' = Sent
      BY <1>5, <1>6 DEF Read, Sent
    <3> QED
      BY <1>5, <1>6, <1>8, <2>7, <3>2, <3>3, <3>4 DEF InStep
  <2> QED
    BY <1>6, <2>10, <2>11, <2>12 DEF Inv
<1> QED
  BY <1>7, <1>8

LEMMA StepClose == ASSUME Inv, Close PROVE Inv'
<1>1. /\ Shape /\ acks \in Nat /\ c2s \in Seq(Record) /\ Len(file) \in Nat
      /\ client.pos \in 0..Len(file) /\ Len(copy) \in Nat /\ << >> \in Seq(Record)
  BY DEF Inv, Shape
<1>2. /\ client.pc = "end" /\ client.out = << >>
      /\ client' = [client EXCEPT !.pc = "closed", !.out = << >>]
      /\ UNCHANGED <<file, len, c2s, acks, broken, server, copy>>
  BY DEF Close, Call, wire
<1>3. Shape' /\ client'.pc = "closed" /\ client'.out = << >> /\ client'.pos = client.pos
  BY <1>1, <1>2, ClientShape
<1>4. CASE broken # "no" \/ server.pc = "refused"
  BY <1>1, <1>2, <1>3, <1>4, Unnoticed
<1>5. CASE broken = "no" /\ server.pc # "refused"
  <2>1. server.pc \in {"ack", "read", "over"}
    BY <1>1, <1>2, <1>5 DEF Inv, Shape, Asking
  <2>2. Pending' = Pending
    <3>1. client'.out = client.out /\ c2s' = c2s /\ broken' = broken
      BY <1>2, <1>3
    <3> QED
      BY <3>1 DEF Pending
  <2>3. \A e : Chain(Pending, Len(copy), e) => Chain(Pending, Len(copy), e)'
    BY <1>2, <2>2 DEF Chain, Links, Positions, Carries
  <2>4. Sending'
    BY <1>2, <1>3, <1>5, <2>1, <2>2, <2>3 DEF Inv, Sending
  <2>5. Asking' /\ Acknowledging'
    BY <1>2, <2>1 DEF Inv, Asking, Acknowledging
  <2>6. Read' = Read /\ Sent' = Sent
    BY <1>2, <1>3 DEF Read, Sent
  <2>7. InStep'
    BY <1>2, <1>3, <1>5, <2>1, <2>2, <2>6 DEF Inv, InStep
  <2> QED
    BY <1>3, <2>4, <2>5, <2>7 DEF Inv
<1> QED
  BY <1>4, <1>5

----------------------------------------------------------------------------
(* The steps of the server and of the network.                             *)

LEMMA ServerShape ==
  ASSUME Shape, UNCHANGED <<file, len, client, broken>>, c2s' \in Seq(Record),
         acks' \in Nat, copy' \in Seq(Units),
         NEW need \in 0..(MsgMax + 1), NEW got \in Nat, got <= need,
         NEW pc \in {"header", "payload", "ack", "read", "over", "refused"},
         \/ server' = [server EXCEPT !.need = need, !.pc = pc] /\ got = server.got
         \/ server' = [server EXCEPT !.got = got, !.pc = pc] /\ need = server.need
         \/ server' = [server EXCEPT !.got = got] /\ need = server.need /\ pc = server.pc
         \/ server' = [server EXCEPT !.pc = pc] /\ need = server.need /\ got = server.got
  PROVE  Shape' /\ server'.pc = pc /\ server'.need = need /\ server'.got = got
<1>1. server \in [pc : {"header", "payload", "ack", "read", "over", "refused"},
                  need : 0..(MsgMax + 1), got : Nat]
  BY DEF Shape
<1>2. server' = [pc |-> pc, need |-> need, got |-> got]
  BY <1>1
<1> QED
  BY <1>2 DEF Shape

\* TLSRecvMsg gives up.
LEMMA StepRefused ==
  ASSUME Inv, server.pc \in {"header", "payload"}, server'.pc = "refused", Shape',
         UNCHANGED <<file, len, client, acks, copy, broken>>
  PROVE  Inv'
BY DEF Inv, Asking, Sending, Acknowledging, InStep, Shape

LEMMA StepRecvLength == ASSUME Inv, RecvLength PROVE Inv'
<1>0. RecordMax \in Nat /\ RecordMax > 0 /\ MsgMax \in Nat
  BY SizesAssumption
<1>1. /\ Shape /\ acks \in Nat /\ c2s \in Seq(Record) /\ copy \in Seq(Units)
      /\ len \in 1..(MsgMax + 1) /\ len \in Nat
      /\ server.need \in 0..(MsgMax + 1) /\ server.got \in Nat /\ server.got <= server.need
      /\ server.pc = "header"
  BY <1>0 DEF Inv, Shape, RecvLength
<1>2. UNCHANGED <<file, len, client, acks, copy, broken>>
  BY DEF RecvLength
<1>3. /\ acks = 0 /\ copy = << >> /\ server.got = 0 /\ Asked(Pending)
      /\ broken = "no" =>
           /\ client.pos = 0
           /\ \/ client.pc = "header" /\ Len(Pending) = 0
              \/ client.pc = "payload" /\ Len(Pending) = Base
              \/ client.pc = "first" /\ Len(Pending) = Base + Records(Left)
  BY <1>1 DEF Inv, Asking
<1>4. CASE c2s = << >>
  <2>1. Refuse /\ c2s' = c2s
    BY <1>4 DEF RecvLength
  <2>2. Shape' /\ server'.pc = "refused"
    BY <1>1, <1>2, <2>1, ServerShape DEF Refuse
  <2> QED
    BY <1>1, <1>2, <2>2, StepRefused
<1>5. CASE c2s # << >>
  <2>1. /\ c2s' = Tail(c2s) /\ c2s' \in Seq(Record)
        /\ server' = [server EXCEPT !.need = Head(c2s).n,
                        !.pc = IF Head(c2s).n > MsgMax THEN "refused" ELSE "payload"]
    <3>1. Tail(c2s) \in Seq(Record)
      BY <1>1, <1>5
    <3> QED
      BY <1>5, <3>1 DEF RecvLength, ReadFails
  <2> DEFINE p == Pending
             m == Len(p)
  <2>2. p # << >> /\ Head(c2s) = Head(p) /\ Pending' = Tail(p) /\ p \in Seq(Record)
    BY <1>1, <1>2, <1>5, <2>1, PendingHead, PendingIsSeq
  <2> HIDE DEF p
  <2>3. /\ m \in Nat /\ m > 0 /\ Head(p) = p[1] /\ Len(Tail(p)) = m - 1
        /\ \A i \in 1..(m - 1) : Tail(p)[i] = p[i + 1]
    BY <2>2
  <2>4. Base = 1 /\ Left = len
    BY <1>1, <1>3 DEF Base, Left
  <2>5. m <= 1 + Records(len) /\ Records(len) \in Nat
        /\ \A i \in 1..m : p[i] = Expected(i)
    BY <1>1, <1>3, <2>4, RecordsFacts DEF Asked, p
  <2> HIDE DEF m
  <2>6. Head(c2s).n = len
    <3>1. 1 \in 1..m /\ 1 <= 1
      BY <2>3
    <3>2. p[1] = [kind |-> "len", n |-> len]
      BY <2>4, <2>5, <3>1 DEF Expected
    <3> QED
      BY <2>2, <2>3, <3>2
  <2>7. CASE len > MsgMax
    <3>1. server' = [server EXCEPT !.need = len, !.pc = "refused"]
      BY <2>1, <2>6, <2>7
    <3>2. len \in 0..(MsgMax + 1) /\ server.got <= len
      BY <1>0, <1>1, <1>3
    <3>3. Shape' /\ server'.pc = "refused"
      BY <1>1, <1>2, <2>1, <3>1, <3>2, ServerShape
    <3> QED
      BY <1>1, <1>2, <3>3, StepRefused
  <2>8. CASE ~(len > MsgMax)
    <3>1. server' = [server EXCEPT !.need = len, !.pc = "payload"]
      BY <2>1, <2>6, <2>8
    <3>2. len \in 0..(MsgMax + 1) /\ server.got <= len
      BY <1>0, <1>1, <1>3
    <3>3. Shape' /\ server'.pc = "payload" /\ server'.need = len /\ server'.got = 0
      BY <1>1, <1>2, <1>3, <2>1, <3>1, <3>2, ServerShape
    <3>4. Base' = 0 /\ Left' = len
      BY <1>1, <1>2, <3>3 DEF Base, Left
    <3>5. Records(Left)' = Records(len)
      BY <3>4 DEF Records
    <3>6. \A i : ~(i <= 0) => Expected(i)' = [kind |-> "msg", n |-> SizeOfRecord(len, i - 0)]
      BY <3>4 DEF Expected, SizeOfRecord
    <3>7. Len(Pending)' = m - 1 /\ \A i \in 1..(m - 1) : Pending'[i] = p[i + 1]
      BY <2>2, <2>3
    <3>8. ASSUME NEW i \in 1..(m - 1)
          PROVE  Pending'[i] = Expected(i)'
      <4>1. i + 1 \in 1..m /\ ~(i + 1 <= 1) /\ ~(i <= 0) /\ (i + 1) - 1 = i /\ i - 0 = i
        BY <2>3
      <4>2. p[i + 1] = [kind |-> "msg", n |-> SizeOfRecord(len, i)]
        BY <2>4, <2>5, <4>1 DEF Expected
      <4> QED
        BY <3>6, <3>7, <4>1, <4>2
    <3>9. m - 1 <= 0 + Records(len)
      BY <2>3, <2>5
    <3>10. Asked(Pending)'
      BY <3>4, <3>5, <3>7, <3>8, <3>9 DEF Asked
    <3>11. broken = "no" =>
             \/ client.pc = "payload" /\ m - 1 = 0
             \/ client.pc = "first" /\ m - 1 = 0 + Records(len)
      BY <1>3, <2>3, <2>4, <2>5 DEF m, p
    <3>12. Asking'
      BY <1>1, <1>2, <1>3, <3>3, <3>4, <3>5, <3>7, <3>10, <3>11 DEF Asking
    <3>13. Sending' /\ Acknowledging' /\ InStep'
      BY <1>1, <1>2, <1>3, <3>3 DEF Inv, Sending, Acknowledging, InStep
    <3> QED
      BY <3>3, <3>12, <3>13 DEF Inv
  <2> QED
    BY <2>7, <2>8
<1> QED
  BY <1>4, <1>5

LEMMA StepRecvPayload == ASSUME Inv, RecvPayload PROVE Inv'
<1>0. RecordMax \in Nat /\ RecordMax > 0 /\ MsgMax \in Nat
  BY SizesAssumption
<1>1. /\ Shape /\ acks \in Nat /\ c2s \in Seq(Record) /\ copy \in Seq(Units)
      /\ len \in 1..(MsgMax + 1) /\ len \in Nat
      /\ server.need \in 0..(MsgMax + 1) /\ server.got \in Nat /\ server.got <= server.need
      /\ server.pc = "payload"
  BY <1>0 DEF Inv, Shape, RecvPayload
<1>2. UNCHANGED <<file, len, client, acks, copy, broken>>
  BY DEF RecvPayload
<1>3. /\ acks = 0 /\ copy = << >> /\ server.need = len /\ server.got < len /\ Asked(Pending)
      /\ broken = "no" =>
           /\ client.pos = 0
           /\ \/ client.pc = "payload" /\ server.got = 0 /\ Len(Pending) = Base
              \/ client.pc = "first" /\ Len(Pending) = Base + Records(Left)
  BY <1>1 DEF Inv, Asking
<1>4. CASE c2s = << >>
  <2>1. Refuse /\ c2s' = c2s
    BY <1>4 DEF RecvPayload
  <2>2. Shape' /\ server'.pc = "refused"
    BY <1>1, <1>2, <2>1, ServerShape DEF Refuse
  <2> QED
    BY <1>1, <1>2, <2>2, StepRefused
<1>5. CASE c2s # << >>
  <2> DEFINE got == server.got + Head(c2s).n
             p == Pending
             m == Len(p)
             L == Left
  <2>1. /\ c2s' = Tail(c2s) /\ c2s' \in Seq(Record)
        /\ IF got < server.need THEN server' = [server EXCEPT !.got = got]
           ELSE server' = [server EXCEPT !.got = got, !.pc = "ack"]
    <3>1. Tail(c2s) \in Seq(Record)
      BY <1>1, <1>5
    <3> QED
      BY <1>5, <3>1 DEF RecvPayload, ReadFails, Dispatch
  <2>2. p # << >> /\ Head(c2s) = Head(p) /\ Pending' = Tail(p) /\ p \in Seq(Record)
    BY <1>1, <1>2, <1>5, <2>1, PendingHead, PendingIsSeq
  <2> HIDE DEF p
  <2>3. /\ m \in Nat /\ m > 0 /\ Head(p) = p[1] /\ Len(Tail(p)) = m - 1
        /\ \A i \in 1..(m - 1) : Tail(p)[i] = p[i + 1]
    BY <2>2
  <2>4. Base = 0 /\ L = len - server.got /\ L \in Nat /\ L > 0
    BY <1>1, <1>3 DEF Base, Left
  <2> HIDE DEF L
  <2>5. m <= 0 + Records(L) /\ Records(L) \in Nat
        /\ \A i \in 1..m : p[i] = [kind |-> "msg", n |-> SizeOfRecord(L, i)]
    <3>1. m <= 0 + Records(L) /\ \A i \in 1..m : p[i] = Expected(i)
      BY <1>3, <2>4 DEF Asked, p, L
    <3>2. \A i \in 1..m : ~(i <= 0) /\ i - 0 = i
      BY <2>3
    <3> QED
      BY <2>4, <3>1, <3>2, RecordsFacts DEF Expected, L
  <2> HIDE DEF m
  <2>6. Head(c2s).n = IF RecordMax < L THEN RecordMax ELSE L
    <3>1. 1 \in 1..m
      BY <2>3
    <3>2. p[1].n = SizeOfRecord(L, 1)
      <4>1. p[1] = [kind |-> "msg", n |-> SizeOfRecord(L, 1)]
        BY <2>5, <3>1
      <4> QED
        BY <4>1
    <3>3. L - (1 - 1) * RecordMax = L
      BY <1>0, <2>4
    <3> QED
      BY <2>2, <2>3, <3>2, <3>3 DEF SizeOfRecord, Smaller
  <2>7. Len(Pending)' = m - 1 /\ \A i \in 1..(m - 1) : Pending'[i] = p[i + 1]
    BY <2>2, <2>3
  <2>8. CASE RecordMax < L
    <3>1. got = server.got + RecordMax /\ got \in Nat /\ got < len
      BY <1>0, <1>1, <2>4, <2>6, <2>8
    <3>2. server' = [server EXCEPT !.got = got] /\ got <= server.need
      BY <1>1, <1>3, <2>1, <3>1
    <3> HIDE DEF got
    <3>3. Shape' /\ server'.pc = "payload" /\ server'.need = len /\ server'.got = got
      BY <1>1, <1>2, <1>3, <2>1, <3>1, <3>2, ServerShape
    <3>4. Base' = 0 /\ Left' = L - RecordMax
      BY <1>0, <1>1, <1>2, <2>4, <3>1, <3>3 DEF Base, Left
    <3>5. Records(Left)' = Records(L) - 1
      <4>1. Records(L) = Records(L - RecordMax) + 1 /\ Records(L - RecordMax) \in Nat
        <5>1. L - RecordMax \in Nat
          BY <1>0, <2>4, <2>8
        <5> QED
          BY <2>4, <2>8, <5>1, RecordsFacts
      <4>2. Records(Left)' = Records(L - RecordMax)
        BY <3>4 DEF Records
      <4> QED
        BY <2>5, <4>1, <4>2
    <3>6. ASSUME NEW i \in 1..(m - 1)
          PROVE  Pending'[i] = Expected(i)'
      <4>1. i + 1 \in 1..m /\ ~(i <= 0) /\ i - 0 = i /\ i \in Nat
        BY <2>3
      <4>2. Expected(i)' = [kind |-> "msg", n |-> SizeOfRecord(L - RecordMax, i)]
        BY <3>4, <4>1 DEF Expected, SizeOfRecord
      <4>3. (L - RecordMax) - (i - 1) * RecordMax = L - (i + 1 - 1) * RecordMax
        BY <1>0, <2>4, <4>1
      <4>4. SizeOfRecord(L - RecordMax, i) = SizeOfRecord(L, i + 1)
        BY <4>3 DEF SizeOfRecord
      <4> QED
        BY <2>5, <2>7, <4>1, <4>2, <4>4
    <3>7. m - 1 <= 0 + (Records(L) - 1)
      BY <2>3, <2>5
    <3>8. Asked(Pending)'
      BY <2>7, <3>4, <3>5, <3>6, <3>7 DEF Asked
    <3>9. broken = "no" => client.pc = "first" /\ m - 1 = 0 + (Records(L) - 1)
      BY <1>3, <2>3, <2>4, <2>5 DEF m, p, L
    <3>10. Asking'
      BY <1>1, <1>2, <1>3, <2>7, <3>1, <3>3, <3>4, <3>5, <3>8, <3>9 DEF Asking
    <3>11. Sending' /\ Acknowledging' /\ InStep'
      BY <1>1, <1>2, <1>3, <3>3 DEF Inv, Sending, Acknowledging, InStep
    <3> QED
      BY <3>3, <3>10, <3>11 DEF Inv
  <2>9. CASE ~(RecordMax < L)
    <3>1. got = len /\ got \in Nat /\ ~(got < server.need) /\ got <= server.need
      <4>1. got = server.got + L
        BY <2>6, <2>9
      <4>2. server.got + L = len
        BY <1>1, <2>4
      <4> HIDE DEF got
      <4> QED
        BY <1>1, <1>3, <4>1, <4>2
    <3>2. server' = [server EXCEPT !.got = got, !.pc = "ack"]
      BY <2>1, <3>1
    <3> HIDE DEF got
    <3>3. Shape' /\ server'.pc = "ack" /\ server'.got = len
      BY <1>1, <1>2, <1>3, <2>1, <3>1, <3>2, ServerShape
    <3>4. Records(L) = 1
      BY <1>0, <2>4, <2>9, RecordsFacts
    <3>5. m = 1 /\ Len(Tail(p)) = 0
      BY <2>3, <2>5, <3>4
    <3>6. Pending' = << >>
      BY <2>2, <3>5
    <3>7. broken = "no" => client.pc = "first" /\ client.pos = 0
      BY <1>3, <2>3, <2>4 DEF m, p
    <3>8. /\ Len(file) \in Nat /\ Len(copy) = 0 /\ copy = SubSeq(file, 1, 0)
          /\ client.pos \in 0..Len(file)
      BY <1>1, <1>3 DEF Shape
    <3>9. Chain(<< >>, 0, 0)
      BY <3>8, ChainEmpty
    <3>10. Chain(Pending, Len(copy), 0)'
      BY <1>2, <3>6, <3>8, <3>9 DEF Chain, Links, Positions, Carries
    <3>11. AllData(Pending)'
      BY <3>6 DEF AllData
    <3>12. Sending'
      BY <1>2, <3>3, <3>7, <3>8, <3>10, <3>11 DEF Sending
    <3>13. Asking' /\ Acknowledging'
      BY <1>2, <1>3, <3>3, <3>8 DEF Asking, Acknowledging
    <3>14. InStep'
      <4>1. broken = "no" => Read' = 0 /\ Sent' = 0
        BY <1>2, <3>3, <3>7, <3>8 DEF Read, Sent
      <4>2. (broken = "reset" => Len(file) > RecordMax)'
        BY <1>2 DEF Inv, InStep
      <4>3. Len(Pending') = 0
        BY <3>6
      <4> QED
        BY <1>2, <1>3, <3>7, <3>8, <4>1, <4>2, <4>3 DEF InStep
    <3> QED
      BY <3>3, <3>12, <3>13, <3>14 DEF Inv
  <2> QED
    BY <2>8, <2>9
<1> QED
  BY <1>4, <1>5

LEMMA StepSendAck == ASSUME Inv, SendAck PROVE Inv'
<1>1. /\ Shape /\ acks \in Nat /\ c2s \in Seq(Record) /\ copy \in Seq(Units) /\ Len(copy) \in Nat
      /\ server.need \in 0..(MsgMax + 1) /\ server.got \in Nat /\ server.got <= server.need
      /\ server.pc = "ack"
  BY DEF Inv, Shape, SendAck
<1>2. /\ UNCHANGED <<file, len, client, c2s, copy, broken>>
      /\ acks' = IF broken = "no" THEN acks + 1 ELSE acks
      /\ server' = [server EXCEPT !.pc = "read"]
  BY DEF SendAck
<1>3. acks' \in Nat
  BY <1>1, <1>2
<1>4. Shape' /\ server'.pc = "read" /\ server'.got = server.got
  BY <1>1, <1>2, <1>3, ServerShape
<1>5. Pending' = Pending
  BY <1>2 DEF Pending
<1>6. \A e : Chain(Pending, Len(copy), e) => Chain(Pending, Len(copy), e)'
  BY <1>2, <1>5 DEF Chain, Links, Positions, Carries
<1>7. Sending'
  BY <1>1, <1>2, <1>4, <1>5, <1>6 DEF Inv, Sending, AllData
<1>8. Asking'
  BY <1>4 DEF Asking
<1>9. Acknowledging'
  BY <1>1, <1>2, <1>4 DEF Inv, Acknowledging
<1>10. Read' = Read /\ Read \in Nat /\ Sent' = Sent + 1 /\ Sent \in Nat
  BY <1>1, <1>2, <1>4 DEF Read, Sent
<1>11. InStep'
  BY <1>1, <1>2, <1>4, <1>5, <1>10 DEF Inv, InStep
<1> QED
  BY <1>4, <1>7, <1>8, <1>9, <1>11 DEF Inv

LEMMA SubSeqExtends ==
  ASSUME NEW S, NEW s \in Seq(S), NEW b \in 0..Len(s), NEW m \in 0..Len(s), b <= m
  PROVE  /\ SubSeq(s, 1, b) \o SubSeq(s, b + 1, m) = SubSeq(s, 1, m)
         /\ SubSeq(s, 1, m) \in Seq(S) /\ Len(SubSeq(s, 1, m)) = m
         /\ Len(SubSeq(s, b + 1, m)) = m - b
<1> DEFINE u == SubSeq(s, 1, b)
           v == SubSeq(s, b + 1, m)
           w == SubSeq(s, 1, m)
<1>0. b \in Nat /\ m \in Nat /\ Len(s) \in Nat /\ b <= m /\ m <= Len(s)
  OBVIOUS
<1>1. u \in Seq(S) /\ Len(u) = b /\ \A i \in 1..b : u[i] = s[i]
  BY <1>0
<1>2. w \in Seq(S) /\ Len(w) = m /\ \A i \in 1..m : w[i] = s[i]
  BY <1>0
<1>3. v \in Seq(S) /\ Len(v) = m - b /\ \A i \in 1..(m - b) : v[i] = s[b + i]
  <2>1. CASE b = m
    BY <1>0, <2>1
  <2>2. CASE b < m
    BY <1>0, <2>2
  <2> QED
    BY <1>0, <2>1, <2>2
<1> HIDE DEF u, v, w
<1>4. /\ u \o v \in Seq(S) /\ Len(u \o v) = m
      /\ \A i \in 1..m : \/ i \in 1..b /\ (u \o v)[i] = u[i]
                         \/ i - b \in 1..(m - b) /\ (u \o v)[i] = v[i - b]
  <2>1. Len(u) + Len(v) = m
    BY <1>0, <1>1, <1>3
  <2>2. /\ u \o v \in Seq(S) /\ Len(u \o v) = Len(u) + Len(v)
        /\ \A i \in 1..Len(u \o v) : \/ i \in 1..Len(u) /\ (u \o v)[i] = u[i]
                                     \/ i - Len(u) \in 1..Len(v) /\ (u \o v)[i] = v[i - Len(u)]
    BY <1>1, <1>3, ConcatElements
  <2> QED
    BY <1>1, <1>3, <2>1, <2>2
<1>5. \A i \in 1..m : (u \o v)[i] = w[i]
  <2> TAKE i \in 1..m
  <2>1. CASE i \in 1..b /\ (u \o v)[i] = u[i]
    BY <1>1, <1>2, <2>1
  <2>2. CASE i - b \in 1..(m - b) /\ (u \o v)[i] = v[i - b]
    <3>1. b + (i - b) = i
      BY <1>0
    <3>2. v[i - b] = s[b + (i - b)]
      BY <1>3, <2>2
    <3> QED
      BY <1>2, <2>2, <3>1, <3>2
  <2> QED
    BY <1>4, <2>1, <2>2
<1>6. u \o v = w
  BY <1>2, <1>4, <1>5, SeqEqual
<1> QED
  BY <1>2, <1>3, <1>6 DEF u, v, w

LEMMA StepRecvBlock == ASSUME Inv, RecvBlock PROVE Inv'
<1>1. /\ Shape /\ acks \in Nat /\ c2s \in Seq(Record) /\ copy \in Seq(Units) /\ Len(copy) \in Nat
      /\ file \in Seq(Units) /\ Len(file) \in Nat
      /\ server.need \in 0..(MsgMax + 1) /\ server.got \in Nat /\ server.got <= server.need
      /\ server.pc = "read"
  BY DEF Inv, Shape, RecvBlock
<1>2. UNCHANGED <<file, len, client, acks, broken>>
  BY DEF RecvBlock
<1>3. PICK e \in 0..Len(file) : Chain(Pending, Len(copy), e) /\ (broken = "no" => e = client.pos)
  BY <1>1 DEF Inv, Sending
<1>a. /\ server.got = len /\ Len(copy) <= Len(file) /\ copy = SubSeq(file, 1, Len(copy))
      /\ broken = "no" =>
         /\ client.pc \notin {"header", "payload"}
         /\ client.pc = "first" => client.pos = 0
         /\ client.pc = "ack" => client.pos > 0
         /\ client.pc = "closed" => client.out = << >>
         /\ client.pc \in {"first", "block", "ack"} => AllData(Pending)
         /\ client.pc \in {"end", "closed"} =>
              /\ client.pos = Len(file)
              /\ Len(Pending) > 0 /\ Pending[Len(Pending)].kind = "over"
  BY <1>1 DEF Inv, Sending
<1>b. acks <= Len(copy) + 1 /\ (broken = "reset" => Len(file) > RecordMax)
  BY DEF Inv, Acknowledging, InStep
<1>4. CASE c2s = << >>
  <2>1. ReadFails /\ server' = [server EXCEPT !.pc = "ack"] /\ c2s' = c2s /\ copy' = copy
    BY <1>4 DEF RecvBlock
  <2>2. Shape' /\ server'.pc = "ack" /\ server'.got = server.got
    BY <1>1, <1>2, <2>1, ServerShape
  <2>3. broken # "no"
    <3>1. SUFFICES ASSUME broken = "no" PROVE FALSE
      OBVIOUS
    <3>2. client.pc = "closed" /\ client.out = << >>
      BY <1>a, <2>1, <3>1 DEF ReadFails
    <3>3. Pending = << >> /\ Len(Pending) = 0
      BY <1>4, <3>1, <3>2 DEF Pending
    <3> QED
      BY <1>a, <3>1, <3>2, <3>3
  <2>4. Pending' = Pending
    BY <1>2, <2>1 DEF Pending
  <2>5. Chain(Pending, Len(copy), e)'
    BY <1>2, <1>3, <2>1, <2>4 DEF Chain, Links, Positions, Carries
  <2>6. Sending'
    BY <1>2, <1>a, <2>1, <2>2, <2>3, <2>5 DEF Sending
  <2>7. Asking' /\ Acknowledging' /\ InStep'
    BY <1>2, <1>b, <2>1, <2>2, <2>3 DEF Asking, Acknowledging, InStep
  <2> QED
    BY <2>2, <2>6, <2>7 DEF Inv
<1>5. CASE c2s # << >>
  <2> DEFINE p == Pending
             b == Len(copy)
  <2>1. /\ c2s' = Tail(c2s) /\ c2s' \in Seq(Record)
        /\ \/ /\ Head(c2s).kind = "over"
              /\ server' = [server EXCEPT !.pc = "over"]
              /\ copy' = copy
           \/ /\ Head(c2s).kind = "data"
              /\ copy' = copy \o Head(c2s).data
              /\ server' = [server EXCEPT !.pc = "ack"]
    <3>1. Tail(c2s) \in Seq(Record)
      BY <1>1, <1>5
    <3> QED
      BY <1>5, <3>1 DEF RecvBlock, ReadFails
  <2>2. p # << >> /\ Head(c2s) = Head(p) /\ Pending' = Tail(p) /\ p \in Seq(Record)
        /\ Chain(p, b, e)
    BY <1>1, <1>2, <1>3, <1>5, <2>1, PendingHead, PendingIsSeq
  <2>3. /\ broken = "no" /\ client.pc \in {"first", "block", "ack"} => AllData(p)
        /\ broken = "no" /\ client.pc \in {"end", "closed"} =>
              Len(p) > 0 /\ p[Len(p)].kind = "over"
        /\ Len(file) <= RecordMax /\ broken = "no" =>
             /\ b \in {0, Len(file)} /\ client.pos \in {0, Len(file)}
             /\ \A i \in 1..Len(p) : p[i].kind = "data" => Len(p[i].data) = Len(file)
             /\ acks + Read = Sent
    BY <1>1, <1>a DEF Inv, InStep
  <2> HIDE DEF p
  <2>4. /\ Len(p) \in Nat /\ Len(p) > 0 /\ Head(p) = p[1] /\ Tail(p) \in Seq(Record)
        /\ Len(Tail(p)) = Len(p) - 1
        /\ \A i \in 1..(Len(p) - 1) : Tail(p)[i] = p[i + 1]
    BY <2>2
  <2>5. 1 \in 1..Len(p) /\ \A i \in 1..(Len(p) - 1) : i + 1 \in 1..Len(p)
    BY <2>4
  <2>6. CASE Head(p).kind = "data"
    <3>1. PICK m \in 0..Len(file) : /\ b < m /\ b \in 0..Len(file)
                                    /\ Head(p).data = SubSeq(file, b + 1, m)
                                    /\ Chain(Tail(p), m, e)
      BY <1>1, <2>2, <2>6, ChainHead
    <3>2. copy' = copy \o SubSeq(file, b + 1, m) /\ server' = [server EXCEPT !.pc = "ack"]
      BY <2>1, <2>2, <2>6, <3>1
    <3>3. copy = SubSeq(file, 1, b) /\ b <= m /\ m \in Nat
      BY <1>1, <1>a, <3>1
    <3> HIDE DEF b
    <3>4. copy' = SubSeq(file, 1, m) /\ copy' \in Seq(Units) /\ Len(copy') = m
          /\ Len(Head(p).data) = m - b
      <4>1. b \in 0..Len(file) /\ m \in 0..Len(file) /\ b <= m /\ file \in Seq(Units)
        BY <1>1, <3>1, <3>3
      <4>2. /\ SubSeq(file, 1, b) \o SubSeq(file, b + 1, m) = SubSeq(file, 1, m)
            /\ SubSeq(file, 1, m) \in Seq(Units) /\ Len(SubSeq(file, 1, m)) = m
            /\ Len(SubSeq(file, b + 1, m)) = m - b
        BY <4>1, SubSeqExtends
      <4>3. copy' = SubSeq(file, 1, m)
        BY <3>2, <3>3, <4>2
      <4> QED
        BY <3>1, <4>2, <4>3
    <3>5. Shape' /\ server'.pc = "ack" /\ server'.got = server.got
      BY <1>1, <1>2, <2>1, <3>2, <3>4, ServerShape
    <3>6. Chain(Pending, Len(copy), e)'
      BY <1>2, <2>2, <3>1, <3>4 DEF Chain, Links, Positions, Carries
    <3>7. AllData(p) => AllData(Pending)'
      BY <2>2, <2>4, <2>5 DEF AllData
    <3>8. ASSUME Len(p) > 0, p[Len(p)].kind = "over"
          PROVE  Len(Pending') > 0 /\ Pending'[Len(Pending')].kind = "over"
      <4>1. Len(p) # 1
        BY <2>4, <2>6, <3>8
      <4>2. Len(p) - 1 \in 1..(Len(p) - 1) /\ (Len(p) - 1) + 1 = Len(p) /\ Len(p) - 1 > 0
        BY <2>4, <4>1
      <4> QED
        BY <2>2, <2>4, <3>8, <4>2
    <3>9. Sending'
      BY <1>2, <1>3, <1>a, <2>3, <3>1, <3>4, <3>5, <3>6, <3>7, <3>8 DEF Sending
    <3>10. Asking'
      BY <3>5 DEF Asking
    <3>11. Acknowledging'
      <4>1. acks <= m
        BY <1>1, <1>b, <3>1, <3>3 DEF b
      <4> QED
        BY <1>1, <1>2, <3>3, <3>4, <3>5, <4>1 DEF Acknowledging
    <3>12. InStep'
      <4>1. SUFFICES ASSUME Len(file) <= RecordMax, broken = "no" PROVE InStep'
        BY <1>2, <1>b DEF InStep
      <4>2. b = 0 /\ m = Len(file) /\ m > 0
        <5>1. Len(p[1].data) = Len(file)
          BY <2>3, <2>4, <2>5, <2>6, <4>1
        <5>2. b \in {0, Len(file)}
          BY <2>3, <4>1
        <5> QED
          BY <1>1, <2>4, <3>1, <3>4, <5>1, <5>2
      <4>3. \A i \in 1..Len(Pending') : Pending'[i].kind = "data" => Len(Pending'[i].data) = Len(file)
        BY <2>2, <2>3, <2>4, <2>5, <4>1
      <4>4. Read' = Read
        BY <1>2 DEF Read
      <4>5. Sent = 1 /\ Sent' = 1
        BY <1>1, <3>4, <3>5, <4>2 DEF Sent, b
      <4> QED
        BY <1>2, <2>3, <3>4, <4>1, <4>2, <4>3, <4>4, <4>5 DEF InStep
    <3> QED
      BY <3>5, <3>9, <3>10, <3>11, <3>12 DEF Inv
  <2>7. CASE Head(p).kind # "data"
    <3>1. b = Len(file) /\ e = Len(file) /\ Len(p) = 1 /\ Tail(p) = << >> /\ Head(p).kind = "over"
      BY <1>1, <2>2, <2>7, ChainHead
    <3>2. copy' = copy /\ server' = [server EXCEPT !.pc = "over"]
      BY <2>1, <2>2, <2>7
    <3>3. Shape' /\ server'.pc = "over" /\ server'.got = server.got
      BY <1>1, <1>2, <2>1, <3>2, ServerShape
    <3>4. Pending' = << >> /\ Len(Pending') = 0
      BY <2>2, <3>1
    <3>5. Chain(<< >>, b, e)
      BY <1>1, <3>1, ChainEmpty
    <3>6. Chain(Pending, Len(copy), e)'
      BY <1>2, <3>2, <3>4, <3>5 DEF Chain, Links, Positions, Carries
    <3>7. broken = "no" => client.pc \in {"end", "closed"}
      <4>1. ~AllData(p)
        BY <2>4, <2>5, <3>1 DEF AllData
      <4> QED
        BY <1>1, <1>a, <2>3, <4>1 DEF Shape
    <3>8. Sending'
      BY <1>2, <1>3, <1>a, <3>2, <3>3, <3>4, <3>6, <3>7 DEF Sending
    <3>9. Asking' /\ Acknowledging'
      BY <1>2, <1>b, <3>2, <3>3 DEF Asking, Acknowledging
    <3>10. Read' = Read /\ Sent' = Sent
      BY <1>1, <1>2, <3>2, <3>3 DEF Read, Sent
    <3>11. InStep'
      BY <1>2, <1>b, <2>3, <3>2, <3>4, <3>10 DEF InStep
    <3> QED
      BY <3>3, <3>8, <3>9, <3>11 DEF Inv
  <2> QED
    BY <2>6, <2>7
<1> QED
  BY <1>4, <1>5

\* The connection breaks.
LEMMA StepLose ==
  ASSUME Inv, NEW how \in {"cut", "reset"}, Lose(how), acks' \in Nat, acks' <= acks,
         how = "reset" => Len(file) > RecordMax
  PROVE  Inv'
<1>1. /\ Shape /\ acks \in Nat /\ c2s \in Seq(Record) /\ client.out \in Seq(Record)
      /\ file \in Seq(Units) /\ Len(file) \in Nat /\ Len(copy) \in Nat
  BY DEF Inv, Shape
<1>2. PICK k \in 0..Len(c2s) : c2s' = SubSeq(c2s, 1, k)
  BY DEF Lose
<1>3. UNCHANGED <<file, len, client, server, copy>> /\ broken = "no" /\ broken' = how
  BY DEF Lose
<1> DEFINE p == Pending
<1>4. p \in Seq(Record) /\ k \in 0..Len(p) /\ SubSeq(c2s, 1, k) = SubSeq(p, 1, k)
  <2> DEFINE u == c2s
             v == client.out
  <2>1. /\ u \o v \in Seq(Record) /\ Len(u \o v) = Len(u) + Len(v)
        /\ Len(u) \in Nat /\ Len(v) \in Nat /\ k \in Nat /\ k <= Len(u)
    BY <1>1
  <2>2. \A i \in 1..k : (u \o v)[i] = u[i]
    BY <1>1, <2>1
  <2> HIDE DEF u, v
  <2>3. k <= Len(u \o v) /\ k \in 0..Len(u \o v)
    BY <2>1
  <2>4. u \in Seq(Record)
    BY <1>1 DEF u
  <2>5. SubSeq(u, 1, k) \in Seq(Record) /\ Len(SubSeq(u, 1, k)) = k
        /\ \A i \in 1..k : SubSeq(u, 1, k)[i] = u[i]
    BY <2>1, <2>4
  <2>6. SubSeq(u \o v, 1, k) \in Seq(Record) /\ Len(SubSeq(u \o v, 1, k)) = k
        /\ \A i \in 1..k : SubSeq(u \o v, 1, k)[i] = (u \o v)[i]
    BY <2>1, <2>3
  <2>7. SubSeq(u, 1, k) = SubSeq(u \o v, 1, k)
    BY <2>2, <2>5, <2>6, SeqEqual
  <2>8. p = u \o v
    BY <1>3 DEF Pending, u, v
  <2> QED
    BY <2>1, <2>3, <2>7, <2>8 DEF u
<1>5. Pending' = SubSeq(p, 1, k) /\ c2s' = SubSeq(p, 1, k)
  BY <1>2, <1>3, <1>4 DEF Pending
<1>p. p = Pending
  OBVIOUS
<1> HIDE DEF p
<1>6. SubSeq(p, 1, k) \in Seq(Record) /\ Len(SubSeq(p, 1, k)) = k /\ k \in Nat /\ k <= Len(p)
      /\ Len(p) \in Nat /\ \A i \in 1..k : i \in 1..Len(p) /\ SubSeq(p, 1, k)[i] = p[i]
  BY <1>4
<1>7. Shape'
  BY <1>1, <1>3, <1>5, <1>6 DEF Shape
<1>8. Asking'
  <2>1. SUFFICES ASSUME server.pc \in {"header", "payload"} PROVE Asking'
    BY <1>3 DEF Asking
  <2>2. acks = 0 /\ Asked(p)
    BY <1>p, <2>1 DEF Inv, Asking
  <2>3. Base' = Base /\ Left' = Left
    BY <1>3 DEF Base, Left
  <2>4. Records(Left)' = Records(Left) /\ \A i : Expected(i)' = Expected(i)
    BY <1>3, <2>3 DEF Records, Expected, SizeOfRecord
  <2>5. Left \in Nat /\ Base \in Nat
    BY <1>1, <2>1, SizesAssumption DEF Inv, Asking, Shape, Left, Base
  <2>6. Records(Left) \in Nat
    BY <2>5, RecordsFacts
  <2>7. k <= Base + Records(Left)
    BY <1>6, <2>2, <2>5, <2>6 DEF Asked
  <2>8. Asked(Pending)'
    BY <1>5, <1>6, <2>2, <2>3, <2>4, <2>7 DEF Asked
  <2>9. acks' = 0
    BY <2>2
  <2> QED
    BY <1>3, <2>1, <2>8, <2>9 DEF Inv, Asking
<1>9. Sending'
  <2>1. SUFFICES ASSUME server.pc \in {"ack", "read", "over"} PROVE Sending'
    BY <1>3 DEF Sending
  <2>2. PICK e : Chain(p, Len(copy), e)
    BY <1>p, <2>1 DEF Inv, Sending
  <2>3. PICK m : Chain(SubSeq(p, 1, k), Len(copy), m)
    BY <1>1, <1>4, <2>2, ChainCut
  <2>4. m \in 0..Len(file)
    <3> DEFINE n == Len(SubSeq(p, 1, k))
    <3>1. n \in Nat /\ n + 1 \in 1..(n + 1)
      BY <1>6
    <3> QED
      BY <2>3, <3>1 DEF Chain, Positions
  <2>5. Chain(Pending, Len(copy), m)'
    BY <1>3, <1>5, <2>3 DEF Chain, Links, Positions, Carries
  <2> QED
    BY <1>3, <2>1, <2>4, <2>5 DEF Inv, Sending
<1>10. Acknowledging' /\ InStep'
  BY <1>1, <1>3 DEF Inv, Acknowledging, InStep
<1> QED
  BY <1>7, <1>8, <1>9, <1>10 DEF Inv

LEMMA StepCut == ASSUME Inv, Cut PROVE Inv'
<1>1. acks \in Nat
  BY DEF Inv, Shape
<1>2. Lose("cut") /\ acks' \in Nat /\ acks' <= acks
  BY <1>1 DEF Cut
<1> QED
  BY <1>2, StepLose

\* A reset needs an acknowledgement that Sync never read.
LEMMA StepReset == ASSUME Inv, Reset PROVE Inv'
<1>1. /\ acks \in Nat /\ Len(file) \in Nat /\ Len(copy) \in Nat /\ RecordMax \in Nat
      /\ server.pc \in {"header", "payload", "ack", "read", "over", "refused"}
      /\ client.pos \in 0..Len(file)
  BY SizesAssumption DEF Inv, Shape
<1>2. client.pc = "closed" /\ acks > 0 /\ Lose("reset") /\ acks' = acks /\ broken = "no"
  BY DEF Reset, Lose
<1>3. Len(file) > RecordMax
  <2>1. SUFFICES ASSUME Len(file) <= RecordMax PROVE FALSE
    BY <1>1
  <2>2. server.pc \in {"ack", "read", "over"}
    BY <1>1, <1>2 DEF Inv, Asking, Acknowledging
  <2>3. /\ Len(copy) \in {0, Len(file)} /\ acks + Read = Sent /\ client.pos = Len(file)
    BY <1>2, <2>1, <2>2 DEF Inv, InStep, Sending
  <2>4. Read = 1 + (IF Len(file) = 0 THEN 0 ELSE 1)
    BY <1>2, <2>3 DEF Read
  <2>5. Sent \in Nat /\ Sent <= 1 + (IF Len(file) = 0 THEN 0 ELSE 1)
    BY <1>1, <2>3 DEF Sent
  <2> QED
    BY <1>1, <1>2, <2>3, <2>4, <2>5
<1> QED
  BY <1>1, <1>2, <1>3, StepLose

LEMMA NextInv == Inv /\ [Next]_vars => Inv'
<1> SUFFICES ASSUME Inv, [Next]_vars PROVE Inv'
  OBVIOUS
<1>1. CASE UNCHANGED vars
  <2>1. UNCHANGED <<file, len, client, c2s, acks, server, copy, broken>>
    BY <1>1 DEF vars
  <2>2. Pending' = Pending
    BY <2>1 DEF Pending
  <2>3. Shape' /\ Acknowledging' /\ InStep'
    BY <2>1, <2>2 DEF Inv, Shape, Acknowledging, InStep, Read, Sent
  <2>4. Asking'
    BY <2>1, <2>2 DEF Inv, Asking, Asked, Base, Left, Expected
  <2>5. \A e : Chain(Pending, Len(copy), e) => Chain(Pending, Len(copy), e)'
    BY <2>1, <2>2 DEF Chain, Links, Positions, Carries
  <2>6. Sending'
    BY <2>1, <2>2, <2>5 DEF Inv, Sending, AllData
  <2> QED
    BY <2>3, <2>4, <2>6 DEF Inv
<1>2. CASE ReadAck("first") \/ ReadAck("ack")
  BY <1>2, StepReadAck
<1> QED
  BY <1>1, <1>2, StepSSLWriteAll, StepSendLength, StepSendPayload, StepSendBlock,
     StepSendOver, StepClose, StepRecvLength, StepRecvPayload, StepSendAck,
     StepRecvBlock, StepCut, StepReset
     DEF Next, ClientStep, ServerStep

----------------------------------------------------------------------------
(* The theorems.                                                           *)

\* Every variable keeps its type; in particular SSLReadAll never reads past the
\* length that was announced, and no more acknowledgements are on their way than
\* the file has units.
THEOREM TypeCorrect == Spec => []TypeOK
<1>1. Inv => TypeOK
  <2> SUFFICES ASSUME Inv PROVE TypeOK
    OBVIOUS
  <2>1. Len(copy) \in Nat /\ Len(file) \in Nat /\ MaxFile \in Nat /\ MsgMax \in Nat /\ acks \in Nat
        /\ Len(file) <= MaxFile
    BY SizesAssumption DEF Inv, Shape
  <2>2. Len(copy) <= Len(file)
    BY <2>1 DEF Inv, Shape, Asking, Sending, Acknowledging
  <2>3. acks \in 0..(MaxFile + 2)
    BY <2>1, <2>2 DEF Inv, Acknowledging
  <2>4. server.got \in 0..server.need
    BY DEF Inv, Shape
  <2> QED
    BY <2>3, <2>4 DEF Inv, Shape, TypeOK
<1> QED
  BY <1>1, InitInv, NextInv, PTL DEF Spec

\* A connection is reset under a push only when the file took more than one record:
\* for shorter files Sync reads as many acknowledgements as SyncRecv sends
\* (trackersync.cpp:86-95, 171-184).
THEOREM NoShortFileIsReset == Spec => []OnlyLongFilesAreReset
<1>1. Inv => OnlyLongFilesAreReset
  BY DEF Inv, InStep, OnlyLongFilesAreReset
<1> QED
  BY <1>1, InitInv, NextInv, PTL DEF Spec

\* The states and steps of the connection are states and steps of Transfer: what
\* TLSRecvMsg returns is the whole request or nothing, SyncRecv only ever has the
\* beginning of the file, and all of it when it reads "Sync Over" (tls.cpp:99-158,
\* trackersync.cpp:171-184).
THEOREM PushIsATransfer == Spec => ImplementsTransfer
<1>a. ASSUME Inv
      PROVE  /\ server.pc \in {"header", "payload"} => Request = "waiting"
             /\ server.pc = "refused" => Request = "none"
             /\ server.pc \in {"ack", "read", "over"} => Request = "whole"
  BY <1>a DEF Inv, Sending, Request
<1>b. ASSUME Inv'
      PROVE  /\ server'.pc \in {"header", "payload"} => Request' = "waiting"
             /\ server'.pc = "refused" => Request' = "none"
             /\ server'.pc \in {"ack", "read", "over"} => Request' = "whole"
  BY <1>b DEF Inv, Sending, Request
<1>1. Init => Receiver!Init
  BY DEF Init, Receiver!Init, Request, SeenOver
<1>2. Inv /\ Inv' /\ [Next]_vars => [Receiver!Next]_<<file, Request, copy, SeenOver>>
  <2> SUFFICES ASSUME Inv, Inv', [Next]_vars
               PROVE  [Receiver!Next]_<<file, Request, copy, SeenOver>>
    OBVIOUS
  <2>a. /\ server.pc \in {"header", "payload"} => Request = "waiting"
        /\ server.pc = "refused" => Request = "none"
        /\ server.pc \in {"ack", "read", "over"} => Request = "whole"
        /\ server'.pc \in {"header", "payload"} => Request' = "waiting"
        /\ server'.pc = "refused" => Request' = "none"
        /\ server'.pc \in {"ack", "read", "over"} => Request' = "whole"
    BY <1>a, <1>b
  <2>b. /\ SeenOver = (server.pc = "over") /\ SeenOver' = (server'.pc = "over")
        /\ SeenOver \in BOOLEAN /\ SeenOver' \in BOOLEAN
    BY DEF SeenOver
  <2>c. /\ Shape /\ file \in Seq(Units) /\ copy \in Seq(Units) /\ c2s \in Seq(Record)
        /\ Len(file) \in Nat /\ Len(copy) \in Nat
        /\ server.pc \in {"header", "payload", "ack", "read", "over", "refused"}
        /\ server \in [pc : {"header", "payload", "ack", "read", "over", "refused"},
                       need : 0..(MsgMax + 1), got : Nat]
    BY DEF Inv, Shape
  <2>1. ASSUME UNCHANGED <<file, len, server, copy>>
        PROVE  [Receiver!Next]_<<file, Request, copy, SeenOver>>
    BY <2>1 DEF Request, SeenOver
  <2>2. ASSUME RecvLength \/ RecvPayload
        PROVE  [Receiver!Next]_<<file, Request, copy, SeenOver>>
    <3>1. /\ UNCHANGED <<file, copy>> /\ server.pc \in {"header", "payload"}
          /\ server'.pc \in {"header", "payload", "refused", "ack"}
      BY <2>2, <2>c DEF RecvLength, RecvPayload, Refuse, Dispatch
    <3>2. Request = "waiting" /\ Request' \in {"waiting", "none", "whole"} /\ SeenOver' = SeenOver
      BY <2>a, <2>b, <3>1
    <3> QED
      BY <3>1, <3>2 DEF Receiver!Next, Receiver!Deliver
  <2>3. ASSUME server.pc \in {"ack", "read"}, server'.pc \in {"ack", "read"},
               UNCHANGED <<file, copy>>
        PROVE  [Receiver!Next]_<<file, Request, copy, SeenOver>>
    <3>1. Request' = Request /\ SeenOver' = SeenOver
      BY <2>3, <2>a, <2>b
    <3> QED
      BY <2>3, <3>1
  <2>4. ASSUME SendAck
        PROVE  [Receiver!Next]_<<file, Request, copy, SeenOver>>
    BY <2>3, <2>4, <2>c DEF SendAck
  <2>5. ASSUME RecvBlock, c2s = << >>
        PROVE  [Receiver!Next]_<<file, Request, copy, SeenOver>>
    BY <2>3, <2>5, <2>c DEF RecvBlock
  <2>6. ASSUME RecvBlock, c2s # << >>, Head(c2s).kind = "data"
        PROVE  [Receiver!Next]_<<file, Request, copy, SeenOver>>
    <3> DEFINE d == Head(c2s).data
               n == Len(copy')
    <3>1. /\ server.pc = "read" /\ copy' = copy \o d /\ server'.pc = "ack"
          /\ UNCHANGED <<file, len>>
      BY <2>6, <2>c DEF RecvBlock, ReadFails
    <3>2. d \in Seq(Units)
      <4>1. Head(c2s) \in Record
        BY <2>6, <2>c
      <4> QED
        BY <2>6, <4>1 DEF Record
    <3> HIDE DEF d
    <3>3. n = Len(copy) + Len(d) /\ n \in Nat /\ Len(d) \in Nat
      BY <2>c, <3>1, <3>2
    <3>4. n <= Len(file) /\ copy' = SubSeq(file, 1, n)
      BY <3>1 DEF Inv, Sending
    <3>5. copy = SubSeq(file, 1, Len(copy))
      BY <3>1 DEF Inv, Sending
    <3> HIDE DEF n
    <3>6. CASE n = Len(copy)
      BY <2>3, <3>1, <3>4, <3>5, <3>6
    <3>7. CASE n # Len(copy)
      <4>1. n \in 1..Len(file) /\ n > Len(copy)
        BY <2>c, <3>3, <3>4, <3>7
      <4>2. Request = "whole" /\ Request' = Request /\ ~SeenOver /\ SeenOver' = SeenOver
        BY <2>a, <2>b, <3>1
      <4> QED
        BY <3>1, <3>4, <4>1, <4>2 DEF Receiver!Next, Receiver!Receive
    <3> QED
      BY <3>6, <3>7
  <2>7. ASSUME RecvBlock, c2s # << >>, Head(c2s).kind # "data"
        PROVE  [Receiver!Next]_<<file, Request, copy, SeenOver>>
    <3>1. /\ server.pc = "read" /\ server'.pc = "over" /\ c2s' = Tail(c2s)
          /\ UNCHANGED <<file, len, copy, client, broken>>
      BY <2>7, <2>c DEF RecvBlock, ReadFails
    <3>2. PICK e \in 0..Len(file) : Chain(Pending, Len(copy), e)
      BY <3>1 DEF Inv, Sending
    <3>3. Pending # << >> /\ Head(c2s) = Head(Pending) /\ Pending \in Seq(Record)
      BY <2>7, <2>c, <3>1, PendingHead, PendingIsSeq
    <3>4. Len(copy) = Len(file)
      BY <2>7, <2>c, <3>2, <3>3, ChainHead
    <3>5. copy = SubSeq(file, 1, Len(file))
      BY <3>1, <3>4 DEF Inv, Sending
    <3>6. copy = file
      BY <2>c, <3>5
    <3>7. Request = "whole" /\ Request' = Request /\ ~SeenOver /\ SeenOver' = TRUE
      BY <2>a, <2>b, <3>1
    <3> QED
      BY <3>1, <3>6, <3>7 DEF Receiver!Next, Receiver!Finish
  <2>8. CASE ClientStep
    <3>1. UNCHANGED <<file, len, server, copy>>
      BY <2>8 DEF ClientStep, SSLWriteAll, SendLength, SendPayload, ReadAck, SendBlock,
                  SendOver, Close, Call
    <3> QED
      BY <2>1, <3>1
  <2>9. CASE Cut \/ Reset
    BY <2>1, <2>9 DEF Cut, Reset, Lose
  <2>10. CASE UNCHANGED vars
    BY <2>1, <2>10 DEF vars
  <2> QED
    BY <2>2, <2>4, <2>5, <2>6, <2>7, <2>8, <2>9, <2>10 DEF Next, ServerStep
<1> QED
  BY <1>1, <1>2, InitInv, NextInv, PTL DEF Spec, ImplementsTransfer, Receiver!Spec
=============================================================================
