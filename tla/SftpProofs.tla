----------------------------- MODULE SftpProofs -----------------------------
(***************************************************************************)
(* What the SFTP client promises, for every number of files, sizes of      *)
(* files, buffers and chunks, and numbers of requests.                     *)
(***************************************************************************)
EXTENDS Sftp, SequenceTheorems, FiniteSetTheorems, TLAPS

-----------------------------------------------------------------------------
(* Numbers and sums                                                         *)

LEMMA HasLeast ==
  ASSUME NEW S, S \subseteq Nat, S # {}
  PROVE  \E x \in S : \A y \in S : x <= y
<1> DEFINE R == {ss \in Nat \X Nat : ss[1] < ss[2]}
<1>1. IsWellFoundedOn(R, Nat)
  BY NatLessThanWellFounded, Zenon DEF OpToRel
<1>2. \E x \in S : \A y \in S : <<y, x>> \notin R
  <2> HIDE DEF R
  <2> QED
    BY <1>1, WFMin, Zenon
<1>3. PICK x \in S : \A y \in S : <<y, x>> \notin R
  BY <1>2
<1>4. ASSUME NEW y \in S
      PROVE  x <= y
  <2>1. x \in Nat /\ y \in Nat
    OBVIOUS
  <2>2. CASE y < x
    <3>1. <<y, x>> \in R
      BY <2>1, <2>2
    <3> QED
      BY <3>1, <1>3
  <2> QED
    BY <2>1, <2>2
<1> QED
  BY <1>3, <1>4

(* What is true of 0, and of a number when it is true of the one before,    *)
(* is true of the numbers up to n.                                          *)
LEMMA UpTo ==
  ASSUME NEW n \in Nat, NEW S, 0 \in S, \A i \in 1..n : i - 1 \in S => i \in S
  PROVE  \A i \in 0..n : i \in S
<1> DEFINE B == {i \in 0..n : i \notin S}
<1>1. CASE B # {}
  <2>1. PICK m \in B : \A y \in B : m <= y
    <3>1. B \subseteq Nat
      OBVIOUS
    <3> HIDE DEF B
    <3> QED
      BY <1>1, <3>1, HasLeast
  <2>2. m \in 1..n /\ m - 1 \in 0..n
    BY <2>1
  <2>3. m - 1 \notin B
    BY <2>1, <2>2
  <2> QED
    BY <2>1, <2>2, <2>3
<1> QED
  BY <1>1

ChunkSet == [id : Nat, offset : Int, len : Nat \ {0}, from : Int, sent : {0, 1, 2}]

LEMMA ChunkLen ==
  ASSUME NEW l \in Seq(ChunkSet)
  PROVE  /\ Len(l) \in Nat
         /\ \A i \in 1..Len(l) : l[i] \in ChunkSet /\ l[i].len \in Nat /\ l[i].len > 0
<1>1. Len(l) \in Nat /\ \A i \in 1..Len(l) : l[i] \in ChunkSet
  OBVIOUS
<1>2. \A c \in ChunkSet : c.len \in Nat /\ c.len > 0
  BY DEF ChunkSet
<1> QED
  BY <1>1, <1>2

(* g is the sum of the lengths of the first i chunks, for each i.           *)
Sums(l, g) ==
  /\ g \in [0..Len(l) -> Nat]
  /\ g[0] = 0 /\ \A i \in 1..Len(l) : g[i] = g[i - 1] + l[i].len

LEMMA SumsExist ==
  ASSUME NEW l \in Seq(ChunkSet)
  PROVE  \E g : Sums(l, g)
<1> DEFINE Part(n, g) == g[0] = 0 /\ \A i \in 1..n : g[i] = g[i - 1] + l[i].len
           S == {n \in 0..Len(l) : \E g \in [0..n -> Nat] : Part(n, g)}
<1>1. 0 \in S
  <2> DEFINE g == [i \in 0..0 |-> 0]
  <2>1. g \in [0..0 -> Nat] /\ Part(0, g)
    OBVIOUS
  <2>2. 0 \in 0..Len(l)
    BY ChunkLen
  <2> HIDE DEF Part, g
  <2> QED
    BY <2>1, <2>2
<1>2. ASSUME NEW n \in 1..Len(l), n - 1 \in S
      PROVE  n \in S
  <2>1. PICK g \in [0..(n - 1) -> Nat] : Part(n - 1, g)
    BY <1>2
  <2> DEFINE d == l[n].len
             h == [i \in 0..n |-> IF i = n THEN g[n - 1] + d ELSE g[i]]
  <2>2. d \in Nat /\ n \in Nat /\ n >= 1 /\ n \in 0..Len(l)
    BY ChunkLen
  <2>3. h \in [0..n -> Nat]
    <3> HIDE DEF d
    <3> QED
      BY <2>1, <2>2
  <2>4. Part(n, h)
    <3>1. h[0] = 0
      BY <2>1, <2>2
    <3>2. ASSUME NEW i \in 1..n PROVE h[i] = h[i - 1] + l[i].len
      <4>1. CASE i = n
        BY <2>2, <4>1
      <4>2. CASE i # n
        BY <2>1, <2>2, <4>2
      <4> QED
        BY <4>1, <4>2
    <3> QED
      BY <3>1, <3>2
  <2> HIDE DEF Part, h
  <2> QED
    BY <2>2, <2>3, <2>4
<1>3. Len(l) \in S
  <2>1. Len(l) \in Nat /\ Len(l) \in 0..Len(l)
    BY ChunkLen
  <2> HIDE DEF S
  <2>2. \A i \in 0..Len(l) : i \in S
    BY <1>1, <1>2, <2>1, UpTo
  <2> QED
    BY <2>1, <2>2
<1> QED
  BY <1>3 DEF Sums

LEMMA TotalIs ==
  ASSUME NEW l \in Seq(ChunkSet), NEW g, Sums(l, g)
  PROVE  Total(l) = g[Len(l)]
<1> DEFINE Fits(h) == h = [i \in 0..Len(l) |-> IF i = 0 THEN 0 ELSE h[i - 1] + l[i].len]
           sum == CHOOSE h : Fits(h)
           S == {i \in 0..Len(l) : g[i] = sum[i]}
<1>1. Total(l) = sum[Len(l)]
  BY Zenon DEF Total
<1>2. Fits(g)
  <2>1. ASSUME NEW i \in 0..Len(l) PROVE g[i] = IF i = 0 THEN 0 ELSE g[i - 1] + l[i].len
    BY ChunkLen DEF Sums
  <2> QED
    BY <2>1 DEF Sums
<1>3. Fits(sum)
  BY <1>2, Zenon
<1>4. sum[0] = 0 /\ \A i \in 1..Len(l) : sum[i] = sum[i - 1] + l[i].len
  <2> HIDE DEF sum
  <2>1. ASSUME NEW i \in 0..Len(l) PROVE sum[i] = IF i = 0 THEN 0 ELSE sum[i - 1] + l[i].len
    BY <1>3, Zenon
  <2> QED
    BY <2>1, ChunkLen
<1> HIDE DEF sum
<1>5. 0 \in S
  BY <1>4, ChunkLen DEF Sums
<1>6. ASSUME NEW i \in 1..Len(l), i - 1 \in S
      PROVE  i \in S
  BY <1>4, <1>6 DEF Sums
<1> HIDE DEF S
<1>7. Len(l) \in S
  <2>1. Len(l) \in Nat /\ Len(l) \in 0..Len(l)
    BY ChunkLen
  <2>2. \A i \in 0..Len(l) : i \in S
    BY <1>5, <1>6, <2>1, UpTo
  <2> QED
    BY <2>1, <2>2
<1> QED
  BY <1>1, <1>7 DEF S

LEMMA TotalNat ==
  ASSUME NEW l \in Seq(ChunkSet)
  PROVE  Total(l) \in Nat /\ (l = <<>> => Total(l) = 0)
<1>1. PICK g : Sums(l, g)
  BY SumsExist
<1>2. Total(l) = g[Len(l)]
  BY <1>1, TotalIs
<1> QED
  BY <1>1, <1>2, ChunkLen DEF Sums

LEMMA TotalTail ==
  ASSUME NEW l \in Seq(ChunkSet), l # <<>>
  PROVE  Total(l) = l[1].len + Total(Tail(l))
<1>1. PICK g : Sums(l, g)
  BY SumsExist
<1> DEFINE t == Tail(l)
           d == l[1].len
           h == [i \in 0..Len(t) |-> g[i + 1] - d]
<1>2. /\ t \in Seq(ChunkSet) /\ Len(t) = Len(l) - 1 /\ Len(l) >= 1
      /\ \A i \in 1..Len(t) : t[i] = l[i + 1]
  OBVIOUS
<1>3. d \in Nat /\ Len(l) \in Nat /\ Len(t) \in Nat
  BY <1>2, ChunkLen
<1>4. \A i \in 1..Len(t) : t[i].len \in Nat /\ t[i].len = l[i + 1].len
  BY <1>2, ChunkLen
<1>5. g[1] = d /\ g \in [0..Len(l) -> Nat]
  BY <1>1, <1>2, <1>3 DEF Sums
<1>6. \A i \in 1..Len(t) : g[i + 1] = g[i] + t[i].len
  <2>1. ASSUME NEW i \in 1..Len(t) PROVE g[i + 1] = g[i] + t[i].len
    <3>1. i + 1 \in 1..Len(l)
      BY <1>2, <1>3
    <3>2. g[i + 1] = g[i + 1 - 1] + l[i + 1].len /\ i + 1 - 1 = i
      BY <1>1, <3>1 DEF Sums
    <3> QED
      BY <1>4, <3>2
  <2> QED
    BY <2>1
<1> HIDE DEF t, d
<1>7. \A i \in 0..Len(t) : g[i + 1] >= d
  <2> DEFINE S == {i \in 0..Len(t) : g[i + 1] >= d}
  <2>1. 0 \in S
    BY <1>3, <1>5
  <2>2. ASSUME NEW i \in 1..Len(t), i - 1 \in S PROVE i \in S
    <3>1. i \in Nat /\ g[i] >= d /\ i - 1 + 1 = i /\ i + 1 \in 0..Len(l) /\ i \in 0..Len(l)
      BY <1>2, <1>3, <2>2
    <3>2. g[i] \in Nat /\ g[i + 1] \in Nat /\ g[i + 1] = g[i] + t[i].len /\ t[i].len \in Nat
      BY <1>4, <1>5, <1>6, <3>1
    <3>3. g[i + 1] >= d
      BY <1>3, <3>1, <3>2
    <3> QED
      BY <1>3, <3>3
  <2> HIDE DEF S
  <2>3. \A i \in 0..Len(t) : i \in S
    BY <1>3, <2>1, <2>2, UpTo
  <2> QED
    BY <2>3 DEF S
<1>8. Sums(t, h)
  <2>1. h \in [0..Len(t) -> Nat]
    BY <1>2, <1>3, <1>5, <1>7
  <2>2. h[0] = 0
    BY <1>3, <1>5
  <2>3. ASSUME NEW i \in 1..Len(t) PROVE h[i] = h[i - 1] + t[i].len
    <3>1. h[i] = g[i + 1] - d /\ h[i - 1] = g[i] - d
      BY <1>3
    <3>2. g[i] \in Nat /\ g[i + 1] = g[i] + t[i].len /\ t[i].len \in Nat
      BY <1>2, <1>3, <1>4, <1>5, <1>6, SMTT(40)
    <3> QED
      BY <1>3, <3>1, <3>2
  <2> QED
    BY <2>1, <2>2, <2>3 DEF Sums
<1>9. Total(t) = h[Len(t)]
  BY <1>2, <1>8, TotalIs
<1>10. Total(l) = g[Len(l)]
  BY <1>1, TotalIs
<1> QED
  BY <1>2, <1>3, <1>5, <1>9, <1>10 DEF t, d

LEMMA TotalJoin ==
  ASSUME NEW a \in Seq(ChunkSet), NEW b \in Seq(ChunkSet)
  PROVE  Total(a \o b) = Total(a) + Total(b)
<1>1. PICK g : Sums(a, g)
  BY SumsExist
<1>2. PICK h : Sums(b, h)
  BY SumsExist
<1> DEFINE c == a \o b
           m == Len(a)
           n == Len(b)
           k == [i \in 0..(m + n) |-> IF i <= m THEN g[i] ELSE g[m] + h[i - m]]
<1>3. /\ c \in Seq(ChunkSet) /\ Len(c) = m + n
      /\ \A i \in 1..Len(c) : c[i] = IF i <= m THEN a[i] ELSE b[i - m]
  OBVIOUS
<1>4. m \in Nat /\ n \in Nat /\ g \in [0..m -> Nat] /\ h \in [0..n -> Nat] /\ g[0] = 0 /\ h[0] = 0
  BY <1>1, <1>2, ChunkLen DEF Sums
<1>5. /\ \A i \in 1..m : a[i].len \in Nat /\ g[i] = g[i - 1] + a[i].len
      /\ \A i \in 1..n : b[i].len \in Nat /\ h[i] = h[i - 1] + b[i].len
  BY <1>1, <1>2, ChunkLen DEF Sums
<1> HIDE DEF c, m, n
<1>6. Sums(c, k)
  <2>1. k[0] = 0 /\ k \in [0..(m + n) -> Nat]
    BY <1>4
  <2>2. ASSUME NEW i \in 1..(m + n) PROVE k[i] = k[i - 1] + c[i].len
    <3>0. i \in Nat /\ i >= 1 /\ i <= m + n /\ i \in 0..(m + n) /\ i - 1 \in 0..(m + n)
      BY <1>4
    <3>1. CASE i <= m
      <4>1. k[i] = g[i] /\ k[i - 1] = g[i - 1]
        BY <1>4, <3>0, <3>1
      <4>2. c[i] = a[i] /\ g[i] = g[i - 1] + a[i].len
        BY <1>3, <1>4, <1>5, <3>0, <3>1
      <4> QED
        BY <4>1, <4>2
    <3>2. CASE i = m + 1
      <4>1. c[i] = b[1] /\ 1 \in 1..n
        BY <1>3, <1>4, <3>2
      <4>2. h[1] = b[1].len
        <5>1. h[1] = h[1 - 1] + b[1].len /\ b[1].len \in Nat
          BY <1>5, <4>1
        <5>2. h[1 - 1] = 0
          BY <1>4
        <5> QED
          BY <5>1, <5>2
      <4>3. k[i] = g[m] + h[1] /\ k[i - 1] = g[m]
        BY <1>4, <3>0, <3>2
      <4> QED
        BY <4>1, <4>2, <4>3
    <3>3. CASE i > m + 1
      <4> DEFINE j == i - m
      <4>1. j \in 1..n /\ j \in Nat /\ j - 1 \in 0..n /\ c[i] = b[j] /\ i - 1 > m
        BY <1>3, <1>4, <3>3, SMTT(40)
      <4>2. k[i] = g[m] + h[j] /\ k[i - 1] = g[m] + h[j - 1]
        BY <1>4, <3>0, <3>3
      <4> HIDE DEF j
      <4>3. h[j] = h[j - 1] + b[j].len /\ h[j - 1] \in Nat /\ b[j].len \in Nat /\ g[m] \in Nat
        BY <1>4, <1>5, <4>1
      <4> QED
        BY <4>1, <4>2, <4>3
    <3> QED
      BY <1>4, <3>1, <3>2, <3>3
  <2> QED
    BY <1>3, <2>1, <2>2 DEF Sums
<1>7. Total(c) = k[m + n] /\ Total(a) = g[m] /\ Total(b) = h[n]
  BY <1>1, <1>2, <1>3, <1>6, TotalIs DEF m, n
<1>8. k[m + n] = g[m] + h[n]
  <2>1. CASE n = 0
    BY <1>4, <2>1
  <2>2. CASE n # 0
    <3>1. m + n \in 0..(m + n) /\ ~(m + n <= m) /\ m + n - m = n
      BY <1>4, <2>2
    <3>2. \A i \in 0..(m + n) : ~(i <= m) => k[i] = g[m] + h[i - m]
      OBVIOUS
    <3> HIDE DEF k
    <3> QED
      BY <1>4, <3>1, <3>2
  <2> QED
    BY <2>1, <2>2
<1> QED
  BY <1>7, <1>8 DEF c

LEMMA TotalSame ==
  ASSUME NEW a \in Seq(ChunkSet), NEW b \in Seq(ChunkSet), Len(a) = Len(b),
         \A i \in 1..Len(a) : a[i].len = b[i].len
  PROVE  Total(a) = Total(b)
<1>1. PICK g : Sums(a, g)
  BY SumsExist
<1>2. Sums(b, g)
  BY <1>1 DEF Sums
<1> QED
  BY <1>1, <1>2, TotalIs

-----------------------------------------------------------------------------
(* Lists of chunks                                                          *)

(* The chunks follow one another in the file, from a on.                    *)
Chain(l, a) ==
  \A i \in 1..Len(l) : l[i].offset = IF i = 1 THEN a ELSE l[i - 1].offset + l[i - 1].len

LEMMA ChunkTyped ==
  ASSUME NEW l \in Seq(ChunkSet)
  PROVE  /\ Len(l) \in Nat /\ DOMAIN l = 1..Len(l)
         /\ \A i \in 1..Len(l) : /\ l[i] \in ChunkSet /\ l[i].id \in Nat
                                 /\ l[i].offset \in Int /\ l[i].len \in Nat /\ l[i].len > 0
                                 /\ l[i].from \in Int /\ l[i].sent \in {0, 1, 2}
<1>1. Len(l) \in Nat /\ DOMAIN l = 1..Len(l) /\ \A i \in 1..Len(l) : l[i] \in ChunkSet
  OBVIOUS
<1>2. \A c \in ChunkSet : /\ c.id \in Nat /\ c.offset \in Int /\ c.len \in Nat /\ c.len > 0
                          /\ c.from \in Int /\ c.sent \in {0, 1, 2}
  BY DEF ChunkSet
<1> QED
  BY <1>1, <1>2

LEMMA TailOf ==
  ASSUME NEW l \in Seq(ChunkSet), l # <<>>
  PROVE  /\ Tail(l) \in Seq(ChunkSet) /\ Len(l) >= 1 /\ Len(Tail(l)) = Len(l) - 1
         /\ \A i \in 1..Len(Tail(l)) : i + 1 \in 1..Len(l) /\ Tail(l)[i] = l[i + 1]
  OBVIOUS

LEMMA JoinOf ==
  ASSUME NEW a \in Seq(ChunkSet), NEW b \in Seq(ChunkSet)
  PROVE  /\ a \o b \in Seq(ChunkSet) /\ Len(a \o b) = Len(a) + Len(b)
         /\ \A i \in 1..Len(a \o b) :
              \/ i \in 1..Len(a) /\ (a \o b)[i] = a[i]
              \/ i - Len(a) \in 1..Len(b) /\ (a \o b)[i] = b[i - Len(a)]
  OBVIOUS

LEMMA ChainPlace ==
  ASSUME NEW l \in Seq(ChunkSet), NEW a \in Int, Chain(l, a), NEW g, Sums(l, g)
  PROVE  \A i \in 1..Len(l) : l[i].offset = a + g[i - 1]
<1> DEFINE S == {i \in 0..Len(l) : i # 0 => l[i].offset = a + g[i - 1]}
<1>0. Len(l) \in Nat
  BY ChunkTyped
<1>1. 0 \in S
  BY <1>0
<1>2. ASSUME NEW i \in 1..Len(l), i - 1 \in S
      PROVE  i \in S
  <2>1. i \in Nat /\ i - 1 \in 0..Len(l) /\ i \in 0..Len(l)
    BY <1>0
  <2>2. CASE i = 1
    BY <1>0, <2>1, <2>2 DEF Chain, Sums
  <2>3. CASE i # 1
    <3>1. i - 1 \in 1..Len(l) /\ i - 1 # 0
      BY <2>1, <2>3
    <3>2. l[i].offset = l[i - 1].offset + l[i - 1].len
      BY <2>3 DEF Chain
    <3>3. l[i - 1].offset = a + g[i - 1 - 1]
      BY <1>2, <3>1
    <3>4. g[i - 1] = g[i - 1 - 1] + l[i - 1].len /\ g[i - 1 - 1] \in Nat
      BY <1>0, <3>1, SMTT(40) DEF Sums
    <3>5. l[i - 1].len \in Nat
      BY <3>1, ChunkTyped
    <3>6. l[i].offset = a + g[i - 1]
      BY <3>2, <3>3, <3>4, <3>5
    <3> QED
      BY <2>1, <3>6
  <2> QED
    BY <2>2, <2>3
<1> HIDE DEF S
<1>3. \A i \in 0..Len(l) : i \in S
  BY <1>0, <1>1, <1>2, UpTo
<1> QED
  BY <1>0, <1>3 DEF S

LEMMA ChainEnd ==
  ASSUME NEW l \in Seq(ChunkSet), NEW a \in Int, Chain(l, a)
  PROVE  /\ l # <<>> => l[Len(l)].offset + l[Len(l)].len = a + Total(l)
         /\ \A i \in 1..Len(l) : l[i].offset >= a
<1>1. PICK g : Sums(l, g)
  BY SumsExist
<1>2. Len(l) \in Nat /\ \A i \in 1..Len(l) : l[i].offset = a + g[i - 1]
  BY <1>1, ChainPlace, ChunkTyped
<1>3. \A i \in 1..Len(l) : g[i - 1] \in Nat /\ g[i] = g[i - 1] + l[i].len /\ l[i].len \in Nat
  BY <1>1, <1>2, ChunkTyped, SMTT(40) DEF Sums
<1>4. \A i \in 1..Len(l) : l[i].offset >= a
  BY <1>2, <1>3
<1>5. ASSUME l # <<>>
      PROVE  l[Len(l)].offset + l[Len(l)].len = a + Total(l)
  <2>1. Len(l) \in 1..Len(l)
    BY <1>5
  <2>2. Total(l) = g[Len(l)]
    BY <1>1, TotalIs
  <2> QED
    BY <1>2, <1>3, <2>1, <2>2
<1> QED
  BY <1>4, <1>5

LEMMA ChainTail ==
  ASSUME NEW l \in Seq(ChunkSet), l # <<>>, NEW a \in Int, Chain(l, a)
  PROVE  Chain(Tail(l), a + l[1].len) /\ l[1].offset = a
<1>1. Len(l) \in Nat /\ Len(l) >= 1 /\ l[1].offset = a
  BY ChunkTyped, TailOf DEF Chain
<1>2. ASSUME NEW i \in 1..Len(Tail(l))
      PROVE  Tail(l)[i].offset =
               IF i = 1 THEN a + l[1].len ELSE Tail(l)[i - 1].offset + Tail(l)[i - 1].len
  <2>1. i \in Nat /\ i >= 1 /\ i + 1 \in 1..Len(l) /\ Tail(l)[i] = l[i + 1] /\ i + 1 - 1 = i /\ i + 1 # 1
    BY <1>1, TailOf
  <2>2. l[i + 1].offset = l[i].offset + l[i].len
    BY <2>1 DEF Chain
  <2>3. CASE i = 1
    BY <1>1, <2>1, <2>2, <2>3
  <2>4. CASE i # 1
    <3>1. i - 1 \in 1..Len(Tail(l)) /\ i - 1 + 1 = i
      BY <1>1, <2>1, <2>4
    <3>2. Tail(l)[i - 1] = l[i]
      BY <3>1, TailOf
    <3> QED
      BY <2>1, <2>2, <2>4, <3>2
  <2> QED
    BY <2>3, <2>4
<1> QED
  BY <1>1, <1>2 DEF Chain

LEMMA ChainJoin ==
  ASSUME NEW a \in Seq(ChunkSet), NEW b \in Seq(ChunkSet), NEW x \in Int,
         Chain(a, x), Chain(b, x + Total(a))
  PROVE  Chain(a \o b, x)
<1> DEFINE c == a \o b
           m == Len(a)
<1>1. /\ m \in Nat /\ Len(b) \in Nat /\ Len(c) = m + Len(b)
      /\ \A i \in 1..Len(c) : c[i] = IF i <= m THEN a[i] ELSE b[i - m]
  BY ChunkTyped
<1>2. (m = 0 => Total(a) = 0) /\ (m # 0 => a[m].offset + a[m].len = x + Total(a))
  BY <1>1, TotalNat, ChainEnd
<1>3. ASSUME NEW i \in 1..Len(c)
      PROVE  c[i].offset = IF i = 1 THEN x ELSE c[i - 1].offset + c[i - 1].len
  <2>1. CASE i <= m
    <3>1. c[i] = a[i] /\ (i # 1 => c[i - 1] = a[i - 1]) /\ i \in 1..m
      BY <1>1, <2>1
    <3> QED
      BY <3>1 DEF Chain
  <2>2. CASE i = m + 1
    <3>1. c[i] = b[1] /\ 1 \in 1..Len(b) /\ (i # 1 => c[i - 1] = a[m] /\ m # 0) /\ (i = 1 => m = 0)
      BY <1>1, <2>2
    <3>2. b[1].offset = x + Total(a)
      BY <3>1 DEF Chain
    <3> QED
      BY <1>2, <3>1, <3>2
  <2>3. CASE i > m + 1
    <3>1. /\ c[i] = b[i - m] /\ c[i - 1] = b[i - m - 1] /\ i # 1 /\ i - m # 1 /\ i - m \in 1..Len(b)
      <4>1. c[i] = b[i - m] /\ i # 1 /\ i - m # 1 /\ i - m \in 1..Len(b)
        BY <1>1, <2>3
      <4>2. i - 1 \in 1..Len(c) /\ ~(i - 1 <= m) /\ i - 1 - m = i - m - 1
        BY <1>1, <2>3
      <4>3. c[i - 1] = b[i - 1 - m]
        <5> HIDE DEF c
        <5> QED
          BY <1>1, <4>2
      <4> QED
        BY <4>1, <4>2, <4>3
    <3> QED
      BY <3>1 DEF Chain
  <2> QED
    BY <1>1, <2>1, <2>2, <2>3, SMTT(40)
<1> QED
  BY <1>3 DEF Chain

(* Numbers of chunks: MaxChunk each, and the last what is left.             *)
LEMMA Split ==
  ASSUME NEW count \in Nat, NEW n, n = Requests(count)
  PROVE  /\ n \in Nat /\ (n - 1) * MaxChunk < count /\ count <= n * MaxChunk
         /\ n = 0 => count = 0
<1> DEFINE M == MaxChunk
<1>1. M \in Nat \ {0}
  BY SftpAssumption
<1>2. n = (count + M - 1) \div M
  BY DEF Requests
<1> HIDE DEF M
<1>3. n \in Nat /\ (n - 1) * M < count /\ count <= n * M
  BY <1>1, <1>2
<1>4. n = 0 => count = 0
  BY <1>1, <1>3
<1> QED
  BY <1>3, <1>4 DEF M

(* New chunks: the next ids, nothing sent, one after the other from o on.   *)
Built(new, o) ==
  /\ new \in Seq(ChunkSet) /\ Chain(new, o)
  /\ \A i \in 1..Len(new) : new[i].id = request_id + i - 1 /\ new[i].sent = 0

Made(new, n, o, w, z) ==
  /\ new = [i \in 1..n |-> Chunk(request_id + i - 1, o + (i - 1) * MaxChunk, z[i], w[i])]
  /\ \A i \in 1..n : z[i] > 0 /\ (i < n => z[i] = MaxChunk)

LEMMA BuiltOf ==
  ASSUME NEW n \in Nat, NEW o \in Int, NEW w \in [1..n -> Int], NEW z \in [1..n -> Nat],
         request_id \in Nat \ {0}, NEW new, Made(new, n, o, w, z)
  PROVE  /\ Built(new, o) /\ Len(new) = n
         /\ \A i \in 1..n : new[i].offset = o + (i - 1) * MaxChunk /\ new[i].from = w[i]
<1>0. MaxChunk \in Nat \ {0}
  BY SftpAssumption
<1>1. ASSUME NEW i \in 1..n
      PROVE  /\ i - 1 \in Nat /\ request_id + i - 1 \in Nat /\ (i - 1) * MaxChunk \in Nat
             /\ new[i] = Chunk(request_id + i - 1, o + (i - 1) * MaxChunk, z[i], w[i])
  BY <1>0 DEF Made
<1>2. ASSUME NEW i \in 1..n
      PROVE  /\ new[i] \in ChunkSet /\ new[i].id = request_id + i - 1 /\ new[i].sent = 0
             /\ new[i].offset = o + (i - 1) * MaxChunk /\ new[i].len = z[i]
             /\ new[i].from = w[i]
  BY <1>1 DEF Chunk, ChunkSet, Made
<1>3. new \in Seq(ChunkSet) /\ Len(new) = n
  <2>1. new \in [1..n -> ChunkSet]
    BY <1>2 DEF Made
  <2> QED
    BY <2>1, SeqDef
<1>4. Chain(new, o)
  <2>1. ASSUME NEW i \in 1..n
        PROVE  new[i].offset = IF i = 1 THEN o ELSE new[i - 1].offset + new[i - 1].len
    <3>1. CASE i = 1
      <4>1. new[1].offset = o + (1 - 1) * MaxChunk
        BY <1>2, <3>1
      <4> QED
        BY <1>0, <3>1, <4>1
    <3>2. CASE i # 1
      <4>1. i - 1 \in 1..n /\ i - 1 < n
        BY <3>2
      <4>2. new[i - 1].offset = o + (i - 1 - 1) * MaxChunk /\ new[i - 1].len = MaxChunk
        BY <1>2, <4>1 DEF Made
      <4>3. new[i].offset = o + (i - 1) * MaxChunk
        BY <1>2
      <4>4. (i - 1) * MaxChunk = (i - 1 - 1) * MaxChunk + MaxChunk
        BY <1>0
      <4>5. (i - 1 - 1) * MaxChunk \in Int
        BY <1>0
      <4> QED
        BY <1>0, <3>2, <4>2, <4>3, <4>4, <4>5
    <3> QED
      BY <3>1, <3>2
  <2> QED
    BY <1>3, <2>1 DEF Chain
<1> QED
  BY <1>2, <1>3, <1>4 DEF Built

FileSet == [open : BOOLEAN, offset : Int, offset_sent : Int, acked : Nat,
            data : Seq(Handles \X Int), eof : BOOLEAN, list : Seq(ChunkSet)]

LEMMA FileTyped ==
  ASSUME file \in [Handles -> FileSet], NEW f \in Handles
  PROVE  /\ file[f] \in FileSet
         /\ file[f].open \in BOOLEAN /\ file[f].eof \in BOOLEAN
         /\ file[f].offset \in Int /\ file[f].offset_sent \in Int /\ file[f].acked \in Nat
         /\ file[f].data \in Seq(Handles \X Int) /\ file[f].list \in Seq(ChunkSet)
<1>1. file[f] \in FileSet
  OBVIOUS
<1>2. \A x \in FileSet :
         /\ x.open \in BOOLEAN /\ x.eof \in BOOLEAN
         /\ x.offset \in Int /\ x.offset_sent \in Int /\ x.acked \in Nat
         /\ x.data \in Seq(Handles \X Int) /\ x.list \in Seq(ChunkSet)
  BY DEF FileSet
<1> QED
  BY <1>1, <1>2

LEMMA ReadBuilt ==
  ASSUME file \in [Handles -> FileSet], NEW f \in Handles, NEW b \in Nat \ {0},
         request_id \in Nat \ {0}, NEW new, new = ReadChunks(f, b)
  PROVE  /\ Built(new, file[f].offset_sent)
         /\ new = <<>> => file[f].offset_sent - file[f].offset >= 4 * b
<1> DEFINE count == ReadAhead(f, b)
           n == Requests(count)
           o == file[f].offset_sent
           Size(i) == IF i < n THEN MaxChunk
                               ELSE Min2(Max2(count - (n - 1) * MaxChunk, b), MaxChunk)
           z == [i \in 1..n |-> Size(i)]
           w == [i \in 1..n |-> 0]
<1>1. o \in Int /\ file[f].offset \in Int /\ MaxChunk \in Nat \ {0}
  BY FileTyped, SftpAssumption
<1>2. count \in Nat /\ (count = 0 => o - file[f].offset >= 4 * b)
  BY <1>1 DEF ReadAhead, Max2
<1> HIDE DEF count
<1>3. n \in Nat /\ (n = 0 => count = 0)
  BY <1>2, Split
<1>4. new = [i \in 1..n |-> Chunk(request_id + i - 1, o + (i - 1) * MaxChunk, Size(i), 0)]
  BY Zenon DEF ReadChunks, count
<1> HIDE DEF n
<1>5. \A i \in 1..n : Size(i) \in Nat /\ Size(i) > 0 /\ (i < n => Size(i) = MaxChunk)
  <2>1. (n - 1) * MaxChunk \in Int
    BY <1>1, <1>3
  <2> QED
    BY <1>1, <1>2, <1>3, <2>1 DEF Min2, Max2
<1>6. z \in [1..n -> Nat] /\ w \in [1..n -> Int]
  BY <1>5
<1> HIDE DEF Size
<1>7. new = [i \in 1..n |-> Chunk(request_id + i - 1, o + (i - 1) * MaxChunk, z[i], w[i])]
  BY <1>4
<1>8. \A i \in 1..n : z[i] > 0 /\ (i < n => z[i] = MaxChunk)
  BY <1>5
<1> HIDE DEF z, w, o
<1>m. Made(new, n, o, w, z)
  BY <1>7, <1>8, Zenon DEF Made
<1>9. Built(new, o) /\ Len(new) = n
  BY <1>1, <1>3, <1>6, <1>m, BuiltOf
<1> QED
  BY <1>2, <1>3, <1>9 DEF o

LEMMA WriteBuilt ==
  ASSUME file \in [Handles -> FileSet], NEW f \in Handles, NEW k \in Nat, pos[f] \in Int,
         request_id \in Nat \ {0}, NEW new, new = WriteChunks(f, k)
  PROVE  /\ Built(new, file[f].offset_sent)
         /\ \A i \in 1..Len(new) : new[i].from - new[i].offset = pos[f] + file[f].acked - file[f].offset
<1> DEFINE count == Max2(k - Already(f), 0)
           n == Requests(count)
           o == file[f].offset_sent
           p == pos[f] + Already(f)
           Size(i) == Min2(MaxChunk, count - (i - 1) * MaxChunk)
           z == [i \in 1..n |-> Size(i)]
           w == [i \in 1..n |-> p + (i - 1) * MaxChunk]
<1>1. o \in Int /\ file[f].offset \in Int /\ file[f].acked \in Int /\ MaxChunk \in Nat \ {0}
  BY FileTyped, SftpAssumption
<1>2. count \in Nat /\ p \in Int /\ p = pos[f] + file[f].acked - file[f].offset + o
  BY <1>1 DEF Already, Max2
<1>3. n \in Nat /\ (n - 1) * MaxChunk < count /\ count <= n * MaxChunk
  <2> HIDE DEF count
  <2> QED
    BY <1>2, Split
<1>4. new = [i \in 1..n |-> Chunk(request_id + i - 1, o + (i - 1) * MaxChunk, Size(i),
                                  p + (i - 1) * MaxChunk)]
  BY Zenon DEF WriteChunks
<1> HIDE DEF count, n, p
<1>5. ASSUME NEW i \in 1..n
      PROVE  /\ Size(i) \in Nat /\ Size(i) > 0 /\ (i < n => Size(i) = MaxChunk)
             /\ (i - 1) * MaxChunk \in Int
  <2>1. (i - 1) * MaxChunk \in Int /\ (n - 1) * MaxChunk \in Int /\ i * MaxChunk = (i - 1) * MaxChunk + MaxChunk
    BY <1>1, <1>3
  <2>2. (i - 1) * MaxChunk <= (n - 1) * MaxChunk
    BY <1>1, <1>3
  <2>3. i < n => i * MaxChunk <= (n - 1) * MaxChunk
    BY <1>1, <1>3
  <2>4. i * MaxChunk \in Int
    BY <1>1, <1>3
  <2> QED
    BY <1>1, <1>2, <1>3, <2>1, <2>2, <2>3, <2>4 DEF Min2
<1>6. z \in [1..n -> Nat] /\ w \in [1..n -> Int]
  <2>1. \A i \in 1..n : p + (i - 1) * MaxChunk \in Int
    BY <1>2, <1>5
  <2> QED
    BY <1>5, <2>1
<1> HIDE DEF Size
<1>7. new = [i \in 1..n |-> Chunk(request_id + i - 1, o + (i - 1) * MaxChunk, z[i], w[i])]
  BY <1>4
<1>8. \A i \in 1..n : z[i] > 0 /\ (i < n => z[i] = MaxChunk)
  BY <1>5
<1>9. \A i \in 1..n : w[i] = p + (i - 1) * MaxChunk
  OBVIOUS
<1> HIDE DEF z, w, o
<1>m. Made(new, n, o, w, z)
  BY <1>7, <1>8, Zenon DEF Made
<1>10. /\ Built(new, o) /\ Len(new) = n
       /\ \A i \in 1..n : new[i].offset = o + (i - 1) * MaxChunk /\ new[i].from = w[i]
  <2>1. n \in Nat /\ o \in Int
    BY <1>1, <1>3
  <2> HIDE <1>1, <1>2, <1>3, <1>4, <1>5, <1>7, <1>8, <1>9
  <2> QED
    BY <2>1, <1>6, <1>m, BuiltOf, SMTT(40)
<1>11. ASSUME NEW i \in 1..n PROVE new[i].from - new[i].offset = p - o
  <2> DEFINE x == (i - 1) * MaxChunk
  <2>1. x \in Int /\ new[i].from = p + x /\ new[i].offset = o + x
    BY <1>5, <1>9, <1>10
  <2> HIDE DEF x
  <2> QED
    BY <1>1, <1>2, <2>1
<1>12. p - o = pos[f] + file[f].acked - file[f].offset
  BY <1>1, <1>2
<1> QED
  BY <1>10, <1>11, <1>12 DEF o

-----------------------------------------------------------------------------
(* Who waits for what.  L are the lists of the files, n the next id, Z the  *)
(* zombies, Q the requests the server has, P the answers, W what was        *)
(* written and o the request of another kind.                               *)

Doing == IF scene = "write" THEN "write" ELSE "read"

(* p is an answer to r.                                                     *)
Fits(p, r, W) ==
  /\ r.kind = "write" =>
       /\ p.type = "STATUS"
       /\ p.code = "OK" => \A i \in 0..(r.len - 1) : <<r.f, r.offset + i, r.from + i>> \in W
       /\ mood # "odd" => ~p.short /\ p.code = "OK"
  /\ r.kind = "read" =>
       /\ p.type \in {"DATA", "STATUS"}
       /\ p.type = "DATA" => ~p.short /\ (mood # "odd" => p.code # "BAD")
       /\ p.type = "DATA" /\ p.code # "BAD" =>
            /\ Len(p.bytes) \in 1..r.len
            /\ p.bytes = Bytes(r.f, r.offset, Len(p.bytes))
            /\ mood # "odd" => Len(p.bytes) = Min2(r.len, FileSize - r.offset)
       /\ p.type = "STATUS" /\ mood # "odd" => ~p.short /\ p.code = "EOF"
  /\ r.kind \in DOMAIN AllKinds =>
       /\ p.type # "NAME" => p.bytes = <<>>
       /\ mood # "odd" =>
            /\ ~p.short
            /\ ~(r.kind = "open" /\ p.type = "STATUS" /\ p.code = "OK")

LEMMA BytesAre ==
  ASSUME NEW f, NEW o \in Int, NEW k \in Nat
  PROVE  /\ Len(Bytes(f, o, k)) = k /\ DOMAIN Bytes(f, o, k) = 1..k
         /\ \A i \in 1..k : Bytes(f, o, k)[i] = <<f, o + i - 1>>
         /\ f \in Handles => Bytes(f, o, k) \in Seq(Handles \X Int)
<1>1. DOMAIN Bytes(f, o, k) = 1..k /\ \A i \in 1..k : Bytes(f, o, k)[i] = <<f, o + i - 1>>
  BY DEF Bytes
<1>2. Bytes(f, o, k) \in [1..k -> {f} \X Int]
  BY DEF Bytes
<1>3. Bytes(f, o, k) \in Seq({f} \X Int)
  BY <1>2, SeqDef
<1>4. Len(Bytes(f, o, k)) = k
  BY <1>1, <1>3
<1>5. ASSUME f \in Handles PROVE Bytes(f, o, k) \in Seq(Handles \X Int)
  <2>1. Bytes(f, o, k) \in [1..k -> Handles \X Int]
    BY <1>5 DEF Bytes
  <2> QED
    BY <2>1, SeqDef
<1> QED
  BY <1>1, <1>4, <1>5

LEMMA Kinds ==
  /\ DOMAIN AllKinds = {"open", "readdir", "fsync", "fstat", "unlink", "rename", "fstatvfs",
                        "statvfs", "mkdir", "rmdir", "stat", "symlink", "realpath", "close"}
  /\ AllKinds["open"].good = {"HANDLE"}
  /\ \A k \in DOMAIN AllKinds \ {"readdir"} : "NAME" \notin AllKinds[k].good \/ k \in {"symlink", "realpath"}
  BY DEF AllKinds, Open, Readdir, Fsync, Fstat, Unlink, Rename, Fstatvfs, Statvfs, Mkdir, Rmdir,
         Stat, Symlink, Realpath, CloseHandle, Kind

LEMMA ReplyIs ==
  ASSUME NEW id, NEW type, NEW code, NEW bytes, NEW short
  PROVE  /\ Reply(id, type, code, bytes, short).id = id
         /\ Reply(id, type, code, bytes, short).type = type
         /\ Reply(id, type, code, bytes, short).code = code
         /\ Reply(id, type, code, bytes, short).bytes = bytes
         /\ Reply(id, type, code, bytes, short).short = short
  BY DEF Reply

(* The answer that is received answers the request it is for.               *)
Came(r, p) ==
  /\ PacketAdd(p) /\ p.id = r.id /\ Fits(p, r, written')
  /\ written \subseteq written'

LEMMA CameRead ==
  ASSUME NEW r, ServeRead(r), r.len \in Nat, r.offset \in Int
  PROVE  \E p : Came(r, p)
<1> DEFINE n == Max2(Min2(r.len, FileSize - r.offset), 0)
           odd == mood = "odd" /\ scene = "read"
<1>1. r.kind = "read" /\ "read" \notin DOMAIN AllKinds /\ "DATA" # "STATUS"
  BY Kinds DEF ServeRead
<1>2. written' = written
  BY DEF ServeRead
<1>3. FileSize \in Nat /\ n \in Nat /\ n <= r.len /\ (n # 0 => n = Min2(r.len, FileSize - r.offset))
  BY SftpAssumption DEF Min2, Max2
<1>4. \/ \E k \in 1..n : /\ k = n \/ odd
                         /\ PacketAdd(Reply(r.id, "DATA", "OK", Bytes(r.f, r.offset, k), FALSE))
      \/ PacketAdd(Reply(r.id, "STATUS", "EOF", <<>>, FALSE))
      \/ odd /\ PacketAdd(Reply(r.id, "STATUS", "FAILURE", <<>>, FALSE))
      \/ odd /\ PacketAdd(Reply(r.id, "STATUS", "OK", <<>>, TRUE))
      \/ odd /\ PacketAdd(Reply(r.id, "DATA", "BAD", <<>>, FALSE))
  BY Zenon DEF ServeRead
<1> HIDE DEF n
<1>5. ASSUME NEW k \in 1..n, k = n \/ odd,
             PacketAdd(Reply(r.id, "DATA", "OK", Bytes(r.f, r.offset, k), FALSE))
      PROVE  \E p : Came(r, p)
  <2>0. PICK short : short = FALSE
    OBVIOUS
  <2> DEFINE b == Bytes(r.f, r.offset, k)
             p == Reply(r.id, "DATA", "OK", b, short)
  <2>1. Len(b) = k /\ k \in 1..r.len /\ (mood # "odd" => k = Min2(r.len, FileSize - r.offset))
        /\ b = Bytes(r.f, r.offset, Len(b))
    BY <1>3, <1>5, BytesAre
  <2>2. p.id = r.id /\ p.type = "DATA" /\ p.code = "OK" /\ p.bytes = b /\ p.short = short
    BY ReplyIs
  <2>3. PacketAdd(p)
    BY <1>5, <2>0, Zenon
  <2> HIDE DEF b, p
  <2>4. Fits(p, r, written')
    BY <1>1, <2>0, <2>1, <2>2 DEF Fits
  <2>5. Came(r, p)
    BY <1>2, <2>2, <2>3, <2>4 DEF Came
  <2> QED
    BY <2>5
<1>6. ASSUME NEW code, NEW short, (code = "EOF" /\ short = FALSE) \/ odd,
             PacketAdd(Reply(r.id, "STATUS", code, <<>>, short))
      PROVE  \E p : Came(r, p)
  <2> DEFINE p == Reply(r.id, "STATUS", code, <<>>, short)
  <2>1. p.id = r.id /\ p.type = "STATUS" /\ p.code = code /\ p.short = short
    BY ReplyIs
  <2>2. PacketAdd(p)
    BY <1>6
  <2> HIDE DEF p
  <2>3. Fits(p, r, written')
    BY <1>1, <1>6, <2>1 DEF Fits
  <2>4. Came(r, p)
    BY <1>2, <2>1, <2>2, <2>3 DEF Came
  <2> QED
    BY <2>4
<1>7. ASSUME odd, PacketAdd(Reply(r.id, "DATA", "BAD", <<>>, FALSE)) PROVE \E p : Came(r, p)
  <2>0. PICK short : short = FALSE
    OBVIOUS
  <2> DEFINE p == Reply(r.id, "DATA", "BAD", <<>>, short)
  <2>1. p.id = r.id /\ p.type = "DATA" /\ p.code = "BAD" /\ p.short = short
    BY ReplyIs
  <2>2. PacketAdd(p)
    BY <1>7, <2>0, Zenon
  <2> HIDE DEF p
  <2>3. Fits(p, r, written')
    BY <1>1, <1>7, <2>0, <2>1 DEF Fits
  <2>4. Came(r, p)
    BY <1>2, <2>1, <2>2, <2>3 DEF Came
  <2> QED
    BY <2>4
<1> HIDE DEF odd
<1> QED
  BY <1>4, <1>5, <1>6, <1>7, Zenon

LEMMA CameWrite ==
  ASSUME NEW r, ServeWrite(r)
  PROVE  \E p : Came(r, p)
<1>1. r.kind = "write" /\ "write" \notin DOMAIN AllKinds
  BY Kinds DEF ServeWrite
<1>2. CASE /\ written' = written \cup {<<r.f, r.offset + i, r.from + i>> : i \in 0..(r.len - 1)}
           /\ PacketAdd(Reply(r.id, "STATUS", "OK", <<>>, FALSE))
  <2>0. PICK short : short = FALSE
    OBVIOUS
  <2> DEFINE p == Reply(r.id, "STATUS", "OK", <<>>, short)
  <2>1. p.id = r.id /\ p.type = "STATUS" /\ p.code = "OK" /\ p.short = short
    BY ReplyIs
  <2>2. PacketAdd(p)
    BY <1>2, <2>0, Zenon
  <2> HIDE DEF p
  <2>3. written \subseteq written' /\ \A i \in 0..(r.len - 1) : <<r.f, r.offset + i, r.from + i>> \in written'
    BY <1>2
  <2>4. Fits(p, r, written')
    BY <1>1, <2>0, <2>1, <2>3 DEF Fits
  <2>5. Came(r, p)
    BY <2>1, <2>2, <2>3, <2>4 DEF Came
  <2> QED
    BY <2>5
<1>3. CASE /\ mood = "odd"
           /\ \E short \in BOOLEAN : PacketAdd(Reply(r.id, "STATUS", "FAILURE", <<>>, short))
           /\ UNCHANGED written
  <2>1. PICK short \in BOOLEAN : PacketAdd(Reply(r.id, "STATUS", "FAILURE", <<>>, short))
    BY <1>3
  <2> DEFINE p == Reply(r.id, "STATUS", "FAILURE", <<>>, short)
  <2>2. p.id = r.id /\ p.type = "STATUS" /\ p.code = "FAILURE"
    BY ReplyIs
  <2>3. PacketAdd(p)
    BY <2>1
  <2> HIDE DEF p
  <2>4. Fits(p, r, written')
    BY <1>1, <1>3, <2>2 DEF Fits
  <2>5. Came(r, p)
    BY <1>3, <2>2, <2>3, <2>4 DEF Came
  <2> QED
    BY <2>5
<1> QED
  BY <1>2, <1>3 DEF ServeWrite

(* Answers to the requests of the other kinds, in the same way.             *)
LEMMA CameOther ==
  ASSUME NEW r, ServeDir(r) \/ ServeOp(r) \/ ServeTwice(r)
  PROVE  /\ \E p : Came(r, p)
         /\ r.kind \in DOMAIN AllKinds /\ written' = written
<1>0. r.kind \in DOMAIN AllKinds /\ r.kind # "read" /\ r.kind # "write" /\ written' = written
  BY Kinds DEF ServeDir, ServeOp, ServeTwice
<1>1. ASSUME NEW type, NEW code, NEW bytes, NEW short,
             PacketAdd(Reply(r.id, type, code, bytes, short)),
             type = "NAME" \/ bytes = <<>>,
             mood # "odd" => short = FALSE /\ ~(r.kind = "open" /\ type = "STATUS" /\ code = "OK")
      PROVE  \E p : Came(r, p)
  <2> DEFINE p == Reply(r.id, type, code, bytes, short)
  <2>1. p.id = r.id /\ p.type = type /\ p.code = code /\ p.bytes = bytes /\ p.short = short
    BY ReplyIs
  <2>2. PacketAdd(p)
    BY <1>1
  <2> HIDE DEF p
  <2>3. Fits(p, r, written')
    BY <1>0, <1>1, <2>1 DEF Fits
  <2>4. Came(r, p)
    BY <1>0, <2>1, <2>2, <2>3 DEF Came
  <2> QED
    BY <2>4
<1>2. CASE ServeDir(r)
  <2>1. r.kind # "open"
    BY <1>2 DEF ServeDir
  <2>2. \/ \E k \in 1..(Entries - cursor) :
              PacketAdd(Reply(r.id, "NAME", "OK", [i \in 1..k |-> cursor + i], FALSE))
        \/ PacketAdd(Reply(r.id, "STATUS", "EOF", <<>>, FALSE))
    BY <1>2, Zenon DEF ServeDir
  <2> QED
    BY <1>0, <1>1, <2>1, <2>2, Zenon
<1>3. CASE ServeOp(r)
  <2>1. r.kind = "open" => "STATUS" \notin AllKinds[r.kind].good
    BY Kinds
  <2>2. \/ \E t \in AllKinds[r.kind].good : PacketAdd(Reply(r.id, t, "OK", <<>>, FALSE))
        \/ PacketAdd(Reply(r.id, "STATUS", "FAILURE", <<>>, FALSE))
        \/ mood = "odd" /\ PacketAdd(Reply(r.id, "STATUS", "OK", <<>>, TRUE))
    BY <1>3, Zenon DEF ServeOp
  <2>3. CASE \E t \in AllKinds[r.kind].good : PacketAdd(Reply(r.id, t, "OK", <<>>, FALSE))
    BY <1>0, <1>1, <2>1, <2>3, Zenon
  <2>4. CASE PacketAdd(Reply(r.id, "STATUS", "FAILURE", <<>>, FALSE))
    <3>1. "FAILURE" # "OK"
      OBVIOUS
    <3> QED
      BY <1>0, <1>1, <2>4, <3>1, Zenon
  <2>5. CASE mood = "odd" /\ PacketAdd(Reply(r.id, "STATUS", "OK", <<>>, TRUE))
    BY <1>0, <1>1, <2>5, Zenon
  <2> QED
    BY <2>2, <2>3, <2>4, <2>5
<1>4. CASE ServeTwice(r)
  <2>1. mood = "odd" /\ PacketAdd(Reply(r.id, "STATUS", "OK", <<>>, FALSE))
    BY <1>4 DEF ServeTwice
  <2> QED
    BY <1>0, <1>1, <2>1, Zenon
<1> QED
  BY <1>0, <1>2, <1>3, <1>4

ListSet == [Handles -> Seq(ChunkSet)]
OpSet == [state : {"idle", "created", "sent"}, id : Nat, f : Nat]

(* Every id was given out, and a chunk, the request of another kind and a   *)
(* zombie never have the same one.                                          *)
Distinct(L, n, Z, Q, P, o) ==
  /\ Z \subseteq 1..(n - 1)
  /\ \A r \in Q : r.id \in 1..(n - 1)
  /\ \A p \in P : p.id \in 1..(n - 1)
  /\ o.state # "idle" => o.id \in 1..(n - 1) /\ o.id \notin Z
  /\ \A f \in Handles : \A i \in 1..Len(L[f]) :
       /\ L[f][i].id \in 1..(n - 1) /\ L[f][i].id \notin Z
       /\ o.state # "idle" => o.id # L[f][i].id
  /\ \A f, g \in Handles : \A i \in 1..Len(L[f]), j \in 1..Len(L[g]) :
       L[f][i].id = L[g][j].id => f = g /\ i = j

(* What has a chunk's id is its request, or an answer to its request.       *)
Matched(L, Q, P, W) ==
  \A f \in Handles : \A i \in 1..Len(L[f]) :
    /\ \A r \in Q : r.id = L[f][i].id => L[f][i].sent = 2 /\ r = Request(Doing, f, L[f][i])
    /\ \A p \in P : p.id = L[f][i].id => /\ L[f][i].sent = 2
                                         /\ Fits(p, Request(Doing, f, L[f][i]), W)

(* The same for the request of another kind.                                *)
OpMatched(Q, P, o, W) ==
  /\ o.state = "created" => (\A r \in Q : r.id # o.id) /\ (\A p \in P : p.id # o.id)
  /\ o.state = "sent" =>
       /\ \A r \in Q : r.id = o.id => r.kind = OpKind
       /\ \A p \in P : p.id = o.id => \E r : r.kind = OpKind /\ Fits(p, r, W)

Owned(L, n, Z, Q, P, W, o) ==
  Distinct(L, n, Z, Q, P, o) /\ Matched(L, Q, P, W) /\ OpMatched(Q, P, o, W)

LEMMA FitsMore ==
  ASSUME NEW p, NEW r, NEW V, NEW W, V \subseteq W, Fits(p, r, V)
  PROVE  Fits(p, r, W)
  BY DEF Fits

LEMMA OpKinds ==
  ASSUME scene \in AllScenes
  PROVE  OpKind \in DOMAIN AllKinds /\ OpKind # "read" /\ OpKind # "write" /\ OpKind # Doing
  BY Kinds DEF OpKind, AllScenes, Doing

LEMMA OneOwner ==
  ASSUME NEW L, NEW n, NEW Z, NEW Q, NEW P, NEW W, NEW o, Owned(L, n, Z, Q, P, W, o),
         NEW f \in Handles, NEW g \in Handles, NEW i \in 1..Len(L[f]), NEW j \in 1..Len(L[g]),
         L[f][i].id = L[g][j].id
  PROVE  f = g /\ i = j
<1>1. \A x, y \in Handles : \A k \in 1..Len(L[x]), m \in 1..Len(L[y]) :
         L[x][k].id = L[y][m].id => x = y /\ k = m
  BY Zenon DEF Owned, Distinct
<1> QED
  BY <1>1, Zenon

(* Chunks at the front of lists are given up, their ids may become zombies, *)
(* answers are taken, the request of another kind may end.                  *)
LEMMA Shrink ==
  ASSUME NEW L \in ListSet, NEW M \in ListSet, NEW d \in [Handles -> Nat],
         NEW n \in Nat, NEW Z, NEW Y, NEW Q, NEW P, NEW R, NEW W, NEW o, NEW q,
         Owned(L, n, Z, Q, P, W, o),
         \A f \in Handles : \A i \in 1..Len(M[f]) :
            i + d[f] \in 1..Len(L[f]) /\ M[f][i] = L[f][i + d[f]],
         \A z \in Y : z \in Z \/ \E f \in Handles : \E i \in 1..Len(L[f]) : i <= d[f] /\ z = L[f][i].id,
         R \subseteq P, q = o \/ q.state = "idle"
  PROVE  Owned(M, n, Y, Q, R, W, q)
<1>1. \A f \in Handles : d[f] \in Nat /\ Len(M[f]) \in Nat /\ Len(L[f]) \in Nat
  BY DEF ListSet
<1>o. /\ Z \subseteq 1..(n - 1)
      /\ o.state # "idle" => o.id \in 1..(n - 1) /\ o.id \notin Z
      /\ \A f \in Handles : \A i \in 1..Len(L[f]) :
           /\ L[f][i].id \in 1..(n - 1) /\ L[f][i].id \notin Z
           /\ o.state # "idle" => o.id # L[f][i].id
  BY DEF Owned, Distinct
<1>u. \A f, g \in Handles : \A i \in 1..Len(L[f]), j \in 1..Len(L[g]) :
         L[f][i].id = L[g][j].id => f = g /\ i = j
  BY DEF Owned, Distinct
<1>2. Distinct(M, n, Y, Q, R, q)
  <2>1. Y \subseteq 1..(n - 1)
    <3>1. ASSUME NEW z \in Y PROVE z \in 1..(n - 1)
      <4>1. CASE z \in Z
        BY <1>o, <4>1
      <4>2. ASSUME NEW f \in Handles, NEW i \in 1..Len(L[f]), z = L[f][i].id
            PROVE  z \in 1..(n - 1)
        BY <1>o, <4>2
      <4> QED
        BY <4>1, <4>2, Zenon
    <3> QED
      BY <3>1
  <2>2. ASSUME q.state # "idle" PROVE q.id \in 1..(n - 1) /\ q.id \notin Y
    <3>1. q = o
      BY <2>2
    <3>2. ASSUME NEW f \in Handles, NEW i \in 1..Len(L[f]), o.id = L[f][i].id
          PROVE  FALSE
      BY <1>o, <2>2, <3>1, <3>2
    <3>3. o.id \in 1..(n - 1) /\ o.id \notin Z
      BY <1>o, <2>2, <3>1
    <3> QED
      BY <3>1, <3>2, <3>3, Zenon
  <2>3. ASSUME NEW f \in Handles, NEW i \in 1..Len(M[f])
        PROVE  /\ M[f][i].id \in 1..(n - 1) /\ M[f][i].id \notin Y
               /\ q.state # "idle" => q.id # M[f][i].id
    <3>1. i + d[f] \in 1..Len(L[f]) /\ M[f][i] = L[f][i + d[f]] /\ i + d[f] > d[f]
      BY <1>1
    <3>2. /\ M[f][i].id \in 1..(n - 1) /\ M[f][i].id \notin Z
          /\ q.state # "idle" => q.id # M[f][i].id
      BY <1>o, <3>1, SMTT(40)
    <3>3. ASSUME NEW g \in Handles, NEW j \in 1..Len(L[g]), j <= d[g], M[f][i].id = L[g][j].id
          PROVE FALSE
      <4>1. f = g /\ i + d[f] = j
        BY <1>u, <3>1, <3>3, SMTT(40)
      <4> QED
        BY <3>1, <3>3, <4>1, <1>1
    <3> QED
      BY <3>2, <3>3
  <2>4. ASSUME NEW f \in Handles, NEW g \in Handles, NEW i \in 1..Len(M[f]), NEW j \in 1..Len(M[g]),
               M[f][i].id = M[g][j].id
        PROVE  f = g /\ i = j
    <3>1. /\ i + d[f] \in 1..Len(L[f]) /\ M[f][i] = L[f][i + d[f]]
          /\ j + d[g] \in 1..Len(L[g]) /\ M[g][j] = L[g][j + d[g]]
      OBVIOUS
    <3> DEFINE x == i + d[f]
               y == j + d[g]
    <3>2. x \in 1..Len(L[f]) /\ y \in 1..Len(L[g]) /\ L[f][x].id = L[g][y].id
      BY <2>4, <3>1
    <3> HIDE DEF x, y
    <3>3. f = g /\ x = y
      BY <3>2, OneOwner, SMTT(40)
    <3> QED
      BY <1>1, <3>3 DEF x, y
  <2>5. (\A r \in Q : r.id \in 1..(n - 1)) /\ (\A p \in R : p.id \in 1..(n - 1))
    BY DEF Owned, Distinct
  <2> QED
    BY <2>1, <2>2, <2>3, <2>4, <2>5 DEF Distinct
<1>3. Matched(M, Q, R, W)
  <2>1. ASSUME NEW f \in Handles, NEW i \in 1..Len(M[f])
        PROVE  /\ \A r \in Q : r.id = M[f][i].id => M[f][i].sent = 2 /\ r = Request(Doing, f, M[f][i])
               /\ \A p \in R : p.id = M[f][i].id => /\ M[f][i].sent = 2
                                                    /\ Fits(p, Request(Doing, f, M[f][i]), W)
    <3>1. i + d[f] \in 1..Len(L[f]) /\ M[f][i] = L[f][i + d[f]]
      OBVIOUS
    <3> QED
      BY <3>1, SMTT(40) DEF Owned, Matched
  <2> QED
    BY <2>1 DEF Matched
<1>4. OpMatched(Q, R, q, W)
  <2>1. CASE q = o
    BY <2>1 DEF Owned, OpMatched
  <2>2. CASE q.state = "idle"
    BY <2>2 DEF OpMatched
  <2> QED
    BY <2>1, <2>2
<1> QED
  BY <1>2, <1>3, <1>4 DEF Owned

(* New chunks, with new ids, join a list.                                   *)
LEMMA Grow ==
  ASSUME NEW L \in ListSet, NEW f \in Handles, NEW new, NEW x, Built(new, x), NEW Z, NEW Q, NEW P,
         NEW W, NEW o, request_id \in Nat \ {0},
         Owned(L, request_id, Z, Q, P, W, o)
  PROVE  /\ Owned([L EXCEPT ![f] = @ \o new], request_id + Len(new), Z, Q, P, W, o)
         /\ request_id + Len(new) \in Nat \ {0} /\ [L EXCEPT ![f] = @ \o new] \in ListSet
<1> DEFINE l == L[f]
           M == [L EXCEPT ![f] = @ \o new]
           n == request_id
           m == n + Len(new)
<1>1. /\ l \in Seq(ChunkSet) /\ new \in Seq(ChunkSet) /\ l \o new \in Seq(ChunkSet)
      /\ Len(l) \in Nat /\ Len(new) \in Nat /\ n \in Nat /\ m \in Nat /\ n > 0 /\ m >= n
  BY ChunkTyped, JoinOf DEF ListSet, Built
<1>2. M \in ListSet /\ M[f] = l \o new /\ \A g \in Handles : g # f => M[g] = L[g]
  BY <1>1 DEF ListSet
<1>3. \A i \in 1..Len(M[f]) : \/ i \in 1..Len(l) /\ M[f][i] = l[i]
                              \/ i - Len(l) \in 1..Len(new) /\ M[f][i] = new[i - Len(l)]
  BY <1>1, <1>2, JoinOf
<1>4. \A j \in 1..Len(new) : /\ new[j].id = n + j - 1 /\ new[j].id \in 1..(m - 1)
                             /\ new[j].id \notin 1..(n - 1) /\ new[j].sent = 0
  BY <1>1 DEF Built
<1>5. 1..(n - 1) \subseteq 1..(m - 1)
  BY <1>1
<1>6. ASSUME NEW g \in Handles, NEW i \in 1..Len(M[g])
      PROVE  \/ i \in 1..Len(L[g]) /\ M[g][i] = L[g][i] /\ M[g][i].id \in 1..(n - 1)
             \/ /\ g = f /\ i - Len(l) \in 1..Len(new) /\ M[g][i].id = n + (i - Len(l)) - 1
                /\ M[g][i].id \in 1..(m - 1) /\ M[g][i].id \notin 1..(n - 1)
  <2>1. \A h \in Handles : \A j \in 1..Len(L[h]) : L[h][j].id \in 1..(n - 1)
    BY DEF Owned, Distinct
  <2> HIDE DEF M
  <2>2. CASE g # f
    BY <1>2, <2>1, <2>2
  <2>3. CASE g = f
    <3>1. CASE i \in 1..Len(l) /\ M[f][i] = l[i]
      BY <2>1, <2>3, <3>1
    <3>2. CASE i - Len(l) \in 1..Len(new) /\ M[f][i] = new[i - Len(l)]
      BY <1>4, <2>3, <3>2
    <3> QED
      BY <1>3, <2>3, <3>1, <3>2
  <2> QED
    BY <2>2, <2>3
<1> HIDE DEF M, m
<1>7. Distinct(M, m, Z, Q, P, o)
  <2>1. ASSUME NEW g \in Handles, NEW i \in 1..Len(M[g])
        PROVE  /\ M[g][i].id \in 1..(m - 1) /\ M[g][i].id \notin Z
               /\ o.state # "idle" => o.id # M[g][i].id
    <3>1. CASE i \in 1..Len(L[g]) /\ M[g][i] = L[g][i] /\ M[g][i].id \in 1..(n - 1)
      BY <1>5, <3>1 DEF Owned, Distinct
    <3>2. CASE M[g][i].id \in 1..(m - 1) /\ M[g][i].id \notin 1..(n - 1)
      BY <3>2 DEF Owned, Distinct
    <3> QED
      BY <1>6, <3>1, <3>2
  <2>2. ASSUME NEW g \in Handles, NEW h \in Handles, NEW i \in 1..Len(M[g]), NEW j \in 1..Len(M[h]),
               M[g][i].id = M[h][j].id
        PROVE  g = h /\ i = j
    <3>1. CASE M[g][i].id \in 1..(n - 1)
      <4>1. /\ i \in 1..Len(L[g]) /\ M[g][i] = L[g][i] /\ j \in 1..Len(L[h]) /\ M[h][j] = L[h][j]
        BY <1>6, <2>2, <3>1
      <4> QED
        BY <2>2, <4>1 DEF Owned, Distinct
    <3>2. CASE M[g][i].id \notin 1..(n - 1)
      <4>1. /\ g = f /\ h = f /\ M[g][i].id = n + (i - Len(l)) - 1 /\ M[h][j].id = n + (j - Len(l)) - 1
        BY <1>6, <2>2, <3>2
      <4> QED
        BY <1>1, <2>2, <4>1
    <3> QED
      BY <3>1, <3>2
  <2>3. /\ Z \subseteq 1..(m - 1)
        /\ \A r \in Q : r.id \in 1..(m - 1)
        /\ \A p \in P : p.id \in 1..(m - 1)
        /\ o.state # "idle" => o.id \in 1..(m - 1) /\ o.id \notin Z
    BY <1>5 DEF Owned, Distinct
  <2> QED
    BY <2>1, <2>2, <2>3 DEF Distinct
<1>8. Matched(M, Q, P, W)
  <2>1. ASSUME NEW g \in Handles, NEW i \in 1..Len(M[g])
        PROVE  /\ \A r \in Q : r.id = M[g][i].id => M[g][i].sent = 2 /\ r = Request(Doing, g, M[g][i])
               /\ \A p \in P : p.id = M[g][i].id => /\ M[g][i].sent = 2
                                                    /\ Fits(p, Request(Doing, g, M[g][i]), W)
    <3>1. CASE i \in 1..Len(L[g]) /\ M[g][i] = L[g][i]
      BY <3>1 DEF Owned, Matched
    <3>2. CASE M[g][i].id \notin 1..(n - 1)
      BY <3>2 DEF Owned, Distinct
    <3> QED
      BY <1>6, <3>1, <3>2
  <2> QED
    BY <2>1 DEF Matched
<1>9. m \in Nat \ {0}
  BY <1>1 DEF m
<1> QED
  BY <1>2, <1>7, <1>8, <1>9 DEF Owned, M, m

(* Chunk i of file f is sent, in part or as a whole, and the server may     *)
(* have it then.                                                            *)
Marked(L, M, f, i, v) ==
  /\ \A g \in Handles : Len(M[g]) = Len(L[g])
  /\ \A g \in Handles : \A j \in 1..Len(L[g]) : g # f \/ j # i => M[g][j] = L[g][j]
  /\ M[f][i].id = L[f][i].id /\ M[f][i].offset = L[f][i].offset
  /\ M[f][i].len = L[f][i].len /\ M[f][i].from = L[f][i].from
  /\ M[f][i].sent = v

LEMMA Mark ==
  ASSUME NEW L, NEW M, NEW f \in Handles, NEW i \in 1..Len(L[f]), NEW v, Marked(L, M, f, i, v),
         NEW n, NEW Z, NEW Q, NEW X, NEW P, NEW W, NEW o,
         L[f][i].sent # 2, X = Q \/ (v = 2 /\ X = Q \cup {Request(Doing, f, L[f][i])}),
         o.state = "sent" => OpKind # Doing,
         Owned(L, n, Z, Q, P, W, o)
  PROVE  Owned(M, n, Z, X, P, W, o)
<1>0. ASSUME NEW g \in Handles, NEW j \in 1..Len(M[g])
      PROVE  /\ j \in 1..Len(L[g]) /\ M[g][j].id = L[g][j].id
             /\ Request(Doing, g, M[g][j]) = Request(Doing, g, L[g][j])
             /\ g # f \/ j # i => M[g][j] = L[g][j]
  <2>1. j \in 1..Len(L[g]) /\ (g # f \/ j # i => M[g][j] = L[g][j])
    BY DEF Marked
  <2>2. CASE g = f /\ j = i
    BY <2>1, <2>2 DEF Marked, Request
  <2> QED
    BY <2>1, <2>2
<1> DEFINE q == Request(Doing, f, L[f][i])
<1>1. q.id = L[f][i].id /\ q.kind = Doing
  BY DEF Request
<1>2. \A s \in X : s \in Q \/ (v = 2 /\ s = q)
  <2>1. CASE X = Q
    BY <2>1, Zenon
  <2>2. CASE v = 2 /\ X = Q \cup {q}
    <3> HIDE DEF q
    <3> QED
      BY <2>2
  <2> QED
    BY <2>1, <2>2, Zenon
<1>3. /\ \A s \in Q : s.id # q.id
      /\ \A p \in P : p.id # q.id
      /\ q.id \in 1..(n - 1) /\ (o.state # "idle" => o.id # q.id)
  <2>1. /\ \A s \in Q : s.id # L[f][i].id
        /\ \A p \in P : p.id # L[f][i].id
    BY DEF Owned, Matched
  <2>2. L[f][i].id \in 1..(n - 1) /\ (o.state # "idle" => o.id # L[f][i].id)
    BY DEF Owned, Distinct
  <2> QED
    BY <1>1, <2>1, <2>2
<1> HIDE DEF q
<1>4. Distinct(M, n, Z, X, P, o)
  <2>1. \A s \in X : s.id \in 1..(n - 1)
    BY <1>2, <1>3 DEF Owned, Distinct
  <2>2. ASSUME NEW g \in Handles, NEW j \in 1..Len(M[g])
        PROVE  /\ M[g][j].id \in 1..(n - 1) /\ M[g][j].id \notin Z
               /\ o.state # "idle" => o.id # M[g][j].id
    <3>1. j \in 1..Len(L[g]) /\ M[g][j].id = L[g][j].id
      BY <1>0
    <3> QED
      BY <3>1 DEF Owned, Distinct
  <2>3. ASSUME NEW g \in Handles, NEW h \in Handles, NEW j \in 1..Len(M[g]), NEW k \in 1..Len(M[h]),
               M[g][j].id = M[h][k].id
        PROVE  g = h /\ j = k
    <3>1. /\ j \in 1..Len(L[g]) /\ M[g][j].id = L[g][j].id
          /\ k \in 1..Len(L[h]) /\ M[h][k].id = L[h][k].id
      BY <1>0
    <3>2. L[g][j].id = L[h][k].id
      BY <2>3, <3>1
    <3> QED
      BY <3>1, <3>2, OneOwner
  <2>4. /\ Z \subseteq 1..(n - 1) /\ \A p \in P : p.id \in 1..(n - 1)
        /\ o.state # "idle" => o.id \in 1..(n - 1) /\ o.id \notin Z
    BY DEF Owned, Distinct
  <2> QED
    BY <2>1, <2>2, <2>3, <2>4, Zenon DEF Distinct
<1>5. Matched(M, X, P, W)
  <2>1. ASSUME NEW g \in Handles, NEW j \in 1..Len(M[g])
        PROVE  /\ \A r \in X : r.id = M[g][j].id => M[g][j].sent = 2 /\ r = Request(Doing, g, M[g][j])
               /\ \A p \in P : p.id = M[g][j].id => /\ M[g][j].sent = 2
                                                    /\ Fits(p, Request(Doing, g, M[g][j]), W)
    <3>1. CASE g = f /\ j = i
      <4>1. Request(Doing, g, M[g][j]) = q /\ M[g][j].id = q.id /\ M[g][j].sent = v
        BY <1>0, <1>1, <3>1 DEF q, Marked
      <4> QED
        BY <1>2, <1>3, <4>1
    <3>2. CASE g # f \/ j # i
      <4>1. j \in 1..Len(L[g]) /\ M[g][j] = L[g][j]
        BY <1>0, <3>2
      <4>2. L[g][j].id # q.id
        <5>1. CASE L[g][j].id = L[f][i].id
          BY <3>2, <4>1, <5>1, OneOwner
        <5> QED
          BY <1>1, <5>1
      <4>3. /\ \A r \in Q : r.id = L[g][j].id => L[g][j].sent = 2 /\ r = Request(Doing, g, L[g][j])
            /\ \A p \in P : p.id = L[g][j].id => /\ L[g][j].sent = 2
                                                 /\ Fits(p, Request(Doing, g, L[g][j]), W)
        BY <4>1 DEF Owned, Matched
      <4> QED
        BY <1>2, <4>1, <4>2, <4>3
    <3> QED
      BY <3>1, <3>2
  <2> QED
    BY <2>1, Zenon DEF Matched
<1>6. OpMatched(X, P, o, W)
  <2>1. CASE o.state = "created"
    BY <1>2, <1>3, <2>1 DEF Owned, OpMatched
  <2>2. CASE o.state = "sent"
    BY <1>2, <1>3, <2>2 DEF Owned, OpMatched
  <2> QED
    BY <2>1, <2>2 DEF OpMatched
<1> QED
  BY <1>4, <1>5, <1>6 DEF Owned

(* An answer is received.                                                   *)
LEMMA Got ==
  ASSUME NEW L, NEW n, NEW o, Owned(L, n, zombies, pending, packets, written, o),
         NEW r \in pending, NEW p, Came(r, p),
         \A s \in pending' : 
            s \in pending \/ (s.id = r.id /\ s.kind = r.kind /\ r.kind # Doing),
         scene' = scene, mood' = mood
  PROVE  Owned(L, n, zombies', pending', packets', written', o)
<1>1. /\ p.id = r.id /\ Fits(p, r, written') /\ written \subseteq written'
      /\ zombies' \subseteq zombies /\ \A q \in packets' : q \in packets \/ q = p
  BY DEF Came, PacketAdd
<1>2. Distinct(L, n, zombies', pending', packets', o)
  <2>1. /\ r.id \in 1..(n - 1) /\ zombies \subseteq 1..(n - 1)
        /\ (\A s \in pending : s.id \in 1..(n - 1)) /\ (\A q \in packets : q.id \in 1..(n - 1))
    BY DEF Owned, Distinct
  <2>2. /\ zombies' \subseteq 1..(n - 1)
        /\ (\A s \in pending' : s.id \in 1..(n - 1)) /\ (\A q \in packets' : q.id \in 1..(n - 1))
    BY <1>1, <2>1
  <2>3. o.state # "idle" => o.id \in 1..(n - 1) /\ o.id \notin zombies'
    BY <1>1 DEF Owned, Distinct
  <2>4. \A f \in Handles : \A i \in 1..Len(L[f]) :
           /\ L[f][i].id \in 1..(n - 1) /\ L[f][i].id \notin zombies'
           /\ o.state # "idle" => o.id # L[f][i].id
    BY <1>1 DEF Owned, Distinct
  <2>5. \A f, g \in Handles : \A i \in 1..Len(L[f]), j \in 1..Len(L[g]) :
           L[f][i].id = L[g][j].id => f = g /\ i = j
    BY Zenon DEF Owned, Distinct
  <2> QED
    BY <2>2, <2>3, <2>4, <2>5, Zenon DEF Distinct
<1>3. Matched(L, pending', packets', written')
  <2>1. ASSUME NEW f \in Handles, NEW i \in 1..Len(L[f])
        PROVE  /\ \A s \in pending' : s.id = L[f][i].id => L[f][i].sent = 2 /\ s = Request(Doing, f, L[f][i])
               /\ \A q \in packets' : q.id = L[f][i].id => /\ L[f][i].sent = 2
                                                           /\ Fits(q, Request(Doing, f, L[f][i]), written')
    <3> DEFINE c == L[f][i]
               t == Request(Doing, f, c)
    <3>1. /\ \A s \in pending : s.id = c.id => c.sent = 2 /\ s = t
          /\ \A q \in packets : q.id = c.id => c.sent = 2 /\ Fits(q, t, written)
      BY DEF Owned, Matched
    <3>2. t.kind = Doing
      BY DEF Request
    <3> HIDE DEF c, t
    <3>3. ASSUME NEW s \in pending', s.id = c.id PROVE c.sent = 2 /\ s = t
      <4>1. CASE s \in pending
        BY <3>1, <3>3, <4>1
      <4>2. CASE s.id = r.id /\ s.kind = r.kind /\ r.kind # Doing
        BY <3>1, <3>2, <3>3, <4>2
      <4> QED
        BY <4>1, <4>2
    <3>4. ASSUME NEW q \in packets', q.id = c.id PROVE c.sent = 2 /\ Fits(q, t, written')
      <4>1. CASE q \in packets
        BY <1>1, <3>1, <3>4, <4>1, FitsMore
      <4>2. CASE q = p
        BY <1>1, <3>1, <3>4, <4>2
      <4> QED
        BY <1>1, <4>1, <4>2
    <3> QED
      BY <3>3, <3>4 DEF c, t
  <2> QED
    BY <2>1, Zenon DEF Matched
<1>4. OpMatched(pending', packets', o, written')
  <2>1. CASE o.state = "created"
    BY <1>1, <2>1 DEF Owned, OpMatched
  <2>2. CASE o.state = "sent"
    <3>1. /\ \A s \in pending : s.id = o.id => s.kind = OpKind
          /\ \A q \in packets : q.id = o.id => \E t : t.kind = OpKind /\ Fits(q, t, written)
      BY <2>2 DEF Owned, OpMatched
    <3>2. \A s \in pending' : s.id = o.id => s.kind = OpKind
      BY <3>1
    <3>3. ASSUME NEW q \in packets', q.id = o.id
          PROVE  \E t : t.kind = OpKind /\ Fits(q, t, written')
      <4>1. CASE q \in packets
        <5>1. PICK t : t.kind = OpKind /\ Fits(q, t, written)
          BY <3>1, <3>3, <4>1
        <5>2. Fits(q, t, written')
          BY <1>1, <5>1, FitsMore
        <5> QED
          BY <5>1, <5>2
      <4>2. CASE q = p
        BY <1>1, <3>1, <3>3, <4>2
      <4> QED
        BY <1>1, <4>1, <4>2
    <3> QED
      BY <2>2, <3>2, <3>3 DEF OpMatched
  <2> QED
    BY <2>1, <2>2 DEF OpMatched
<1> QED
  BY <1>2, <1>3, <1>4 DEF Owned

LEMMA OpNew ==
  ASSUME NEW L, NEW n \in Nat \ {0}, NEW Z, NEW Q, NEW P, NEW W, NEW o, NEW q,
         Owned(L, n, Z, Q, P, W, o), q.id = n, q.state = "created"
  PROVE  Owned(L, n + 1, Z, Q, P, W, q)
<1>1. 1..(n - 1) \subseteq 1..(n + 1 - 1) /\ n \notin 1..(n - 1) /\ n \in 1..(n + 1 - 1)
  OBVIOUS
<1>2. Distinct(L, n + 1, Z, Q, P, q)
  <2>1. /\ Z \subseteq 1..(n - 1)
        /\ \A r \in Q : r.id \in 1..(n - 1)
        /\ \A p \in P : p.id \in 1..(n - 1)
        /\ \A f \in Handles : \A i \in 1..Len(L[f]) : L[f][i].id \in 1..(n - 1) /\ L[f][i].id \notin Z
    BY DEF Owned, Distinct
  <2>2. /\ Z \subseteq 1..(n + 1 - 1)
        /\ \A r \in Q : r.id \in 1..(n + 1 - 1)
        /\ \A p \in P : p.id \in 1..(n + 1 - 1)
        /\ q.state # "idle" => q.id \in 1..(n + 1 - 1) /\ q.id \notin Z
    BY <1>1, <2>1
  <2>3. \A f \in Handles : \A i \in 1..Len(L[f]) :
           /\ L[f][i].id \in 1..(n + 1 - 1) /\ L[f][i].id \notin Z
           /\ q.state # "idle" => q.id # L[f][i].id
    BY <1>1, <2>1
  <2>4. \A f, g \in Handles : \A i \in 1..Len(L[f]), j \in 1..Len(L[g]) :
           L[f][i].id = L[g][j].id => f = g /\ i = j
    BY Zenon DEF Owned, Distinct
  <2> QED
    BY <2>2, <2>3, <2>4 DEF Distinct
<1>3. OpMatched(Q, P, q, W)
  <2>1. (\A r \in Q : r.id \in 1..(n - 1)) /\ (\A p \in P : p.id \in 1..(n - 1))
    BY DEF Owned, Distinct
  <2> QED
    BY <1>1, <2>1 DEF OpMatched
<1> QED
  BY <1>2, <1>3 DEF Owned

LEMMA OpOut ==
  ASSUME NEW L, NEW n, NEW Z, NEW Q, NEW X, NEW P, NEW W, NEW o, NEW q, NEW r,
         Owned(L, n, Z, Q, P, W, o), o.state = "created", q.id = o.id, q.state = "sent",
         r.id = o.id, r.kind = OpKind, X = Q \/ X = Q \cup {r}
  PROVE  Owned(L, n, Z, X, P, W, q)
<1>1. \A s \in X : s \in Q \/ s = r
  OBVIOUS
<1>2. o.id \in 1..(n - 1) /\ o.id \notin Z
  BY DEF Owned, Distinct
<1>3. \A f \in Handles : \A i \in 1..Len(L[f]) : L[f][i].id # o.id
  BY DEF Owned, Distinct
<1>4. Distinct(L, n, Z, X, P, q)
  <2>1. /\ Z \subseteq 1..(n - 1)
        /\ \A s \in X : s.id \in 1..(n - 1)
        /\ \A p \in P : p.id \in 1..(n - 1)
        /\ q.state # "idle" => q.id \in 1..(n - 1) /\ q.id \notin Z
    BY <1>1, <1>2 DEF Owned, Distinct
  <2>2. \A f \in Handles : \A i \in 1..Len(L[f]) :
           /\ L[f][i].id \in 1..(n - 1) /\ L[f][i].id \notin Z
           /\ q.state # "idle" => q.id # L[f][i].id
    BY <1>3 DEF Owned, Distinct
  <2>3. \A f, g \in Handles : \A i \in 1..Len(L[f]), j \in 1..Len(L[g]) :
           L[f][i].id = L[g][j].id => f = g /\ i = j
    BY Zenon DEF Owned, Distinct
  <2> QED
    BY <2>1, <2>2, <2>3, Zenon DEF Distinct
<1>5. Matched(L, X, P, W)
  <2>1. ASSUME NEW g \in Handles, NEW j \in 1..Len(L[g])
        PROVE  /\ \A s \in X : s.id = L[g][j].id => L[g][j].sent = 2 /\ s = Request(Doing, g, L[g][j])
               /\ \A p \in P : p.id = L[g][j].id => /\ L[g][j].sent = 2
                                                    /\ Fits(p, Request(Doing, g, L[g][j]), W)
    <3>1. /\ \A s \in Q : s.id = L[g][j].id => L[g][j].sent = 2 /\ s = Request(Doing, g, L[g][j])
          /\ \A p \in P : p.id = L[g][j].id => /\ L[g][j].sent = 2
                                               /\ Fits(p, Request(Doing, g, L[g][j]), W)
      BY DEF Owned, Matched
    <3> QED
      BY <1>1, <1>3, <3>1
  <2> QED
    BY <2>1, Zenon DEF Matched
<1>6. OpMatched(X, P, q, W)
  BY <1>1 DEF Owned, OpMatched
<1> QED
  BY <1>4, <1>5, <1>6 DEF Owned

-----------------------------------------------------------------------------
(* The state: its shape, where calls stand, and who waits for what.         *)

Lists == [f \in Handles |-> file[f].list]

RequestSet == [id : Nat, kind : AllScenes, f : Handles, offset : Int, len : Nat, from : Int]

Shape ==
  /\ file \in [Handles -> FileSet] /\ request_id \in Nat \ {0}
  /\ at \in Handles /\ size \in Nat /\ buf \in Seq(Handles \X Int)
  /\ pos \in [Handles -> Int] /\ op \in OpSet /\ seeks \in Nat
  /\ scene \in AllScenes
  /\ \A r \in pending : r \in RequestSet

Place ==
  /\ pc \in {"rsend", "rrecv"} => scene # "write" /\ Len(buf) < size
  /\ pc \in {"wsend", "wack"} => scene = "write"
  /\ pc = "osend" => op.state = "created"
  /\ pc = "owait" => op.state = "sent"

(* What a behaviour is about does not change.                               *)
LEMMA Carry ==
  ASSUME scene' = scene, mood' = mood,
         Owned(Lists', request_id', zombies', pending', packets', written', op')
  PROVE  Owned(Lists, request_id, zombies, pending, packets, written, op)'
<1>0. OpKind' = OpKind /\ Doing' = Doing
  BY DEF OpKind, Doing
<1>1. Distinct(Lists, request_id, zombies, pending, packets, op)'
  BY Zenon DEF Owned, Distinct
<1>3. Matched(Lists, pending, packets, written)'
  BY <1>0 DEF Owned, Matched, Fits
<1>4. OpMatched(pending, packets, op, written)'
  <2>1. ASSUME NEW p, \E r : r.kind = OpKind /\ Fits(p, r, written')
        PROVE  (\E r : r.kind = OpKind /\ Fits(p, r, written))'
    <3>1. PICK r : r.kind = OpKind /\ Fits(p, r, written')
      BY <2>1
    <3>2. (r.kind = OpKind /\ Fits(p, r, written))'
      BY <1>0, <3>1 DEF Fits
    <3> QED
      BY <3>2
  <2> QED
    BY <1>0, <2>1 DEF Owned, OpMatched
<1> QED
  BY <1>1, <1>3, <1>4 DEF Owned

Owns == Owned(Lists, request_id, zombies, pending, packets, written, op)
Core == Shape /\ Place /\ Owns

\* The request that is half sent is the first of its handle that is not sent, or that of the
\* call of another kind that was begun: the call that has to be made again.
PacketsIn(m, r, rest) ==
  {Packet(r, rest, whole) : whole \in IF m = "tight" /\ ~rest THEN BOOLEAN ELSE {TRUE}}
HalfIn(l, f, k, m, Q) ==
  \E i \in 1..Len(l) : /\ l[i].sent # 2 /\ \A j \in 1..(i - 1) : l[j].sent = 2
                       /\ Q \subseteq PacketsIn(m, Request(k, f, l[i]), l[i].sent = 1)
HalfOpIn(o, k, rest, m, Q) ==
  /\ o.state = "created"
  /\ Q \subseteq PacketsIn(m, [id |-> o.id, kind |-> k, f |-> o.f, offset |-> 0, len |-> 0, from |-> 0], rest)
Half(f) == HalfIn(file[f].list, f, Doing, mood, stuck)
HalfOp == HalfOpIn(op, OpKind, OpRest, mood, stuck)
OfFile(f) ==
  /\ \/ /\ pc = "app" /\ (scene # "write" => read_state = "sent")
        /\ scene = "write" => write_state = "idle"
     \/ pc \in {"rsend", "wsend"} /\ at = f
  /\ Half(f)
OfOp == pc \in {"app", "osend"} /\ HalfOp
Sending == {"app", "rsend", "wsend", "osend"}
Mine ==
  /\ ~MixCalls
  /\ pc # "app" => init_state = "up"
  /\ pc = "osend" => op.f = at
  /\ pc = "wsend" => write_state = "idle"
  /\ stuck # {} => init_state \in {"up", "down"} /\ pc \in Sending
  /\ stuck # {} /\ init_state = "up" => OfOp \/ \E f \in Handles : OfFile(f)

Base == Core /\ Mine
World == scene' = scene /\ mood' = mood
OtherFiles(f) == \A g \in Handles : g # f => file'[g] = file[g]

LEMMA ListsTyped ==
  ASSUME Shape
  PROVE  /\ Lists \in ListSet
         /\ \A f \in Handles : Lists[f] = file[f].list /\ file[f].list \in Seq(ChunkSet)
<1>1. \A f \in Handles : file[f].list \in Seq(ChunkSet)
  BY FileTyped DEF Shape
<1> QED
  BY <1>1 DEF Lists, ListSet

LEMMA ListsNext ==
  ASSUME Shape'
  PROVE  Lists' \in ListSet /\ \A f \in Handles : Lists'[f] = file'[f].list
<1>1. \A x \in FileSet : x.list \in Seq(ChunkSet)
  BY DEF FileSet
<1>2. \A f \in Handles : file'[f].list \in Seq(ChunkSet)
  BY <1>1 DEF Shape
<1> QED
  BY <1>2 DEF Lists, ListSet

LEMMA ListsPut ==
  ASSUME NEW f \in Handles, OtherFiles(f)
  PROVE  Lists' = [Lists EXCEPT ![f] = file'[f].list]
  BY DEF Lists, OtherFiles

(* No list changes.                                                         *)
LEMMA Keep ==
  ASSUME Shape, Shape', Owns, World, Lists' = Lists, zombies' \subseteq zombies, packets' \subseteq packets,
         op' = op \/ op'.state = "idle", UNCHANGED <<request_id, pending, written>>
  PROVE  Owns'
<1> DEFINE d == [f \in Handles |-> 0]
<1>1. d \in [Handles -> Nat] /\ \A f \in Handles : d[f] = 0
  OBVIOUS
<1>2. Lists \in ListSet /\ request_id \in Nat /\ \A f \in Handles : Len(Lists[f]) \in Nat
  BY ListsTyped DEF Shape, ListSet
<1> HIDE DEF d
<1>3. \A f \in Handles : \A i \in 1..Len(Lists[f]) :
         i + d[f] \in 1..Len(Lists[f]) /\ Lists[f][i] = Lists[f][i + d[f]]
  BY <1>1, <1>2
<1>4. Owned(Lists, request_id, zombies', pending, packets', written, op')
  BY <1>1, <1>2, <1>3, Shrink DEF Owns
<1>5. Owned(Lists', request_id', zombies', pending', packets', written', op')
  BY <1>4
<1> QED
  BY <1>5, Carry DEF Owns, World

(* The first chunk of a list is answered.                                   *)
LEMMA TakeFirst ==
  ASSUME Shape, Shape', Owns, World, NEW f \in Handles, OtherFiles(f), file[f].list # <<>>,
         file'[f].list = Tail(file[f].list),
         zombies' = zombies, packets' \subseteq packets, UNCHANGED <<op, request_id, pending, written>>
  PROVE  Owns'
<1> DEFINE d == [g \in Handles |-> IF g = f THEN 1 ELSE 0]
           M == Lists'
<1>1. d \in [Handles -> Nat] /\ \A g \in Handles : d[g] = IF g = f THEN 1 ELSE 0
  OBVIOUS
<1>2. Lists \in ListSet /\ request_id \in Nat /\ \A g \in Handles : Len(Lists[g]) \in Nat
  BY ListsTyped DEF Shape, ListSet
<1>3. M \in ListSet
  BY ListsNext
<1>4. \A g \in Handles : M[g] = IF g = f THEN Tail(Lists[f]) ELSE Lists[g]
  BY <1>2, ListsPut, ListsTyped DEF ListSet
<1> HIDE DEF d, M
<1>5. ASSUME NEW g \in Handles, NEW i \in 1..Len(M[g])
      PROVE  i + d[g] \in 1..Len(Lists[g]) /\ M[g][i] = Lists[g][i + d[g]]
  <2>1. CASE g = f
    <3>1. Lists[f] \in Seq(ChunkSet) /\ Lists[f] # <<>> /\ M[f] = Tail(Lists[f])
      BY <1>4, ListsTyped
    <3>2. i + 1 \in 1..Len(Lists[f]) /\ M[f][i] = Lists[f][i + 1]
      BY <2>1, <3>1, TailOf
    <3> QED
      BY <1>1, <2>1, <3>2
  <2>2. CASE g # f
    BY <1>1, <1>2, <1>4, <2>2
  <2> QED
    BY <2>1, <2>2
<1>6. Owned(M, request_id, zombies, pending, packets', written, op)
  BY <1>1, <1>2, <1>3, <1>5, Shrink DEF Owns
<1>7. Owned(Lists', request_id', zombies', pending', packets', written', op')
  BY <1>6 DEF M
<1> QED
  BY <1>7, Carry DEF Owns, World

(* All chunks of a list are given up.                                       *)
LEMMA Give ==
  ASSUME Shape, Shape', Owns, World, NEW f \in Handles, OtherFiles(f), file'[f].list = <<>>,
         zombies' \subseteq zombies \cup {file[f].list[i].id : i \in 1..Len(file[f].list)},
         packets' \subseteq packets, op' = op \/ op'.state = "idle",
         UNCHANGED <<request_id, pending, written>>
  PROVE  Owns'
<1> DEFINE d == [g \in Handles |-> IF g = f THEN Len(Lists[f]) ELSE 0]
           M == Lists'
<1>2. Lists \in ListSet /\ request_id \in Nat /\ \A g \in Handles : Len(Lists[g]) \in Nat
  BY ListsTyped, SMTT(40) DEF Shape, ListSet
<1>1. d \in [Handles -> Nat] /\ \A g \in Handles : d[g] = IF g = f THEN Len(Lists[f]) ELSE 0
  BY <1>2
<1>3. M \in ListSet
  BY ListsNext
<1>4. \A g \in Handles : M[g] = IF g = f THEN <<>> ELSE Lists[g]
  BY <1>2, ListsPut, ListsTyped DEF ListSet
<1> HIDE DEF d, M
<1>5. ASSUME NEW g \in Handles, NEW i \in 1..Len(M[g])
      PROVE  i + d[g] \in 1..Len(Lists[g]) /\ M[g][i] = Lists[g][i + d[g]]
  <2>1. CASE g = f
    BY <1>4, <2>1
  <2>2. CASE g # f
    BY <1>1, <1>2, <1>4, <2>2
  <2> QED
    BY <2>1, <2>2
<1>6. ASSUME NEW z \in zombies'
      PROVE  z \in zombies \/ \E g \in Handles : \E i \in 1..Len(Lists[g]) : i <= d[g] /\ z = Lists[g][i].id
  <2>1. CASE z \notin zombies
    <3>1. PICK i \in 1..Len(file[f].list) : z = file[f].list[i].id
      BY <2>1
    <3>2. i \in 1..Len(Lists[f]) /\ i <= d[f] /\ z = Lists[f][i].id
      BY <1>1, <1>2, <3>1, ListsTyped
    <3> QED
      BY <3>2
  <2> QED
    BY <2>1
<1>7. Owned(M, request_id, zombies', pending, packets', written, op')
  BY <1>1, <1>2, <1>3, <1>5, <1>6, Shrink DEF Owns
<1>8. Owned(Lists', request_id', zombies', pending', packets', written', op')
  BY <1>7 DEF M
<1> QED
  BY <1>8, Carry DEF Owns, World

LEMMA Flushed ==
  ASSUME NEW l \in Seq(ChunkSet), NEW ps, PacketlistFlush(l, ps)
  PROVE  /\ packets' \subseteq ps
         /\ zombies' \subseteq zombies \cup {l[i].id : i \in 1..Len(l)}
<1>1. DOMAIN l = 1..Len(l)
  BY ChunkTyped
<1>2. packets' \subseteq ps
  BY DEF PacketlistFlush
<1>3. ASSUME NEW z \in zombies', z \notin zombies
      PROVE  \E i \in 1..Len(l) : z = l[i].id
  BY <1>1, <1>3 DEF PacketlistFlush, Range
<1> QED
  BY <1>2, <1>3

(* New chunks join the list of f.                                           *)
LEMMA AddNew ==
  ASSUME Shape, Shape', Owns, World, NEW f \in Handles, OtherFiles(f), NEW new, NEW x, Built(new, x),
         file'[f].list = file[f].list \o new, request_id' = request_id + Len(new),
         UNCHANGED <<zombies, pending, packets, written, op>>
  PROVE  Owns'
<1>1. Lists \in ListSet /\ request_id \in Nat \ {0} /\ Lists[f] = file[f].list
  BY ListsTyped DEF Shape
<1>2. Owned([Lists EXCEPT ![f] = @ \o new], request_id + Len(new), zombies, pending, packets, written, op)
  BY <1>1, Grow DEF Owns
<1>3. Lists' = [Lists EXCEPT ![f] = @ \o new]
  BY <1>1, ListsPut
<1>4. Owned(Lists', request_id', zombies', pending', packets', written', op')
  BY <1>2, <1>3
<1> QED
  BY <1>4, Carry DEF Owns, World

(* The first chunk that was not sent.                                       *)
LEMMA FirstUnsent ==
  ASSUME NEW l \in Seq(ChunkSet), Unsent(l) # {}, NEW i, i = NextUnsent(l)
  PROVE  /\ i \in 1..Len(l) /\ l[i].sent < 2 /\ l[i].sent # 2
         /\ \A j \in 1..Len(l) : j < i => l[j].sent = 2
<1>1. /\ Len(l) \in Nat /\ DOMAIN l = 1..Len(l)
      /\ \A j \in 1..Len(l) : l[j].sent \in {0, 1, 2}
  BY ChunkTyped
<1>2. Unsent(l) = {j \in 1..Len(l) : l[j].sent < 2}
  BY <1>1 DEF Unsent
<1>3. Unsent(l) \subseteq Nat
  BY <1>1, <1>2
<1>4. \E k \in Unsent(l) : \A j \in Unsent(l) : k <= j
  BY <1>3, HasLeast
<1>5. i \in Unsent(l) /\ \A j \in Unsent(l) : i <= j
  BY <1>4, Zenon DEF NextUnsent
<1>6. i \in 1..Len(l) /\ l[i].sent < 2
  BY <1>2, <1>5
<1>7. ASSUME NEW j \in 1..Len(l), j < i PROVE l[j].sent = 2
  <2>1. j \notin Unsent(l)
    BY <1>1, <1>5, <1>6, <1>7
  <2> QED
    BY <1>1, <1>2, <2>1
<1> QED
  BY <1>1, <1>6, <1>7

(* Marking chunk i of f as sent changes nothing else of the files.          *)
LEMMA SendFile ==
  ASSUME Shape, NEW f \in Handles, NEW i \in 1..Len(file[f].list), NEW v \in {1, 2},
         file' = [file EXCEPT ![f].list[i].sent = v]
  PROVE  /\ file' \in [Handles -> FileSet] /\ OtherFiles(f)
         /\ Marked(Lists, Lists', f, i, v)
         /\ \A g \in Handles :
              /\ file'[g].open = file[g].open /\ file'[g].offset = file[g].offset
              /\ file'[g].offset_sent = file[g].offset_sent /\ file'[g].acked = file[g].acked
              /\ file'[g].data = file[g].data /\ file'[g].eof = file[g].eof
              /\ file'[g].list \in Seq(ChunkSet)
<1> DEFINE l == file[f].list
           m == [l EXCEPT ![i].sent = v]
<1>1. /\ file \in [Handles -> FileSet] /\ file[f] \in FileSet
      /\ l \in Seq(ChunkSet) /\ Len(l) \in Nat /\ DOMAIN l = 1..Len(l)
  BY FileTyped, ChunkTyped DEF Shape
<1>2. file'[f] = [file[f] EXCEPT !.list = m] /\ OtherFiles(f)
  BY <1>1 DEF OtherFiles
<1>3. [l[i] EXCEPT !.sent = v] \in ChunkSet
  <2>1. l[i] \in ChunkSet
    BY <1>1
  <2> HIDE DEF l
  <2> QED
    BY <2>1 DEF ChunkSet
<1>4. m \in Seq(ChunkSet) /\ Len(m) = Len(l) /\ m[i] = [l[i] EXCEPT !.sent = v]
      /\ \A j \in 1..Len(l) : j # i => m[j] = l[j]
  <2> DEFINE c == [l[i] EXCEPT !.sent = v]
  <2>1. i \in 1..Len(l) /\ m = [l EXCEPT ![i] = c] /\ c \in ChunkSet
    BY <1>3
  <2> HIDE DEF l, m, c
  <2>2. m \in Seq(ChunkSet) /\ Len(m) = Len(l) /\ m[i] = c /\ \A j \in 1..Len(l) : j # i => m[j] = l[j]
    BY <1>1, <2>1
  <2> QED
    BY <2>2 DEF c
<1>5. /\ m[i].id = l[i].id /\ m[i].offset = l[i].offset /\ m[i].len = l[i].len
      /\ m[i].from = l[i].from /\ m[i].sent = v
  <2>1. l[i] \in ChunkSet
    BY <1>1
  <2> HIDE DEF l, m
  <2> QED
    BY <1>4, <2>1 DEF ChunkSet
<1> HIDE DEF m
<1>6. /\ file'[f].list = m /\ file'[f] \in FileSet
      /\ file'[f].open = file[f].open /\ file'[f].offset = file[f].offset
      /\ file'[f].offset_sent = file[f].offset_sent /\ file'[f].acked = file[f].acked
      /\ file'[f].data = file[f].data /\ file'[f].eof = file[f].eof
  BY <1>1, <1>2, <1>4 DEF FileSet
<1>7. file' \in [Handles -> FileSet]
  <2>1. \A g \in Handles : file'[g] \in FileSet
    BY <1>1, <1>2, <1>6 DEF OtherFiles
  <2>2. file' = [g \in Handles |-> file'[g]]
    BY <1>1
  <2> QED
    BY <2>1, <2>2
<1>8. \A g \in Handles : Lists[g] = file[g].list /\ Lists'[g] = file'[g].list
  BY DEF Lists
<1>9. Marked(Lists, Lists', f, i, v)
  <2>1. \A g \in Handles : g # f => Lists'[g] = Lists[g]
    BY <1>2, <1>8 DEF OtherFiles
  <2>2. Lists[f] = l /\ Lists'[f] = m
    BY <1>6, <1>8
  <2> HIDE DEF l
  <2>3. ASSUME NEW g \in Handles PROVE Len(Lists'[g]) = Len(Lists[g])
    <3>1. CASE g = f
      BY <1>4, <2>2, <3>1, Zenon
    <3>2. CASE g # f
      BY <2>1, <3>2, Zenon
    <3> QED
      BY <3>1, <3>2
  <2>4. ASSUME NEW g \in Handles, NEW j \in 1..Len(Lists[g]), g # f \/ j # i
        PROVE  Lists'[g][j] = Lists[g][j]
    <3>1. CASE g = f
      BY <1>4, <2>2, <2>4, <3>1
    <3> QED
      BY <2>1, <3>1
  <2> QED
    BY <1>5, <2>2, <2>3, <2>4 DEF Marked
<1>10. \A g \in Handles : file'[g].list \in Seq(ChunkSet)
  BY <1>7 DEF FileSet
<1> QED
  BY <1>2, <1>6, <1>7, <1>9, <1>10 DEF OtherFiles

(* Sending, when what is half sent is the same request: as if nothing were. *)
Goes(r, rest, rc) ==
  \/ /\ rc = "all" /\ half' = 0
     /\ pending' = pending \/ pending' = pending \cup {r}
     /\ half = 0 /\ ~garbled => pending' = pending \cup {r} /\ ~garbled'
  \/ rc = "EAGAIN" /\ UNCHANGED <<half, garbled, pending>>
  \/ rc = "part" /\ mood = "tight" /\ pending' = pending

LEMMA SendOwns ==
  ASSUME Shape, Owns, World, NEW f \in Handles, NEW i \in 1..Len(file[f].list), NEW v \in {1, 2},
         file' = [file EXCEPT ![f].list[i].sent = v],
         file[f].list[i].sent # 2, NEW rest, NEW rc, (rc = "all" /\ v = 2) \/ (rc = "part" /\ v = 1),
         Goes(Request(Doing, f, file[f].list[i]), rest, rc),
         UNCHANGED <<request_id, zombies, packets, written, op>>
  PROVE  Owns' /\ \A r \in pending' : r \in RequestSet
<1> DEFINE q == Request(Doing, f, file[f].list[i])
<1>1. Marked(Lists, Lists', f, i, v)
  BY SendFile
<1>2. file[f].list[i] \in ChunkSet /\ file[f].list = Lists[f]
  BY ListsTyped
<1>3. q \in RequestSet
  <2>1. Doing \in AllScenes
    BY DEF Doing, AllScenes
  <2> QED
    BY <1>2, <2>1 DEF Request, RequestSet, ChunkSet
<1>4. pending' = pending \/ (v = 2 /\ pending' = pending \cup {q})
  <2> HIDE DEF q
  <2>1. Goes(q, rest, rc)
    BY DEF q
  <2> QED
    BY <2>1 DEF Goes
<1>5. OpKind # Doing
  BY OpKinds DEF Shape
<1>6. Owned(Lists', request_id, zombies, pending', packets, written, op)
  <2>1. q = Request(Doing, f, Lists[f][i]) /\ Lists[f][i].sent # 2 /\ i \in 1..Len(Lists[f])
    BY <1>2
  <2> HIDE DEF q
  <2>2. pending' = pending \/ (v = 2 /\ pending' = pending \cup {Request(Doing, f, Lists[f][i])})
    BY <1>4, <2>1
  <2> QED
    BY <1>1, <1>5, <2>1, <2>2, Mark DEF Owns
<1>7. Owned(Lists', request_id', zombies', pending', packets', written', op')
  BY <1>6
<1>8. Owns'
  BY <1>7, Carry DEF Owns, World
<1> HIDE DEF q
<1>9. \A r \in pending' : r \in RequestSet
  BY <1>3, <1>4 DEF Shape
<1> QED
  BY <1>8, <1>9

LEMMA ReceiveOwns ==
  ASSUME Shape, Owns, World, PacketRead, UNCHANGED <<file, request_id, op>>
  PROVE  Owns' /\ \A r \in pending' : r \in RequestSet
<1>1. PICK r \in pending : Serve(r)
  BY DEF PacketRead
<1>2. r \in RequestSet
  BY DEF Shape
<1>3. r.len \in Nat /\ r.offset \in Int
  BY <1>2 DEF RequestSet
<1>4. \E p : Came(r, p)
  BY <1>1, <1>3, CameRead, CameWrite, CameOther DEF Serve
<1>5. \A s \in pending' : \/ s \in pending
                          \/ s.id = r.id /\ s.kind = r.kind /\ r.kind # Doing /\ s \in RequestSet
  <2>1. CASE pending' = pending \ {r}
    BY <2>1
  <2>2. CASE ServeTwice(r)
    <3> DEFINE t == [r EXCEPT !.offset = 1]
    <3>1. r.kind = "open" /\ pending' = (pending \ {r}) \cup {t}
      BY <2>2 DEF ServeTwice
    <3>2. t.id = r.id /\ t.kind = r.kind /\ t \in RequestSet
      BY <1>2 DEF RequestSet
    <3>3. r.kind # Doing
      BY <3>1 DEF Doing
    <3> HIDE DEF t
    <3> QED
      BY <3>1, <3>2, <3>3
  <2> QED
    BY <1>1, <2>1, <2>2 DEF Serve
<1>6. Owned(Lists, request_id, zombies', pending', packets', written', op)
  <2>1. PICK p : Came(r, p)
    BY <1>4
  <2> QED
    BY <1>5, <2>1, Got DEF Owns, World
<1>7. Lists' = Lists
  BY DEF Lists
<1>8. Owned(Lists', request_id', zombies', pending', packets', written', op')
  BY <1>6, <1>7
<1>9. Owns'
  BY <1>8, Carry DEF Owns, World
<1> QED
  BY <1>5, <1>9 DEF Shape

-----------------------------------------------------------------------------
(* How a step changes a file.                                               *)

Becomes(f, open, offset, offset_sent, acked, data, eof, list) ==
  /\ file' \in [Handles -> FileSet] /\ OtherFiles(f)
  /\ file'[f].open = open /\ file'[f].offset = offset /\ file'[f].offset_sent = offset_sent
  /\ file'[f].acked = acked /\ file'[f].data = data /\ file'[f].eof = eof /\ file'[f].list = list

LEMMA PutFile ==
  ASSUME file \in [Handles -> FileSet], NEW f \in Handles, NEW y \in FileSet,
         file' = [file EXCEPT ![f] = y]
  PROVE  file' \in [Handles -> FileSet] /\ OtherFiles(f) /\ file'[f] = y
<1>1. file' \in [Handles -> FileSet]
  OBVIOUS
<1> QED
  BY <1>1 DEF OtherFiles

(* New chunks.                                                              *)
LEMMA BuildFile ==
  ASSUME file \in [Handles -> FileSet], NEW f \in Handles, NEW new \in Seq(ChunkSet), NEW n \in Int,
         file' = [file EXCEPT ![f].list = @ \o new, ![f].offset_sent = @ + n]
  PROVE  Becomes(f, file[f].open, file[f].offset, file[f].offset_sent + n, file[f].acked,
                 file[f].data, file[f].eof, file[f].list \o new)
<1> DEFINE x == file[f]
           v1 == x.list \o new
           v2 == x.offset_sent + n
           y == [x EXCEPT !.list = v1, !.offset_sent = v2]
<1>1. x \in FileSet /\ file' = [file EXCEPT ![f] = y]
  OBVIOUS
<1>2. x.offset \in Int /\ x.offset_sent \in Int /\ x.list \in Seq(ChunkSet) /\ x.eof \in BOOLEAN
  BY FileTyped
<1>3. x.list \o new \in Seq(ChunkSet)
  BY <1>2, JoinOf
<1>4. v1 \in Seq(ChunkSet) /\ v2 \in Int
  BY <1>2, <1>3
<1> HIDE DEF x, v1, v2
<1>5. /\ y \in FileSet /\ y.open = x.open /\ y.offset = x.offset /\ y.offset_sent = v2
      /\ y.acked = x.acked /\ y.data = x.data /\ y.eof = x.eof /\ y.list = v1
  BY <1>1, <1>4 DEF FileSet
<1> HIDE DEF y
<1>6. file' \in [Handles -> FileSet] /\ OtherFiles(f) /\ file'[f] = y
  BY <1>1, <1>5, PutFile
<1> QED
  BY <1>5, <1>6 DEF Becomes, x, v1, v2

(* Data kept from an earlier answer is handed out.                          *)
LEMMA LeftFile ==
  ASSUME file \in [Handles -> FileSet], NEW f \in Handles, NEW d \in Seq(Handles \X Int), NEW n \in Int,
         file' = [file EXCEPT ![f].data = d, ![f].offset = @ + n]
  PROVE  Becomes(f, file[f].open, file[f].offset + n, file[f].offset_sent, file[f].acked, d,
                 file[f].eof, file[f].list)
<1> DEFINE x == file[f]
           v1 == d
           v2 == x.offset + n
           y == [x EXCEPT !.data = v1, !.offset = v2]
<1>1. x \in FileSet /\ file' = [file EXCEPT ![f] = y]
  OBVIOUS
<1>2. x.offset \in Int /\ x.offset_sent \in Int /\ x.list \in Seq(ChunkSet) /\ x.eof \in BOOLEAN
  BY FileTyped
<1>4. v1 \in Seq(Handles \X Int) /\ v2 \in Int
  BY <1>2
<1> HIDE DEF x, v1, v2
<1>5. /\ y \in FileSet /\ y.open = x.open /\ y.offset = v2 /\ y.offset_sent = x.offset_sent
      /\ y.acked = x.acked /\ y.data = v1 /\ y.eof = x.eof /\ y.list = x.list
  BY <1>1, <1>4 DEF FileSet
<1> HIDE DEF y
<1>6. file' \in [Handles -> FileSet] /\ OtherFiles(f) /\ file'[f] = y
  BY <1>1, <1>5, PutFile
<1> QED
  BY <1>5, <1>6 DEF Becomes, x, v1, v2

(* An answer with data.                                                     *)
LEMMA DataFile ==
  ASSUME file \in [Handles -> FileSet], NEW f \in Handles, NEW d \in Seq(Handles \X Int),
         NEW n \in Int, NEW m \in Int, file[f].list # <<>>,
         file' = [file EXCEPT ![f].offset_sent = @ - m, ![f].offset = @ + n, ![f].list = Tail(@),
                              ![f].data = d]
  PROVE  Becomes(f, file[f].open, file[f].offset + n, file[f].offset_sent - m, file[f].acked, d,
                 file[f].eof, Tail(file[f].list))
<1> DEFINE x == file[f]
           v1 == x.offset_sent - m
           v2 == x.offset + n
           v3 == Tail(x.list)
           v4 == d
           y == [x EXCEPT !.offset_sent = v1, !.offset = v2, !.list = v3, !.data = v4]
<1>1. x \in FileSet /\ file' = [file EXCEPT ![f] = y]
  OBVIOUS
<1>2. x.offset \in Int /\ x.offset_sent \in Int /\ x.list \in Seq(ChunkSet) /\ x.eof \in BOOLEAN
  BY FileTyped
<1>3. Tail(x.list) \in Seq(ChunkSet)
  BY <1>2, TailOf DEF x
<1>4. v1 \in Int /\ v2 \in Int /\ v3 \in Seq(ChunkSet) /\ v4 \in Seq(Handles \X Int)
  BY <1>2, <1>3
<1> HIDE DEF x, v1, v2, v3, v4
<1>5. /\ y \in FileSet /\ y.open = x.open /\ y.offset = v2 /\ y.offset_sent = v1
      /\ y.acked = x.acked /\ y.data = v4 /\ y.eof = x.eof /\ y.list = v3
  BY <1>1, <1>4 DEF FileSet
<1> HIDE DEF y
<1>6. file' \in [Handles -> FileSet] /\ OtherFiles(f) /\ file'[f] = y
  BY <1>1, <1>5, PutFile
<1> QED
  BY <1>5, <1>6 DEF Becomes, x, v1, v2, v3, v4

(* An answer that ends reading.                                             *)
LEMMA StatusFile ==
  ASSUME file \in [Handles -> FileSet], NEW f \in Handles, NEW e \in BOOLEAN,
         file' = [file EXCEPT ![f].list = <<>>, ![f].eof = @ \/ e]
  PROVE  Becomes(f, file[f].open, file[f].offset, file[f].offset_sent, file[f].acked, file[f].data,
                 (file[f].eof \/ e), <<>>)
<1> DEFINE x == file[f]
           v1 == <<>>
           v2 == (x.eof \/ e)
           y == [x EXCEPT !.list = v1, !.eof = v2]
<1>1. x \in FileSet /\ file' = [file EXCEPT ![f] = y]
  OBVIOUS
<1>2. x.offset \in Int /\ x.offset_sent \in Int /\ x.list \in Seq(ChunkSet) /\ x.eof \in BOOLEAN
  BY FileTyped
<1>4. v1 \in Seq(ChunkSet) /\ v2 \in BOOLEAN
  BY <1>2
<1> HIDE DEF x, v1, v2
<1>5. /\ y \in FileSet /\ y.open = x.open /\ y.offset = x.offset /\ y.offset_sent = x.offset_sent
      /\ y.acked = x.acked /\ y.data = x.data /\ y.eof = v2 /\ y.list = v1
  BY <1>1, <1>4 DEF FileSet
<1> HIDE DEF y
<1>6. file' \in [Handles -> FileSet] /\ OtherFiles(f) /\ file'[f] = y
  BY <1>1, <1>5, PutFile
<1> QED
  BY <1>5, <1>6 DEF Becomes, x, v1, v2

(* Writing is acknowledged.                                                 *)
LEMMA ReportFile ==
  ASSUME file \in [Handles -> FileSet], NEW f \in Handles, NEW a \in Nat, NEW o \in Int,
         NEW l \in Seq(ChunkSet),
         file' = [file EXCEPT ![f].acked = a, ![f].list = l, ![f].offset = o]
  PROVE  Becomes(f, file[f].open, o, file[f].offset_sent, a, file[f].data, file[f].eof, l)
<1> DEFINE x == file[f]
           v1 == a
           v2 == l
           v3 == o
           y == [x EXCEPT !.acked = v1, !.list = v2, !.offset = v3]
<1>1. x \in FileSet /\ file' = [file EXCEPT ![f] = y]
  OBVIOUS
<1>2. x.offset \in Int /\ x.offset_sent \in Int /\ x.list \in Seq(ChunkSet) /\ x.eof \in BOOLEAN
  BY FileTyped
<1>4. v1 \in Nat /\ v2 \in Seq(ChunkSet) /\ v3 \in Int
  BY <1>2
<1> HIDE DEF x, v1, v2, v3
<1>5. /\ y \in FileSet /\ y.open = x.open /\ y.offset = v3 /\ y.offset_sent = x.offset_sent
      /\ y.acked = v1 /\ y.data = x.data /\ y.eof = x.eof /\ y.list = v2
  BY <1>1, <1>4 DEF FileSet
<1> HIDE DEF y
<1>6. file' \in [Handles -> FileSet] /\ OtherFiles(f) /\ file'[f] = y
  BY <1>1, <1>5, PutFile
<1> QED
  BY <1>5, <1>6 DEF Becomes, x, v1, v2, v3

(* Writing is refused.                                                      *)
LEMMA FailFile ==
  ASSUME file \in [Handles -> FileSet], NEW f \in Handles, NEW o \in Int,
         file' = [file EXCEPT ![f].list = <<>>, ![f].offset = o, ![f].offset_sent = o, ![f].acked = 0]
  PROVE  Becomes(f, file[f].open, o, o, 0, file[f].data, file[f].eof, <<>>)
<1> DEFINE x == file[f]
           v1 == <<>>
           v2 == o
           v3 == o
           v4 == 0
           y == [x EXCEPT !.list = v1, !.offset = v2, !.offset_sent = v3, !.acked = v4]
<1>1. x \in FileSet /\ file' = [file EXCEPT ![f] = y]
  OBVIOUS
<1>2. x.offset \in Int /\ x.offset_sent \in Int /\ x.list \in Seq(ChunkSet) /\ x.eof \in BOOLEAN
  BY FileTyped
<1>4. v1 \in Seq(ChunkSet) /\ v2 \in Int /\ v3 \in Int /\ v4 \in Nat
  BY <1>2
<1> HIDE DEF x, v1, v2, v3, v4
<1>5. /\ y \in FileSet /\ y.open = x.open /\ y.offset = v2 /\ y.offset_sent = v3
      /\ y.acked = v4 /\ y.data = x.data /\ y.eof = x.eof /\ y.list = v1
  BY <1>1, <1>4 DEF FileSet
<1> HIDE DEF y
<1>6. file' \in [Handles -> FileSet] /\ OtherFiles(f) /\ file'[f] = y
  BY <1>1, <1>5, PutFile
<1> QED
  BY <1>5, <1>6 DEF Becomes, x, v1, v2, v3, v4

(* The position is set.                                                     *)
LEMMA SeekFile ==
  ASSUME file \in [Handles -> FileSet], NEW f \in Handles, NEW o \in Int,
         file' = [file EXCEPT ![f].offset = o, ![f].offset_sent = o, ![f].list = <<>>,
                              ![f].data = <<>>, ![f].eof = FALSE]
  PROVE  Becomes(f, file[f].open, o, o, file[f].acked, <<>>, FALSE, <<>>)
<1> DEFINE x == file[f]
           v1 == o
           v2 == o
           v3 == <<>>
           v4 == <<>>
           v5 == FALSE
           y == [x EXCEPT !.offset = v1, !.offset_sent = v2, !.list = v3, !.data = v4, !.eof = v5]
<1>1. x \in FileSet /\ file' = [file EXCEPT ![f] = y]
  OBVIOUS
<1>2. x.offset \in Int /\ x.offset_sent \in Int /\ x.list \in Seq(ChunkSet) /\ x.eof \in BOOLEAN
  BY FileTyped
<1>4. v1 \in Int /\ v2 \in Int /\ v3 \in Seq(ChunkSet) /\ v4 \in Seq(Handles \X Int) /\ v5 \in BOOLEAN
  BY <1>2
<1> HIDE DEF x, v1, v2, v3, v4, v5
<1>5. /\ y \in FileSet /\ y.open = x.open /\ y.offset = v1 /\ y.offset_sent = v2
      /\ y.acked = x.acked /\ y.data = v4 /\ y.eof = v5 /\ y.list = v3
  BY <1>1, <1>4 DEF FileSet
<1> HIDE DEF y
<1>6. file' \in [Handles -> FileSet] /\ OtherFiles(f) /\ file'[f] = y
  BY <1>1, <1>5, PutFile
<1> QED
  BY <1>5, <1>6 DEF Becomes, x, v1, v2, v3, v4, v5

(* The handle is closed.                                                    *)
LEMMA DropFile ==
  ASSUME file \in [Handles -> FileSet], NEW f \in Handles,
         file' = [file EXCEPT ![f].open = FALSE, ![f].list = <<>>, ![f].data = <<>>]
  PROVE  Becomes(f, FALSE, file[f].offset, file[f].offset_sent, file[f].acked, <<>>, file[f].eof, <<>>)
<1> DEFINE x == file[f]
           v1 == FALSE
           v2 == <<>>
           v3 == <<>>
           y == [x EXCEPT !.open = v1, !.list = v2, !.data = v3]
<1>1. x \in FileSet /\ file' = [file EXCEPT ![f] = y]
  OBVIOUS
<1>2. x.offset \in Int /\ x.offset_sent \in Int /\ x.list \in Seq(ChunkSet) /\ x.eof \in BOOLEAN
  BY FileTyped
<1>4. v1 \in BOOLEAN /\ v2 \in Seq(ChunkSet) /\ v3 \in Seq(Handles \X Int)
  BY <1>2
<1> HIDE DEF x, v1, v2, v3
<1>5. /\ y \in FileSet /\ y.open = v1 /\ y.offset = x.offset /\ y.offset_sent = x.offset_sent
      /\ y.acked = x.acked /\ y.data = v3 /\ y.eof = x.eof /\ y.list = v2
  BY <1>1, <1>4 DEF FileSet
<1> HIDE DEF y
<1>6. file' \in [Handles -> FileSet] /\ OtherFiles(f) /\ file'[f] = y
  BY <1>1, <1>5, PutFile
<1> QED
  BY <1>5, <1>6 DEF Becomes, x, v1, v2, v3

LEMMA Cut ==
  ASSUME NEW d \in Seq(Handles \X Int), NEW n \in 0..Len(d)
  PROVE  /\ SubSeq(d, 1, n) \in Seq(Handles \X Int) /\ Len(SubSeq(d, 1, n)) = n
         /\ SubSeq(d, n + 1, Len(d)) \in Seq(Handles \X Int)
         /\ Len(SubSeq(d, n + 1, Len(d))) = Len(d) - n
         /\ \A i \in 1..n : SubSeq(d, 1, n)[i] = d[i]
         /\ \A i \in 1..(Len(d) - n) : SubSeq(d, n + 1, Len(d))[i] = d[n + i]
<1>1. Len(d) \in Nat /\ n \in Nat /\ \A i \in 1..Len(d) : d[i] \in Handles \X Int
  OBVIOUS
<1>2. /\ SubSeq(d, 1, n) \in Seq(Handles \X Int)
      /\ Len(SubSeq(d, 1, n)) = IF 1 <= n THEN n - 1 + 1 ELSE 0
      /\ \A i \in 1..(n - 1 + 1) : SubSeq(d, 1, n)[i] = d[1 + i - 1]
  <2>1. \A i \in 1..n : d[i] \in Handles \X Int
    BY <1>1
  <2> QED
    BY <1>1, <2>1, SubSeqProperties
<1>3. /\ SubSeq(d, n + 1, Len(d)) \in Seq(Handles \X Int)
      /\ Len(SubSeq(d, n + 1, Len(d))) = IF n + 1 <= Len(d) THEN Len(d) - (n + 1) + 1 ELSE 0
      /\ \A i \in 1..(Len(d) - (n + 1) + 1) : SubSeq(d, n + 1, Len(d))[i] = d[n + 1 + i - 1]
  <2>1. \A i \in (n + 1)..Len(d) : d[i] \in Handles \X Int
    BY <1>1
  <2>2. n + 1 \in Int /\ Len(d) \in Int
    BY <1>1
  <2> QED
    BY <2>1, <2>2, SubSeqProperties
<1> QED
  BY <1>1, <1>2, <1>3

LEMMA SameBytes ==
  ASSUME NEW d \in Seq(Handles \X Int), NEW f \in Handles, NEW o \in Int,
         \A i \in 1..Len(d) : d[i] = <<f, o + i - 1>>
  PROVE  d = Bytes(f, o, Len(d))
<1>1. Len(d) \in Nat /\ DOMAIN d = 1..Len(d) /\ d = [i \in 1..Len(d) |-> d[i]]
  OBVIOUS
<1> QED
  BY <1>1 DEF Bytes

LEMMA BytesCut ==
  ASSUME NEW f \in Handles, NEW o \in Int, NEW d \in Seq(Handles \X Int), d = Bytes(f, o, Len(d)),
         NEW n \in 0..Len(d)
  PROVE  /\ SubSeq(d, 1, n) = Bytes(f, o, n)
         /\ SubSeq(d, n + 1, Len(d)) = Bytes(f, o + n, Len(d) - n)
<1>1. Len(d) \in Nat /\ n \in Nat /\ \A i \in 1..Len(d) : d[i] = <<f, o + i - 1>>
  BY BytesAre
<1>2. /\ SubSeq(d, 1, n) \in Seq(Handles \X Int) /\ Len(SubSeq(d, 1, n)) = n
      /\ \A i \in 1..n : SubSeq(d, 1, n)[i] = <<f, o + i - 1>>
  BY <1>1, Cut
<1>3. /\ SubSeq(d, n + 1, Len(d)) \in Seq(Handles \X Int)
      /\ Len(SubSeq(d, n + 1, Len(d))) = Len(d) - n
      /\ \A i \in 1..(Len(d) - n) : SubSeq(d, n + 1, Len(d))[i] = <<f, (o + n) + i - 1>>
  <2>1. ASSUME NEW i \in 1..(Len(d) - n) PROVE SubSeq(d, n + 1, Len(d))[i] = <<f, (o + n) + i - 1>>
    <3>1. SubSeq(d, n + 1, Len(d))[i] = d[n + i] /\ n + i \in 1..Len(d)
      BY <1>1, Cut
    <3>2. d[n + i] = <<f, o + (n + i) - 1>> /\ o + (n + i) - 1 = (o + n) + i - 1
      BY <1>1, <3>1
    <3> QED
      BY <3>1, <3>2
  <2> QED
    BY <2>1, Cut
<1>4. o + n \in Int
  BY <1>1
<1> DEFINE a == SubSeq(d, 1, n)
           b == SubSeq(d, n + 1, Len(d))
<1>5. a = Bytes(f, o, Len(a)) /\ b = Bytes(f, o + n, Len(b))
  <2> HIDE DEF a, b
  <2>1. a \in Seq(Handles \X Int) /\ \A i \in 1..Len(a) : a[i] = <<f, o + i - 1>>
    BY <1>2 DEF a
  <2>2. b \in Seq(Handles \X Int) /\ \A i \in 1..Len(b) : b[i] = <<f, (o + n) + i - 1>>
    BY <1>3 DEF b
  <2>3. a = Bytes(f, o, Len(a))
    BY <2>1, SameBytes
  <2>4. b = Bytes(f, o + n, Len(b))
    BY <1>4, <2>2, SameBytes
  <2> QED
    BY <2>3, <2>4
<1> QED
  BY <1>2, <1>3, <1>5

LEMMA BytesJoin ==
  ASSUME NEW f \in Handles, NEW o \in Int, NEW m \in Nat, NEW n \in Nat
  PROVE  Bytes(f, o, m) \o Bytes(f, o + m, n) = Bytes(f, o, m + n)
<1> DEFINE a == Bytes(f, o, m)
           b == Bytes(f, o + m, n)
           c == a \o b
<1>1. /\ a \in Seq(Handles \X Int) /\ Len(a) = m /\ \A i \in 1..m : a[i] = <<f, o + i - 1>>
  BY BytesAre
<1>2. /\ b \in Seq(Handles \X Int) /\ Len(b) = n /\ \A i \in 1..n : b[i] = <<f, (o + m) + i - 1>>
  <2>1. o + m \in Int
    OBVIOUS
  <2> QED
    BY <2>1, BytesAre
<1> HIDE DEF a, b
<1>3. /\ c \in Seq(Handles \X Int) /\ Len(c) = m + n
      /\ \A i \in 1..(m + n) : c[i] = IF i <= m THEN a[i] ELSE b[i - m]
  BY <1>1, <1>2, ConcatProperties
<1> HIDE DEF c
<1>4. ASSUME NEW i \in 1..(m + n) PROVE c[i] = <<f, o + i - 1>>
  <2>1. CASE i <= m
    BY <1>1, <1>3, <2>1
  <2>2. CASE i > m
    <3>1. i - m \in 1..n /\ c[i] = b[i - m] /\ (o + m) + (i - m) - 1 = o + i - 1
      BY <1>3, <2>2
    <3>2. b[i - m] = <<f, (o + m) + (i - m) - 1>>
      BY <1>2, <3>1
    <3> QED
      BY <3>1, <3>2
  <2> QED
    BY <2>1, <2>2
<1>5. c = Bytes(f, o, Len(c))
  <2>1. \A i \in 1..Len(c) : c[i] = <<f, o + i - 1>>
    BY <1>3, <1>4
  <2> QED
    BY <1>3, <2>1, SameBytes
<1> QED
  BY <1>3, <1>5 DEF a, b, c

-----------------------------------------------------------------------------
(* The steps, one case for each way they end.                               *)

F(f) == file[f]

RLeft(f, b, n) ==
  /\ read_state = "idle" /\ n \in 1..Len(F(f).data) /\ n <= b
  /\ buf' = SubSeq(F(f).data, 1, n)
  /\ Becomes(f, F(f).open, F(f).offset + n, F(f).offset_sent, F(f).acked,
             SubSeq(F(f).data, n + 1, Len(F(f).data)), F(f).eof, F(f).list)
  /\ pc' = "rreturn" /\ request_id' = request_id

RBuild(f, b, new) ==
  /\ read_state = "idle" /\ F(f).data = <<>> /\ ~F(f).eof
  /\ Built(new, F(f).offset_sent) /\ (new = <<>> => F(f).offset_sent - F(f).offset >= 4 * b)
  /\ Becomes(f, F(f).open, F(f).offset, F(f).offset_sent + Total(new), F(f).acked, F(f).data, F(f).eof,
             F(f).list \o new)
  /\ buf' = <<>> /\ pc' = "rsend" /\ request_id' = request_id + Len(new)

RResume ==
  /\ \/ read_state = "sent" /\ pc' = "rsend"
     \/ read_state = "sent2" /\ pc' = "rrecv"
  /\ buf' = <<>> /\ file' = file /\ request_id' = request_id

LEMMA CallReadCases ==
  ASSUME Shape, NEW f \in Handles, NEW b \in Nat \ {0}, CallRead(f, b)
  PROVE  (\E n : RLeft(f, b, n)) \/ (\E new : RBuild(f, b, new)) \/ RResume
<1>0. /\ file \in [Handles -> FileSet] /\ request_id \in Nat \ {0}
      /\ F(f).data \in Seq(Handles \X Int) /\ F(f).list \in Seq(ChunkSet)
  BY FileTyped DEF Shape, F
<1>1. CASE read_state = "idle" /\ ReadLeft(f, b)
  <2> DEFINE d == file[f].data
             n == Min2(b, Len(d))
  <2>1. d \in Seq(Handles \X Int) /\ d # <<>> /\ Len(d) \in Nat /\ Len(d) # 0
    BY <1>0, <1>1 DEF ReadLeft, F
  <2>2. n \in 1..Len(d) /\ n <= b /\ n \in Int /\ n \in 0..Len(d)
    <3> HIDE DEF d
    <3> QED
      BY <2>1 DEF Min2
  <2>3. file' = [file EXCEPT ![f].data = SubSeq(d, n + 1, Len(d)), ![f].offset = @ + n]
    BY <1>1, Zenon DEF ReadLeft
  <2>4. buf' = SubSeq(d, 1, n) /\ pc' = "rreturn" /\ request_id' = request_id
    BY <1>1 DEF ReadLeft
  <2>5. SubSeq(d, n + 1, Len(d)) \in Seq(Handles \X Int)
    <3> HIDE DEF d, n
    <3> QED
      BY <2>1, <2>2, Cut
  <2>6. Becomes(f, F(f).open, F(f).offset + n, F(f).offset_sent, F(f).acked,
                SubSeq(d, n + 1, Len(d)), F(f).eof, F(f).list)
    <3> DEFINE e == SubSeq(d, n + 1, Len(d))
    <3> HIDE DEF n, e
    <3>1. file' = [file EXCEPT ![f].data = e, ![f].offset = @ + n] /\ e \in Seq(Handles \X Int)
      BY <2>3, <2>5 DEF e
    <3>2. Becomes(f, F(f).open, F(f).offset + n, F(f).offset_sent, F(f).acked, e, F(f).eof, F(f).list)
      BY <1>0, <2>2, <3>1, LeftFile DEF F
    <3> QED
      BY <3>2 DEF e
  <2> HIDE DEF n
  <2>7. RLeft(f, b, n)
    BY <1>1, <2>2, <2>4, <2>6 DEF RLeft, F
  <2> QED
    BY <2>7
<1>2. CASE read_state = "idle" /\ ReadBuild(f, b)
  <2> DEFINE new == ReadChunks(f, b)
  <2>1. Built(new, F(f).offset_sent) /\ (new = <<>> => F(f).offset_sent - F(f).offset >= 4 * b)
    BY <1>0, ReadBuilt DEF F
  <2>2. /\ F(f).data = <<>> /\ ~F(f).eof /\ buf' = <<>> /\ pc' = "rsend"
        /\ request_id' = request_id + Len(new)
    BY <1>2 DEF ReadBuild, F
  <2>3. file' = [file EXCEPT ![f].list = @ \o new, ![f].offset_sent = @ + Total(new)]
    BY <1>2, Zenon DEF ReadBuild
  <2> HIDE DEF new
  <2>4. new \in Seq(ChunkSet) /\ Total(new) \in Int
    BY <2>1, TotalNat DEF Built
  <2>5. Becomes(f, F(f).open, F(f).offset, F(f).offset_sent + Total(new), F(f).acked, F(f).data, F(f).eof,
                F(f).list \o new)
    <3> DEFINE n == Total(new)
    <3> HIDE DEF n
    <3>1. n \in Int /\ file' = [file EXCEPT ![f].list = @ \o new, ![f].offset_sent = @ + n]
      BY <2>3, <2>4 DEF n
    <3>2. Becomes(f, F(f).open, F(f).offset, F(f).offset_sent + n, F(f).acked, F(f).data, F(f).eof,
                  F(f).list \o new)
      BY <1>0, <2>4, <3>1, BuildFile DEF F
    <3> QED
      BY <3>2 DEF n
  <2>6. RBuild(f, b, new)
    BY <1>2, <2>1, <2>2, <2>5 DEF RBuild
  <2> QED
    BY <2>6
<1>3. CASE \/ read_state = "sent" /\ pc' = "rsend" /\ buf' = <<>> /\ UNCHANGED <<file, request_id>>
           \/ read_state = "sent2" /\ pc' = "rrecv" /\ buf' = <<>> /\ UNCHANGED <<file, request_id>>
  BY <1>3 DEF RResume
<1> QED
  BY <1>1, <1>2, <1>3 DEF CallRead

WBuild(f, n, new) ==
  /\ write_state = "idle" /\ Built(new, F(f).offset_sent)
  /\ \A i \in 1..Len(new) : new[i].from - new[i].offset = pos[f] + F(f).acked - F(f).offset
  /\ Becomes(f, F(f).open, F(f).offset, F(f).offset_sent + Total(new), F(f).acked, F(f).data, F(f).eof,
             F(f).list \o new)
  /\ pc' = "wsend" /\ request_id' = request_id + Len(new)

WResume == write_state = "sent" /\ pc' = "wack" /\ file' = file /\ request_id' = request_id

LEMMA CallWriteCases ==
  ASSUME Shape, NEW f \in Handles, NEW b \in Nat, CallWrite(f, b)
  PROVE  (\E new : WBuild(f, b, new)) \/ WResume
<1>0. /\ file \in [Handles -> FileSet] /\ request_id \in Nat \ {0} /\ pos[f] \in Int
  BY DEF Shape
<1> DEFINE new == WriteChunks(f, b)
<1>2. CASE /\ write_state = "idle" /\ request_id' = request_id + Len(new)
           /\ file' = [file EXCEPT ![f].list = @ \o new, ![f].offset_sent = @ + Total(new)]
           /\ pc' = "wsend"
  <2>1. /\ Built(new, F(f).offset_sent)
        /\ \A i \in 1..Len(new) : new[i].from - new[i].offset = pos[f] + F(f).acked - F(f).offset
    BY <1>0, WriteBuilt DEF F
  <2> HIDE DEF new
  <2>4. new \in Seq(ChunkSet) /\ Total(new) \in Int
    BY <2>1, TotalNat DEF Built
  <2>5. Becomes(f, F(f).open, F(f).offset, F(f).offset_sent + Total(new), F(f).acked, F(f).data, F(f).eof,
                F(f).list \o new)
    <3> DEFINE n == Total(new)
    <3> HIDE DEF n
    <3>1. n \in Int /\ file' = [file EXCEPT ![f].list = @ \o new, ![f].offset_sent = @ + n]
      BY <1>2, <2>4 DEF n
    <3>2. Becomes(f, F(f).open, F(f).offset, F(f).offset_sent + n, F(f).acked, F(f).data, F(f).eof,
                  F(f).list \o new)
      BY <1>0, <2>4, <3>1, BuildFile DEF F
    <3> QED
      BY <3>2 DEF n
  <2>6. WBuild(f, b, new)
    BY <1>2, <2>1, <2>5 DEF WBuild
  <2> QED
    BY <2>6
<1>3. CASE write_state = "sent" /\ pc' = "wack" /\ UNCHANGED <<request_id, file>>
  BY <1>3 DEF WResume
<1>4. \/ /\ write_state = "idle" /\ request_id' = request_id + Len(new)
         /\ file' = [file EXCEPT ![f].list = @ \o new, ![f].offset_sent = @ + Total(new)]
         /\ pc' = "wsend"
      \/ write_state = "sent" /\ pc' = "wack" /\ UNCHANGED <<request_id, file>>
  BY Zenon DEF CallWrite
<1> QED
  BY <1>2, <1>3, <1>4

(* What the first chunk of a list is answered.                              *)
LEMMA Answered ==
  ASSUME Shape, Owns, NEW f \in Handles, NEW c, F(f).list # <<>>, c = F(f).list[1],
         NEW p \in packets, p.id = c.id
  PROVE  Fits(p, Request(Doing, f, c), written) /\ c.sent = 2
<1>1. Lists[f] = F(f).list /\ F(f).list \in Seq(ChunkSet)
  BY ListsTyped DEF F
<1>2. 1 \in 1..Len(Lists[f]) /\ c = Lists[f][1]
  BY <1>1, TailOf
<1> QED
  BY <1>2 DEF Owns, Owned, Matched

LEMMA FirstTyped ==
  ASSUME Shape, NEW f \in Handles, NEW c, F(f).list # <<>>, c = F(f).list[1]
  PROVE  /\ c \in ChunkSet /\ c.offset \in Int /\ c.len \in Nat /\ c.len > 0 /\ c.from \in Int
         /\ c.id \in Nat /\ F(f).list \in Seq(ChunkSet) /\ 1 \in 1..Len(F(f).list)
<1>1. F(f).list \in Seq(ChunkSet)
  BY FileTyped DEF F, Shape
<1>2. 1 \in 1..Len(F(f).list)
  BY <1>1, TailOf
<1> QED
  BY <1>1, <1>2, ChunkTyped

LEMMA AnswerRead ==
  ASSUME Shape, Owns, scene # "write", NEW f \in Handles, NEW c, F(f).list # <<>>, c = F(f).list[1],
         NEW p \in packets, p.id = c.id
  PROVE  /\ p.type \in {"DATA", "STATUS"}
         /\ p.type = "DATA" => ~p.short /\ (mood # "odd" => p.code # "BAD")
         /\ p.type = "DATA" /\ p.code # "BAD" =>
              /\ Len(p.bytes) \in 1..c.len
              /\ p.bytes = Bytes(f, c.offset, Len(p.bytes)) /\ p.bytes \in Seq(Handles \X Int)
              /\ mood # "odd" => Len(p.bytes) = Min2(c.len, FileSize - c.offset)
         /\ p.type = "STATUS" /\ mood # "odd" => ~p.short /\ p.code = "EOF"
<1> DEFINE r == Request(Doing, f, c)
<1>1. r.kind = "read" /\ r.f = f /\ r.offset = c.offset /\ r.len = c.len
  BY DEF Request, Doing
<1>2. Fits(p, r, written)
  BY Answered
<1> HIDE DEF r
<1>3. /\ p.type \in {"DATA", "STATUS"}
      /\ p.type = "DATA" => ~p.short /\ (mood # "odd" => p.code # "BAD")
      /\ p.type = "DATA" /\ p.code # "BAD" =>
           /\ Len(p.bytes) \in 1..c.len
           /\ p.bytes = Bytes(f, c.offset, Len(p.bytes))
           /\ mood # "odd" => Len(p.bytes) = Min2(c.len, FileSize - c.offset)
      /\ p.type = "STATUS" /\ mood # "odd" => ~p.short /\ p.code = "EOF"
  BY <1>1, <1>2 DEF Fits
<1>4. ASSUME p.type = "DATA", p.code # "BAD" PROVE p.bytes \in Seq(Handles \X Int)
  <2> DEFINE k == Len(p.bytes)
  <2>1. c.len \in Nat /\ c.offset \in Int
    BY FirstTyped
  <2>2. k \in Nat /\ p.bytes = Bytes(f, c.offset, k)
    BY <1>3, <1>4, <2>1
  <2> HIDE DEF k
  <2> QED
    BY <2>1, <2>2, BytesAre
<1> QED
  BY <1>3, <1>4

LEMMA AnswerWrite ==
  ASSUME Shape, Owns, scene = "write", NEW f \in Handles, NEW c, F(f).list # <<>>, c = F(f).list[1],
         NEW p \in packets, p.id = c.id
  PROVE  /\ p.type = "STATUS"
         /\ p.code = "OK" => \A i \in 0..(c.len - 1) : <<f, c.offset + i, c.from + i>> \in written
         /\ mood # "odd" => ~p.short /\ p.code = "OK"
<1> DEFINE r == Request(Doing, f, c)
<1>1. r.kind = "write" /\ r.f = f /\ r.offset = c.offset /\ r.len = c.len /\ r.from = c.from
  BY DEF Request, Doing
<1>2. Fits(p, r, written)
  BY Answered
<1> HIDE DEF r
<1> QED
  BY <1>1, <1>2 DEF Fits

(* sftp_read() has an answer p to the first chunk.                          *)
First(p) == /\ Ready(F(at).list) /\ F(at).list # <<>>
            /\ p \in packets /\ p.id = F(at).list[1].id

RrEnd == /\ ~Ready(F(at).list) /\ pc' = (IF buf = <<>> THEN "fault" ELSE "rreturn") /\ buf' = buf
         /\ UNCHANGED <<packets, zombies, pending, written, cursor, read_state, file, at, size, owed>>

RrMore == /\ Ready(F(at).list) /\ F(at).list # <<>> /\ PacketRead
          /\ UNCHANGED <<file, pc, at, size, buf, read_state, owed>>

RrAgain ==
  /\ Ready(F(at).list) /\ F(at).list # <<>>
  /\ UNCHANGED <<file, packets, zombies, pending, written, cursor>>
  /\ \/ buf # <<>> /\ pc' = "rreturn" /\ UNCHANGED <<at, size, buf, read_state, owed>>
     \/ buf = <<>> /\ ReturnAgain /\ read_state' = "sent2"

RrBad(p) ==
  /\ First(p) /\ pc' = "error" /\ packets' = packets \ {p}
  /\ p.short \/ (~p.short /\ p.type = "DATA" /\ (p.code = "BAD" \/ F(at).list[1].offset # F(at).offset))
  /\ UNCHANGED <<buf, file, zombies>>

RrData(p, n) ==
  /\ First(p) /\ ~p.short /\ p.type = "DATA" /\ p.code # "BAD" /\ F(at).list[1].offset = F(at).offset
  /\ n \in 1..Len(p.bytes) /\ Len(buf) + n <= size
  /\ n < Len(p.bytes) => Len(buf) + n = size
  /\ Becomes(at, F(at).open, F(at).offset + n, F(at).offset_sent - (F(at).list[1].len - Len(p.bytes)),
             F(at).acked, SubSeq(p.bytes, n + 1, Len(p.bytes)), F(at).eof, Tail(F(at).list))
  /\ buf' = buf \o SubSeq(p.bytes, 1, n)
  /\ pc' = (IF Len(buf) + n < size THEN "rrecv" ELSE "rreturn")
  /\ packets' = packets \ {p} /\ zombies' = zombies

RrStatus(p) ==
  /\ First(p) /\ ~p.short /\ p.type = "STATUS"
  /\ PacketlistFlush(Tail(F(at).list), packets \ {p})
  /\ Becomes(at, F(at).open, F(at).offset, F(at).offset_sent, F(at).acked, F(at).data,
             (F(at).eof \/ p.code = "EOF"), <<>>)
  /\ pc' = (IF p.code = "EOF" THEN "rreturn" ELSE "error") /\ buf' = buf

RrGot == UNCHANGED <<read_state, pending, written, cursor, at, size, owed>>

LEMMA ReadRecvCases ==
  ASSUME Base, ReadRecv
  PROVE  \/ RrEnd \/ RrMore \/ RrAgain
         \/ RrGot /\ \E p : RrBad(p) \/ RrStatus(p) \/ \E n : RrData(p, n)
<1>0. /\ file \in [Handles -> FileSet] /\ at \in Handles /\ Shape /\ Owns /\ scene # "write"
      /\ Len(buf) \in Nat /\ size \in Nat /\ Len(buf) < size /\ pc = "rrecv"
  BY DEF Base, Core, Shape, Place, ReadRecv
<1> DEFINE list == file[at].list
           came == Answers(list[1].id, {"DATA", "STATUS"})
<1>1. ASSUME Ready(list), NEW p \in came
      PROVE  First(p)
  BY <1>1 DEF First, Answers, F, Ready
<1>2. CASE ~Ready(list) /\ ReadEnd /\ UNCHANGED <<recvVars, read_state, file, at, size, owed>>
  BY <1>2 DEF RrEnd, F, ReadEnd, recvVars, serverVars
<1>3. CASE Ready(list) /\ RequireMore(list[1].id, {"DATA", "STATUS"})
           /\ UNCHANGED <<file, callVars, read_state, owed>>
  BY <1>3 DEF RrMore, F, RequireMore, callVars, Ready
<1>4. CASE /\ Ready(list) /\ PacketReadAgain
           /\ \/ buf # <<>> /\ Stay("rreturn") /\ UNCHANGED read_state
              \/ buf = <<>> /\ ReturnAgain /\ read_state' = "sent2"
           /\ UNCHANGED file
  BY <1>4 DEF RrAgain, F, PacketReadAgain, recvVars, serverVars, Ready, Stay
<1>5. ASSUME Ready(list), NEW p \in came, UNCHANGED <<read_state, pending, serverVars, at, size, owed>>,
             p.short, pc' = "error", packets' = packets \ {p}, UNCHANGED <<zombies, file, buf>>
      PROVE  RrGot /\ RrBad(p)
  BY <1>1, <1>5 DEF RrGot, RrBad, serverVars
<1>6. ASSUME Ready(list), NEW p \in came, UNCHANGED <<read_state, pending, serverVars, at, size, owed>>,
             ~p.short, p.type = "DATA", ReadData(list[1], p), packets' = packets \ {p}, UNCHANGED zombies
      PROVE  RrGot /\ (RrBad(p) \/ \E n : RrData(p, n))
  <2> DEFINE c == list[1]
             n == Min2(Len(p.bytes), size - Len(buf))
  <2>1. RrGot /\ First(p)
    BY <1>1, <1>6 DEF RrGot, serverVars
  <2>2. CASE (c.offset # file[at].offset \/ p.code = "BAD") /\ pc' = "error" /\ UNCHANGED <<buf, file>>
    BY <1>6, <2>1, <2>2 DEF RrBad, F
  <2>3. CASE /\ c.offset = file[at].offset /\ p.code # "BAD"
             /\ file' = [file EXCEPT ![at].offset_sent = @ - (c.len - Len(p.bytes)),
                                     ![at].offset = @ + n, ![at].list = Tail(@),
                                     ![at].data = SubSeq(p.bytes, n + 1, Len(p.bytes))]
             /\ buf' = buf \o SubSeq(p.bytes, 1, n)
             /\ pc' = IF Len(buf) + n < size THEN "rrecv" ELSE "rreturn"
    <3> HIDE DEF c
    <3>1. F(at).list # <<>> /\ c = F(at).list[1] /\ p \in packets /\ p.id = c.id
      BY <2>1 DEF First, F, c
    <3>2. c.len \in Nat /\ c.offset \in Int
      BY <1>0, <3>1, FirstTyped
    <3>3. Len(p.bytes) \in 1..c.len /\ p.bytes \in Seq(Handles \X Int)
      BY <1>0, <1>6, <2>3, <3>1, AnswerRead
    <3>4. /\ n \in 1..Len(p.bytes) /\ Len(buf) + n <= size /\ (n < Len(p.bytes) => Len(buf) + n = size)
          /\ n \in 0..Len(p.bytes) /\ n \in Int /\ Len(p.bytes) \in Nat
      <4> DEFINE k == Len(p.bytes)
                 m == Len(buf)
      <4>1. k \in Nat /\ k >= 1 /\ m \in Nat /\ m < size /\ size \in Nat
        BY <1>0, <3>2, <3>3
      <4>2. n = Min2(k, size - m)
        OBVIOUS
      <4> HIDE DEF k, m, n
      <4>3. /\ n \in 1..k /\ m + n <= size /\ (n < k => m + n = size)
            /\ n \in 0..k /\ n \in Int
        BY <4>1, <4>2 DEF Min2
      <4> QED
        BY <4>1, <4>3 DEF k, m
    <3> DEFINE e == SubSeq(p.bytes, n + 1, Len(p.bytes))
               h == c.len - Len(p.bytes)
    <3> HIDE DEF n
    <3>5. e \in Seq(Handles \X Int) /\ h \in Int
      BY <3>2, <3>3, <3>4, Cut, SMTT(40)
    <3>6. file' = [file EXCEPT ![at].offset_sent = @ - h, ![at].offset = @ + n, ![at].list = Tail(@),
                               ![at].data = e]
      BY <2>3
    <3> HIDE DEF e, h
    <3>7. Becomes(at, F(at).open, F(at).offset + n, F(at).offset_sent - h, F(at).acked, e, F(at).eof,
                  Tail(F(at).list))
      BY <1>0, <3>1, <3>4, <3>5, <3>6, DataFile DEF F
    <3>8. RrData(p, n)
      BY <1>6, <2>1, <2>3, <3>1, <3>4, <3>7 DEF RrData, e, h, F
    <3> QED
      BY <2>1, <3>8
  <2> QED
    BY <1>6, <2>2, <2>3 DEF ReadData
<1>7. ASSUME Ready(list), NEW p \in came, UNCHANGED <<read_state, pending, serverVars, at, size, owed>>,
             ~p.short, p.type = "STATUS", ReadStatus(list[1], p)
      PROVE  RrGot /\ RrStatus(p)
  <2> DEFINE e == (p.code = "EOF")
  <2>1. RrGot /\ First(p)
    BY <1>1, <1>7 DEF RrGot, serverVars
  <2>2. e \in BOOLEAN /\ file' = [file EXCEPT ![at].list = <<>>, ![at].eof = @ \/ e]
    BY <1>7, Zenon DEF ReadStatus
  <2> HIDE DEF e
  <2>3. Becomes(at, F(at).open, F(at).offset, F(at).offset_sent, F(at).acked, F(at).data,
                (F(at).eof \/ e), <<>>)
    BY <1>0, <2>2, StatusFile DEF F
  <2>4. /\ PacketlistFlush(Tail(F(at).list), packets \ {p})
        /\ pc' = (IF p.code = "EOF" THEN "rreturn" ELSE "error") /\ buf' = buf
    BY <1>7 DEF ReadStatus, F
  <2> QED
    BY <1>7, <2>1, <2>3, <2>4 DEF RrStatus, e
<1> QED
  BY <1>2, <1>3, <1>4, <1>5, <1>6, <1>7 DEF ReadRecv

(* sftp_write(): waiting for acknowledgements.                              *)
WaReport(r) ==
  /\ ~Ready(F(at).list) /\ r \in 0..F(at).acked
  /\ Becomes(at, F(at).open, F(at).offset, F(at).offset_sent, F(at).acked - r, F(at).data, F(at).eof,
             F(at).list)
  /\ pos' = [pos EXCEPT ![at] = @ + r] /\ Return
  /\ UNCHANGED <<packets, zombies, pending, written, cursor, write_state>>

WaMore == /\ Ready(F(at).list) /\ F(at).list # <<>> /\ PacketRead /\ Stay("wack")
          /\ UNCHANGED <<write_state, file, pos>>

WaAgain == /\ Ready(F(at).list) /\ F(at).list # <<>> /\ ReturnAgain /\ write_state' = "sent"
           /\ UNCHANGED <<packets, zombies, pending, written, cursor, file, pos>>

WaShort(p) == /\ First(p) /\ p.short /\ packets' = packets \ {p} /\ Return
              /\ UNCHANGED <<zombies, file, pos>>

WaOk(p, r) ==
  /\ First(p) /\ ~p.short /\ p.code = "OK" /\ r \in 0..(F(at).acked + F(at).list[1].len)
  /\ packets' = packets \ {p} /\ zombies' = zombies
  /\ Becomes(at, F(at).open, F(at).offset + F(at).list[1].len, F(at).offset_sent,
             (F(at).acked + F(at).list[1].len) - r, F(at).data, F(at).eof, Tail(F(at).list))
  /\ pos' = [pos EXCEPT ![at] = @ + r] /\ Return

WaFail(p) ==
  /\ First(p) /\ ~p.short /\ p.code # "OK"
  /\ PacketlistFlush(F(at).list, packets \ {p})
  /\ Becomes(at, F(at).open, F(at).offset - F(at).acked, F(at).offset - F(at).acked, 0, F(at).data,
             F(at).eof, <<>>)
  /\ Return /\ pos' = pos

WaGot == UNCHANGED <<write_state, pending, written, cursor>>

(* What Report() does.                                                      *)
LEMMA Reported ==
  ASSUME Shape, NEW a \in Nat, NEW l \in Seq(ChunkSet), NEW o \in Int, Report(a, l, o)
  PROVE  \E r \in 0..a : /\ Becomes(at, F(at).open, o, F(at).offset_sent, a - r, F(at).data, F(at).eof, l)
                         /\ pos' = [pos EXCEPT ![at] = @ + r] /\ Return
<1>0. file \in [Handles -> FileSet] /\ at \in Handles /\ size \in Nat
  BY DEF Shape
<1> DEFINE r == Min2(a, size)
           v == a - r
<1>1. r \in 0..a /\ v \in Nat
  BY <1>0 DEF Min2
<1>2. file' = [file EXCEPT ![at].acked = v, ![at].list = l, ![at].offset = o]
  BY Zenon DEF Report
<1>3. pos' = [pos EXCEPT ![at] = @ + r] /\ Return
  BY DEF Report
<1> HIDE DEF r
<1>4. Becomes(at, F(at).open, o, F(at).offset_sent, v, F(at).data, F(at).eof, l)
  <2> HIDE DEF v
  <2> QED
    BY <1>0, <1>1, <1>2, ReportFile DEF F
<1> QED
  BY <1>1, <1>3, <1>4

LEMMA WriteAckCases ==
  ASSUME Base, WriteAck
  PROVE  \/ (\E r : WaReport(r)) \/ WaMore \/ WaAgain
         \/ WaGot /\ \E p : WaShort(p) \/ WaFail(p) \/ \E r : WaOk(p, r)
<1>0. /\ file \in [Handles -> FileSet] /\ at \in Handles /\ Shape /\ Owns /\ scene = "write"
      /\ pc = "wack" /\ F(at).acked \in Nat /\ F(at).offset \in Int /\ F(at).list \in Seq(ChunkSet)
  BY FileTyped DEF Base, Core, Shape, Place, WriteAck, F
<1> DEFINE list == file[at].list
           c == list[1]
           came == Answers(c.id, {"STATUS"})
<1>1. ASSUME Ready(list), NEW p \in came
      PROVE  First(p)
  BY <1>1 DEF First, Answers, F, Ready
<1>2. CASE /\ ~Ready(list) /\ Report(file[at].acked, list, file[at].offset)
           /\ UNCHANGED <<recvVars, write_state>>
  <2> DEFINE a == F(at).acked
             o == F(at).offset
  <2>1. Report(a, F(at).list, o)
    BY <1>2 DEF F
  <2>2. PICK r \in 0..a : /\ Becomes(at, F(at).open, o, F(at).offset_sent, a - r, F(at).data, F(at).eof,
                                     F(at).list)
                          /\ pos' = [pos EXCEPT ![at] = @ + r] /\ Return
    <3> HIDE DEF a, o
    <3>1. a \in Nat /\ o \in Int
      BY <1>0 DEF a, o
    <3> QED
      BY <1>0, <2>1, <3>1, Reported
  <2>3. WaReport(r)
    BY <1>2, <2>2 DEF WaReport, F, recvVars, serverVars
  <2> QED
    BY <2>3
<1>3. CASE /\ Ready(list) /\ RequireMore(c.id, {"STATUS"}) /\ Stay("wack")
           /\ UNCHANGED <<write_state, file, pos>>
  BY <1>3 DEF WaMore, F, RequireMore, Ready
<1>4. CASE /\ Ready(list) /\ PacketReadAgain /\ ReturnAgain /\ write_state' = "sent"
           /\ UNCHANGED <<file, pos>>
  BY <1>4 DEF WaAgain, F, PacketReadAgain, recvVars, serverVars, Ready
<1>5. ASSUME Ready(list), NEW p \in came, UNCHANGED <<write_state, pending, serverVars>>,
             p.short, packets' = packets \ {p}, Return, UNCHANGED <<zombies, file, pos>>
      PROVE  WaGot /\ WaShort(p)
  BY <1>1, <1>5 DEF WaGot, WaShort, serverVars
<1>6. ASSUME Ready(list), NEW p \in came, UNCHANGED <<write_state, pending, serverVars>>,
             ~p.short, p.code = "OK", packets' = packets \ {p},
             Report(file[at].acked + c.len, Tail(list), file[at].offset + c.len), UNCHANGED zombies
      PROVE  WaGot /\ \E r : WaOk(p, r)
  <2> DEFINE a == F(at).acked + F(at).list[1].len
             o == F(at).offset + F(at).list[1].len
             l == Tail(F(at).list)
  <2>1. WaGot /\ First(p)
    BY <1>1, <1>6 DEF WaGot, serverVars
  <2>2. F(at).list # <<>> /\ F(at).list[1].len \in Nat
    BY <1>0, <2>1, FirstTyped DEF First
  <2>3. a \in Nat /\ o \in Int /\ l \in Seq(ChunkSet) /\ Report(a, l, o)
    <3>1. Report(a, l, o)
      BY <1>6, Zenon DEF F
    <3> QED
      BY <1>0, <2>2, <3>1, TailOf
  <2>4. PICK r \in 0..a : /\ Becomes(at, F(at).open, o, F(at).offset_sent, a - r, F(at).data, F(at).eof, l)
                          /\ pos' = [pos EXCEPT ![at] = @ + r] /\ Return
    <3> HIDE DEF a, o, l
    <3> QED
      BY <1>0, <2>3, Reported
  <2>5. WaOk(p, r)
    <3>1. zombies' = zombies /\ r \in 0..a
      BY <1>6
    <3> QED
      BY <1>6, <2>1, <2>4, <3>1, Zenon DEF WaOk
  <2> QED
    BY <2>1, <2>5
<1>7. ASSUME Ready(list), NEW p \in came, UNCHANGED <<write_state, pending, serverVars>>,
             ~p.short, p.code # "OK", WriteFail(p)
      PROVE  WaGot /\ WaFail(p)
  <2> DEFINE o == F(at).offset - F(at).acked
  <2>1. WaGot /\ First(p)
    BY <1>1, <1>7 DEF WaGot, serverVars
  <2>2. o \in Int
    BY <1>0
  <2>3. file' = [file EXCEPT ![at].list = <<>>, ![at].offset = o, ![at].offset_sent = o, ![at].acked = 0]
    BY <1>7, Zenon DEF WriteFail, F
  <2> HIDE DEF o
  <2>4. Becomes(at, F(at).open, o, o, 0, F(at).data, F(at).eof, <<>>)
    BY <1>0, <2>2, <2>3, FailFile DEF F
  <2> QED
    BY <1>7, <2>1, <2>4 DEF WaFail, WriteFail, F, o
<1> QED
  BY <1>2, <1>3, <1>4, <1>5, <1>6, <1>7 DEF WriteAck

LEMMA SeekCases ==
  ASSUME Shape, NEW f \in Handles, NEW o \in Int, Seek(f, o)
  PROVE  Becomes(f, F(f).open, o, o, F(f).acked, <<>>, FALSE, <<>>)
<1>1. file' = [file EXCEPT ![f].offset = o, ![f].offset_sent = o, ![f].list = <<>>,
                           ![f].data = <<>>, ![f].eof = FALSE]
  BY DEF Seek
<1> QED
  BY <1>1, SeekFile DEF F, Shape

LEMMA DropCases ==
  ASSUME Shape, NEW f \in Handles, NEW ps, Drop(f, ps)
  PROVE  Becomes(f, FALSE, F(f).offset, F(f).offset_sent, F(f).acked, <<>>, F(f).eof, <<>>)
<1>1. file' = [file EXCEPT ![f].open = FALSE, ![f].list = <<>>, ![f].data = <<>>]
  BY DEF Drop
<1> QED
  BY <1>1, DropFile DEF F, Shape

-----------------------------------------------------------------------------
(* Every step keeps the shape and who waits for what.                       *)

LEMMA CallReadBase ==
  ASSUME Base, NEW f \in Handles, NEW b \in Nat \ {0}, CallRead(f, b)
  PROVE  Core'
<1>0. /\ Shape /\ Owns /\ Place /\ F(f).data \in Seq(Handles \X Int) /\ <<>> \in Seq(Handles \X Int)
  BY FileTyped DEF Base, Core, Shape, F
<1>1. /\ at' = f /\ size' = b /\ pc = "app" /\ scene # "write" /\ World
      /\ UNCHANGED <<packets, zombies, op, pos, seeks, pending, written>>
  BY DEF CallRead, World, worldVars, wireVars, serverVars
<1>2. ASSUME NEW n, RLeft(f, b, n) PROVE Core'
  <2>1. SubSeq(F(f).data, 1, n) \in Seq(Handles \X Int)
    <3>1. n \in 0..Len(F(f).data)
      BY <1>2 DEF RLeft
    <3> QED
      BY <1>0, <3>1, Cut
  <2>2. Shape'
    BY <1>0, <1>1, <1>2, <2>1 DEF RLeft, Becomes, Shape, World
  <2>3. Place'
    BY <1>2 DEF RLeft, Place
  <2>4. Lists' = Lists
    BY <1>2 DEF RLeft, Becomes, OtherFiles, Lists, F
  <2>5. Owns'
    BY <1>0, <1>1, <1>2, <2>2, <2>4, Keep DEF RLeft
  <2> QED
    BY <2>2, <2>3, <2>5 DEF Base, Core
<1>3. ASSUME NEW new, RBuild(f, b, new) PROVE Core'
  <2>1. request_id' \in Nat \ {0}
    BY <1>0, <1>3, ChunkTyped DEF RBuild, Built, Shape
  <2>2. Shape'
    BY <1>0, <1>1, <1>3, <2>1 DEF RBuild, Becomes, Shape, World
  <2>3. Place'
    <3>1. Len(<<>>) = 0
      OBVIOUS
    <3> QED
      BY <1>1, <1>3, <3>1 DEF RBuild, Place, World
  <2>4. Owns'
    BY <1>0, <1>1, <1>3, <2>2, AddNew DEF RBuild, Becomes, F
  <2> QED
    BY <2>2, <2>3, <2>4 DEF Base, Core
<1>4. CASE RResume
  <2>2. Shape'
    BY <1>0, <1>1, <1>4 DEF RResume, Shape, World
  <2>3. Place'
    <3>1. Len(<<>>) = 0
      OBVIOUS
    <3> QED
      BY <1>1, <1>4, <3>1 DEF RResume, Place, World
  <2>4. Lists' = Lists
    BY <1>4 DEF RResume, Lists
  <2>5. Owns'
    BY <1>0, <1>1, <1>4, <2>2, <2>4, Keep DEF RResume
  <2> QED
    BY <2>2, <2>3, <2>5 DEF Base, Core
<1> QED
  BY <1>0, <1>2, <1>3, <1>4, CallReadCases

LEMMA CallWriteBase ==
  ASSUME Base, NEW f \in Handles, NEW b \in Nat, CallWrite(f, b)
  PROVE  Core'
<1>0. Shape /\ Owns /\ Place
  BY DEF Base, Core
<1>1. /\ at' = f /\ size' = b /\ pc = "app" /\ scene = "write" /\ World
      /\ UNCHANGED <<packets, zombies, op, pos, seeks, pending, written, buf>>
  BY DEF CallWrite, World, worldVars, wireVars, serverVars, bookVars
<1>3. ASSUME NEW new, WBuild(f, b, new) PROVE Core'
  <2>1. request_id' \in Nat \ {0}
    BY <1>0, <1>3, ChunkTyped DEF WBuild, Built, Shape
  <2>2. Shape'
    BY <1>0, <1>1, <1>3, <2>1 DEF WBuild, Becomes, Shape, World
  <2>3. Place'
    BY <1>1, <1>3 DEF WBuild, Place, World
  <2>4. Owns'
    BY <1>0, <1>1, <1>3, <2>2, AddNew DEF WBuild, Becomes, F
  <2> QED
    BY <2>2, <2>3, <2>4 DEF Base, Core
<1>4. CASE WResume
  <2>2. Shape'
    BY <1>0, <1>1, <1>4 DEF WResume, Shape, World
  <2>3. Place'
    BY <1>1, <1>4 DEF WResume, Place, World
  <2>4. Lists' = Lists
    BY <1>4 DEF WResume, Lists
  <2>5. Owns'
    BY <1>0, <1>1, <1>4, <2>2, <2>4, Keep DEF WResume
  <2> QED
    BY <2>2, <2>3, <2>5 DEF Base, Core
<1> QED
  BY <1>0, <1>3, <1>4, CallWriteCases

LEMMA SeekBase ==
  ASSUME Base, NEW f \in Handles, NEW o \in Int, Seek(f, o)
  PROVE  Core'
<1>0. Shape /\ Owns /\ Place /\ file[f].list \in Seq(ChunkSet)
  BY FileTyped DEF Base, Core, Shape
<1>1. /\ World /\ pc = "app" /\ pos' = [pos EXCEPT ![f] = o] /\ seeks' = seeks + 1
      /\ UNCHANGED <<request_id, op, pending, written, pc, at, size, buf>>
      /\ PacketlistFlush(file[f].list, packets)
  BY DEF Seek, World, worldVars, wireVars, serverVars, callVars
<1>2. Becomes(f, F(f).open, o, o, F(f).acked, <<>>, FALSE, <<>>)
  BY <1>0, SeekCases
<1>3. Shape'
  <2>1. pos' \in [Handles -> Int] /\ seeks' \in Nat
    BY <1>0, <1>1 DEF Shape
  <2> QED
    BY <1>0, <1>1, <1>2, <2>1 DEF Becomes, Shape, World
<1>4. Place'
  <2>1. pc' = "app"
    BY <1>1
  <2> QED
    BY <2>1 DEF Place
<1>5. /\ packets' \subseteq packets
      /\ zombies' \subseteq zombies \cup {file[f].list[i].id : i \in 1..Len(file[f].list)}
  BY <1>0, <1>1, Flushed
<1>6. Owns'
  BY <1>0, <1>1, <1>2, <1>3, <1>5, Give DEF Becomes
<1> QED
  BY <1>3, <1>4, <1>6 DEF Base, Core

LEMMA CallOpBase ==
  ASSUME Base, NEW f \in Handles, CallOp(f)
  PROVE  Core'
<1>0. Shape /\ Owns /\ Place /\ <<>> \in Seq(Handles \X Int) /\ f \in Nat
  BY SftpAssumption DEF Base, Core
<1>1. /\ World /\ buf' = <<>> /\ at' = f
      /\ UNCHANGED <<packets, zombies, file, pending, written, size, pos, seeks>>
  BY DEF CallOp, World, worldVars, wireVars, serverVars, appVars, bookVars
<1>2. CASE /\ op.state = "idle" /\ op' = [state |-> "created", id |-> request_id, f |-> f]
           /\ request_id' = request_id + 1 /\ pc' = "osend"
  <2>1. op' \in OpSet /\ op'.state = "created" /\ op'.id = request_id
    BY <1>0, <1>2 DEF OpSet, Shape
  <2>2. Shape'
    BY <1>0, <1>1, <1>2, <2>1 DEF Shape, World
  <2>3. Place'
    BY <1>2, <2>1 DEF Place
  <2>4. request_id \in Nat \ {0} /\ Lists' = Lists
    BY <1>0, <1>1 DEF Shape, Lists
  <2>5. Owned(Lists, request_id + 1, zombies, pending, packets, written, op')
    <3> DEFINE q == op'
    <3> HIDE DEF q
    <3>1. q.id = request_id /\ q.state = "created"
      BY <2>1 DEF q
    <3>2. Owned(Lists, request_id + 1, zombies, pending, packets, written, q)
      BY <1>0, <2>4, <3>1, OpNew DEF Owns
    <3> QED
      BY <3>2 DEF q
  <2>6. Owned(Lists', request_id', zombies', pending', packets', written', op')
    BY <1>1, <1>2, <2>4, <2>5
  <2>7. Owns'
    BY <1>1, <2>6, Carry DEF Owns, World
  <2> QED
    BY <2>2, <2>3, <2>7 DEF Base, Core
<1>3. CASE /\ op.state # "idle" /\ pc' = (IF op.state = "created" THEN "osend" ELSE "owait")
           /\ UNCHANGED <<op, request_id>>
  <2>1. op.state \in {"idle", "created", "sent"}
    BY <1>0 DEF Shape, OpSet
  <2>2. Shape'
    BY <1>0, <1>1, <1>3 DEF Shape, World
  <2>3. Place'
    BY <1>3, <2>1 DEF Place
  <2>4. Lists' = Lists
    BY <1>1 DEF Lists
  <2>5. Owns'
    BY <1>0, <1>1, <1>3, <2>2, <2>4, Keep
  <2> QED
    BY <2>2, <2>3, <2>5 DEF Base, Core
<1> QED
  BY <1>2, <1>3 DEF CallOp

(* A call returns.                                                          *)
LEMMA Backs ==
  ASSUME Back
  PROVE  /\ pc' = "app" /\ buf' = <<>> /\ at' = 1 /\ size' = 0
         /\ buf' \in Seq(Handles \X Int) /\ at' \in Handles /\ size' \in Nat /\ Place'
<1>1. pc' = "app" /\ buf' = <<>> /\ at' = 1 /\ size' = 0
  BY DEF Back
<1> QED
  BY <1>1, SftpAssumption DEF Place

LEMMA PacketsAre ==
  ASSUME NEW r, NEW rest
  PROVE  Packets(r, rest) = PacketsIn(mood, r, rest)
  BY DEF Packets, PacketsIn

LEMMA PacketIs ==
  ASSUME NEW r, NEW rest \in BOOLEAN, NEW t \in PacketsIn(mood, r, rest)
  PROVE  t.r = r /\ t.rest = rest /\ t.whole \in BOOLEAN /\ (mood = "tight" \/ t.whole)
<1>1. PICK whole \in (IF mood = "tight" /\ ~rest THEN BOOLEAN ELSE {TRUE}) : t = Packet(r, rest, whole)
  BY DEF PacketsIn
<1>2. whole \in BOOLEAN /\ (mood = "tight" \/ whole)
  BY <1>1
<1>3. t.r = r /\ t.rest = rest /\ t.whole = whole
  BY <1>1 DEF Packet
<1> QED
  BY <1>2, <1>3

LEMMA LeavesGoes ==
  ASSUME NEW r, NEW rest \in BOOLEAN, NEW t \in PacketsIn(mood, r, rest), Leaves(t), NEW rc, rc = Told(t)
  PROVE  Goes(r, rest, rc)
<1>1. t.r = r /\ t.rest = rest /\ t.whole \in BOOLEAN /\ (mood = "tight" \/ t.whole)
  BY PacketIs
<1>2. CASE t.whole
  <2>1. rc = "all" /\ half' = 0
    BY <1>2 DEF Told, Leaves
  <2>2. pending' = pending \/ pending' = pending \cup {r}
    BY <1>1 DEF Leaves
  <2>3. half = 0 /\ ~garbled => pending' = pending \cup {r} /\ ~garbled'
    BY <1>1, <1>2 DEF Leaves
  <2> QED
    BY <2>1, <2>2, <2>3 DEF Goes
<1>3. CASE ~t.whole
  BY <1>1, <1>3 DEF Told, Leaves, Goes
<1> QED
  BY <1>2, <1>3

LEMMA WriteGoes ==
  ASSUME NEW r, NEW rest \in BOOLEAN, NEW rc, Write(r, rest, rc), stuck \subseteq PacketsIn(mood, r, rest)
  PROVE  Goes(r, rest, rc)
<1>1. CASE \E t \in PacketsIn(mood, r, rest) : rc = Told(t) /\ Leaves(t)
  BY <1>1, LeavesGoes
<1>2. CASE rc = "EAGAIN" /\ UNCHANGED <<half, garbled, pending>>
  BY <1>2 DEF Goes
<1>3. CASE \E t \in stuck : Leaves(t) /\ (t.r.id = r.id => rc = Told(t))
  <2>1. PICK t \in stuck : Leaves(t) /\ (t.r.id = r.id => rc = Told(t))
    BY <1>3
  <2>2. t \in PacketsIn(mood, r, rest) /\ t.r = r
    BY PacketIs
  <2> QED
    BY <2>1, <2>2, LeavesGoes
<1> QED
  BY <1>1, <1>2, <1>3, PacketsAre DEF Write

LEMMA AgainKeeps ==
  ASSUME NEW r, NEW rest, Write(r, rest, "EAGAIN")
  PROVE  UNCHANGED <<half, garbled, pending>>
<1>1. \A t : Told(t) # "EAGAIN"
  BY DEF Told
<1> QED
  BY <1>1 DEF Write

LEMMA AgainStuck ==
  ASSUME NEW r, NEW rest, Write(r, rest, "EAGAIN"), stuck \subseteq PacketsIn(mood, r, rest)
  PROVE  stuck' \subseteq PacketsIn(mood, r, rest)
<1>1. \A t : Told(t) # "EAGAIN"
  BY DEF Told
<1> QED
  BY <1>1, PacketsAre DEF Write

LEMMA OutClears ==
  ASSUME NEW r, NEW rest, NEW rc, Write(r, rest, rc), rc # "EAGAIN"
  PROVE  stuck' = {}
  BY DEF Write

(* A call that sends a chunk again is the call whose chunk is half sent.    *)
LEMMA ChunkSame ==
  ASSUME Base, pc \in {"rsend", "wsend"}, Unsent(file[at].list) # {}, NEW i, i = NextUnsent(file[at].list)
  PROVE  /\ stuck \subseteq PacketsIn(mood, Request(Doing, at, file[at].list[i]), file[at].list[i].sent = 1)
         /\ i \in 1..Len(file[at].list) /\ file[at].list[i].sent # 2
         /\ \A j \in 1..(i - 1) : file[at].list[j].sent = 2
<1>0. at \in Handles /\ file[at].list \in Seq(ChunkSet) /\ Len(file[at].list) \in Nat
  BY FileTyped DEF Base, Core, Shape
<1>1. /\ i \in 1..Len(file[at].list) /\ file[at].list[i].sent # 2
      /\ \A j \in 1..Len(file[at].list) : j < i => file[at].list[j].sent = 2
  BY <1>0, FirstUnsent
<1>2. \A j \in 1..(i - 1) : file[at].list[j].sent = 2
  BY <1>0, <1>1
<1>3. CASE stuck = {}
  BY <1>1, <1>2, <1>3
<1>4. CASE stuck # {}
  <2>1. OfFile(at)
    BY <1>4 DEF Base, Mine, OfOp, OfFile
  <2>2. PICK k \in 1..Len(file[at].list) :
             /\ file[at].list[k].sent # 2 /\ \A j \in 1..(k - 1) : file[at].list[j].sent = 2
             /\ stuck \subseteq PacketsIn(mood, Request(Doing, at, file[at].list[k]), file[at].list[k].sent = 1)
    BY <2>1 DEF OfFile, Half, HalfIn
  <2>3. k = i
    BY <1>0, <1>1, <1>2, <2>2
  <2> QED
    BY <1>1, <1>2, <2>2, <2>3
<1> QED
  BY <1>3, <1>4

LEMMA ChunkGoes ==
  ASSUME Base, pc \in {"rsend", "wsend"}, Unsent(file[at].list) # {}, NEW rc,
         Write(Request(Doing, at, file[at].list[NextUnsent(file[at].list)]),
               file[at].list[NextUnsent(file[at].list)].sent = 1, rc)
  PROVE  Goes(Request(Doing, at, file[at].list[NextUnsent(file[at].list)]),
              file[at].list[NextUnsent(file[at].list)].sent = 1, rc)
<1> DEFINE i == NextUnsent(file[at].list)
           r == Request(Doing, at, file[at].list[i])
           rest == (file[at].list[i].sent = 1)
<1>1. stuck \subseteq PacketsIn(mood, r, rest)
  BY ChunkSame
<1>2. rest \in BOOLEAN /\ Write(r, rest, rc)
  OBVIOUS
<1> HIDE DEF r, rest
<1>3. Goes(r, rest, rc)
  BY <1>1, <1>2, WriteGoes
<1> QED
  BY <1>3 DEF r, rest

LEMMA SendBase ==
  ASSUME Base, NEW i \in 1..Len(file[at].list), i = NextUnsent(file[at].list),
         Unsent(file[at].list) # {}, NEW v \in {1, 2}, NEW rc,
         (rc = "all" /\ v = 2) \/ (rc = "part" /\ v = 1),
         file' = [file EXCEPT ![at].list[i].sent = v],
         Goes(Request(Doing, at, file[at].list[i]), file[at].list[i].sent = 1, rc),
         UNCHANGED <<request_id, zombies, packets, written, op, at, size, buf, pos, seeks>>, World
  PROVE  Shape' /\ Owns'
<1>0. Shape /\ Owns /\ Place /\ at \in Handles /\ file[at].list \in Seq(ChunkSet)
  BY FileTyped DEF Base, Core, Shape
<1>1. file[at].list[i].sent # 2
  BY <1>0, FirstUnsent
<1>2. file' \in [Handles -> FileSet]
  BY <1>0, SendFile
<1> DEFINE rest == (file[at].list[i].sent = 1)
<1>3. Owns' /\ \A r \in pending' : r \in RequestSet
  <2>1. Goes(Request(Doing, at, file[at].list[i]), rest, rc)
    OBVIOUS
  <2> HIDE DEF rest
  <2> QED
    BY <1>0, <1>1, <2>1, SendOwns
<1>4. Shape'
  BY <1>0, <1>2, <1>3 DEF Shape, World
<1> QED
  BY <1>3, <1>4

LEMMA ReadSendBase ==
  ASSUME Base, ReadSend
  PROVE  Core'
<1> DEFINE list == file[at].list
           i == NextUnsent(list)
<1>0. Shape /\ Owns /\ Place /\ pc = "rsend" /\ scene # "write" /\ Doing = "read"
      /\ at \in Handles /\ list \in Seq(ChunkSet)
  BY FileTyped DEF Base, Core, ReadSend, Place, Doing, Shape
<1>1. /\ World /\ UNCHANGED <<request_id, packets, zombies, written, op, pos, seeks>>
  BY DEF ReadSend, World, worldVars, serverVars, bookVars
<1>2. CASE Unsent(list) = {} /\ Stay("rrecv") /\ UNCHANGED <<file, read_state, wireVars>>
  <2>1. Shape'
    BY <1>0, <1>1, <1>2 DEF Shape, World, Stay, wireVars
  <2>2. Place'
    BY <1>0, <1>1, <1>2 DEF Place, World, Stay
  <2>3. Lists' = Lists
    BY <1>2 DEF Lists
  <2>4. Owns'
    BY <1>0, <1>1, <1>2, <2>1, <2>3, Keep DEF wireVars
  <2> QED
    BY <2>1, <2>2, <2>4 DEF Base, Core
<1>3. ASSUME Unsent(list) # {}, NEW rc \in WriteResults,
             Write(Request("read", at, list[i]), list[i].sent = 1, rc),
             \/ /\ rc = "EAGAIN" /\ ReturnAgain
                /\ read_state' = "sent"
                /\ UNCHANGED file
             \/ /\ rc = "all" /\ Stay("rsend")
                /\ file' = [file EXCEPT ![at].list[i].sent = 2]
                /\ UNCHANGED read_state
             \/ /\ rc = "part" /\ Stay(IF i = 1 THEN "rsend" ELSE "rrecv")
                /\ file' = [file EXCEPT ![at].list[i].sent = 1]
                /\ UNCHANGED read_state
      PROVE  Core'
  <2>1. i \in 1..Len(list)
    BY <1>0, <1>3, FirstUnsent
  <2>2. CASE rc = "EAGAIN" /\ ReturnAgain /\ UNCHANGED file
    <3>1. UNCHANGED <<half, garbled, pending>>
      BY <1>3, <2>2, AgainKeeps
    <3>2. Shape'
      BY <1>0, <1>1, <2>2, <3>1, Backs DEF Shape, World, wireVars, ReturnAgain
    <3>3. Place'
      BY <2>2, Backs DEF ReturnAgain
    <3>4. Lists' = Lists
      BY <2>2 DEF Lists
    <3>5. Owns'
      BY <1>0, <1>1, <3>1, <3>2, <3>4, Keep DEF wireVars
    <3> QED
      BY <3>2, <3>3, <3>5 DEF Base, Core
  <2>3. ASSUME NEW v \in {1, 2}, (rc = "all" /\ v = 2) \/ (rc = "part" /\ v = 1),
               file' = [file EXCEPT ![at].list[i].sent = v], pc' \in {"rsend", "rrecv"},
               UNCHANGED <<at, size, buf, owed>>
        PROVE  Core'
    <3>1. Goes(Request(Doing, at, list[i]), list[i].sent = 1, rc)
      BY <1>0, <1>3, ChunkGoes
    <3>2. i = NextUnsent(list) /\ UNCHANGED <<request_id, zombies, packets, written, op, at, size, buf, pos, seeks>>
      BY <1>1, <2>3
    <3> HIDE DEF i
    <3>3. Shape' /\ Owns'
      BY <1>1, <1>3, <2>1, <2>3, <3>1, <3>2, SendBase
    <3>4. Place'
      BY <1>0, <1>1, <2>3 DEF Place, World
    <3> QED
      BY <3>3, <3>4 DEF Base, Core
  <2>4. CASE /\ rc = "all" /\ Stay("rsend")
             /\ file' = [file EXCEPT ![at].list[i].sent = 2]
    <3>1. pc' \in {"rsend", "rrecv"} /\ UNCHANGED <<at, size, buf, owed>>
      BY <2>4 DEF Stay
    <3> QED
      BY <2>3, <2>4, <3>1
  <2>5. CASE /\ rc = "part" /\ Stay(IF i = 1 THEN "rsend" ELSE "rrecv")
             /\ file' = [file EXCEPT ![at].list[i].sent = 1]
    <3>1. pc' \in {"rsend", "rrecv"} /\ UNCHANGED <<at, size, buf, owed>>
      <4> HIDE DEF i
      <4> QED
        BY <2>5 DEF Stay
    <3> QED
      BY <2>3, <2>5, <3>1
  <2> QED
    BY <1>3, <2>2, <2>4, <2>5
<1> QED
  BY <1>2, <1>3 DEF ReadSend

LEMMA WriteSendBase ==
  ASSUME Base, WriteSend
  PROVE  Core'
<1> DEFINE list == file[at].list
           i == NextUnsent(list)
<1>0. Shape /\ Owns /\ Place /\ pc = "wsend" /\ scene = "write" /\ Doing = "write"
      /\ at \in Handles /\ list \in Seq(ChunkSet)
  BY FileTyped DEF Base, Core, WriteSend, Place, Doing, Shape
<1>1. /\ World /\ UNCHANGED <<request_id, packets, zombies, written, op, pos, seeks>>
  BY DEF WriteSend, World, worldVars, serverVars, bookVars, sftpVars
<1>2. CASE Unsent(list) = {} /\ Stay("wack") /\ UNCHANGED <<file, wireVars>>
  <2>1. Shape'
    BY <1>0, <1>1, <1>2 DEF Shape, World, Stay, wireVars
  <2>2. Place'
    BY <1>0, <1>1, <1>2 DEF Place, World, Stay
  <2>3. Lists' = Lists
    BY <1>2 DEF Lists
  <2>4. Owns'
    BY <1>0, <1>1, <1>2, <2>1, <2>3, Keep DEF wireVars
  <2> QED
    BY <2>1, <2>2, <2>4 DEF Base, Core
<1>3. ASSUME Unsent(list) # {}, NEW rc \in WriteResults,
             Write(Request("write", at, list[i]), list[i].sent = 1, rc),
             \/ rc = "EAGAIN" /\ ReturnAgain /\ UNCHANGED file
             \/ /\ rc = "all" /\ Stay("wsend")
                /\ file' = [file EXCEPT ![at].list[i].sent = 2]
             \/ /\ rc = "part" /\ Stay("wack")
                /\ file' = [file EXCEPT ![at].list[i].sent = 1]
      PROVE  Core'
  <2>1. i \in 1..Len(list)
    BY <1>0, <1>3, FirstUnsent
  <2>2. CASE rc = "EAGAIN" /\ ReturnAgain /\ UNCHANGED file
    <3>1. UNCHANGED <<half, garbled, pending>>
      BY <1>3, <2>2, AgainKeeps
    <3>2. Shape'
      BY <1>0, <1>1, <2>2, <3>1, Backs DEF Shape, World, wireVars, ReturnAgain
    <3>3. Place'
      BY <2>2, Backs DEF ReturnAgain
    <3>4. Lists' = Lists
      BY <2>2 DEF Lists
    <3>5. Owns'
      BY <1>0, <1>1, <3>1, <3>2, <3>4, Keep DEF wireVars
    <3> QED
      BY <3>2, <3>3, <3>5 DEF Base, Core
  <2>3. ASSUME NEW v \in {1, 2}, (rc = "all" /\ v = 2) \/ (rc = "part" /\ v = 1),
               file' = [file EXCEPT ![at].list[i].sent = v], pc' \in {"wsend", "wack"},
               UNCHANGED <<at, size, buf, owed>>
        PROVE  Core'
    <3>1. Goes(Request(Doing, at, list[i]), list[i].sent = 1, rc)
      BY <1>0, <1>3, ChunkGoes
    <3>2. i = NextUnsent(list) /\ UNCHANGED <<request_id, zombies, packets, written, op, at, size, buf, pos, seeks>>
      BY <1>1, <2>3
    <3> HIDE DEF i
    <3>3. Shape' /\ Owns'
      BY <1>1, <1>3, <2>1, <2>3, <3>1, <3>2, SendBase
    <3>4. Place'
      BY <1>0, <1>1, <2>3 DEF Place, World
    <3> QED
      BY <3>3, <3>4 DEF Base, Core
  <2>4. CASE /\ rc = "all" /\ Stay("wsend")
             /\ file' = [file EXCEPT ![at].list[i].sent = 2]
    <3>1. pc' \in {"wsend", "wack"} /\ UNCHANGED <<at, size, buf, owed>>
      BY <2>4 DEF Stay
    <3> QED
      BY <2>3, <2>4, <3>1
  <2>5. CASE /\ rc = "part" /\ Stay("wack")
             /\ file' = [file EXCEPT ![at].list[i].sent = 1]
    <3>1. pc' \in {"wsend", "wack"} /\ UNCHANGED <<at, size, buf, owed>>
      BY <2>5 DEF Stay
    <3> QED
      BY <2>3, <2>5, <3>1
  <2> QED
    BY <1>3, <2>2, <2>4, <2>5
<1> QED
  BY <1>2, <1>3 DEF WriteSend

LEMMA ReadRecvBase ==
  ASSUME Base, ReadRecv
  PROVE  Core'
<1>0. /\ Shape /\ Owns /\ Place /\ pc = "rrecv" /\ scene # "write" /\ at \in Handles
      /\ Len(buf) \in Nat /\ size \in Nat /\ Len(buf) < size
  BY DEF Base, Core, ReadRecv, Place, Shape
<1>1. World /\ UNCHANGED <<request_id, op, pos, seeks>>
  BY DEF ReadRecv, World, worldVars, bookVars
<1>2. CASE RrEnd
  <2>1. Shape'
    BY <1>0, <1>1, <1>2 DEF RrEnd, Shape, World
  <2>2. Place'
    BY <1>2 DEF RrEnd, Place
  <2>3. Lists' = Lists
    BY <1>2 DEF RrEnd, Lists
  <2>4. Owns'
    BY <1>0, <1>1, <1>2, <2>1, <2>3, Keep DEF RrEnd
  <2> QED
    BY <2>1, <2>2, <2>4 DEF Base, Core
<1>3. CASE RrMore
  <2>1. Owns' /\ \A r \in pending' : r \in RequestSet
    BY <1>0, <1>1, <1>3, ReceiveOwns DEF RrMore
  <2>2. Shape'
    BY <1>0, <1>1, <1>3, <2>1 DEF RrMore, Shape, World
  <2>3. Place'
    BY <1>0, <1>1, <1>3 DEF RrMore, Place, World
  <2> QED
    BY <2>1, <2>2, <2>3 DEF Base, Core
<1>4. CASE RrAgain
  <2>1. Shape' /\ Place'
    <3>1. CASE pc' = "rreturn" /\ UNCHANGED <<at, size, buf, read_state, owed>>
      BY <1>0, <1>1, <1>4, <3>1 DEF RrAgain, Shape, World, Place
    <3>2. CASE ReturnAgain
      BY <1>0, <1>1, <1>4, <3>2, Backs DEF RrAgain, Shape, World, ReturnAgain
    <3> QED
      BY <1>4, <3>1, <3>2 DEF RrAgain
  <2>3. Lists' = Lists
    BY <1>4 DEF RrAgain, Lists
  <2>4. Owns'
    BY <1>0, <1>1, <1>4, <2>1, <2>3, Keep DEF RrAgain
  <2> QED
    BY <2>1, <2>4 DEF Base, Core
<1>5. ASSUME NEW p, RrGot, RrBad(p) PROVE Core'
  <2>1. Shape'
    BY <1>0, <1>1, <1>5 DEF RrBad, RrGot, Shape, World
  <2>2. Place'
    BY <1>5 DEF RrBad, Place
  <2>3. Lists' = Lists
    BY <1>5 DEF RrBad, Lists
  <2>4. packets' \subseteq packets
    BY <1>5 DEF RrBad
  <2>5. Owns'
    BY <1>0, <1>1, <1>5, <2>1, <2>3, <2>4, Keep DEF RrBad, RrGot
  <2> QED
    BY <2>1, <2>2, <2>5 DEF Base, Core
<1>6. ASSUME NEW p, NEW n, RrGot, RrData(p, n) PROVE Core'
  <2>1. /\ p \in packets /\ p.id = F(at).list[1].id /\ F(at).list # <<>>
    BY <1>6 DEF RrData, First
  <2>2. p.bytes \in Seq(Handles \X Int)
    BY <1>0, <1>6, <2>1, AnswerRead DEF RrData
  <2>3. n \in 0..Len(p.bytes) /\ n \in Nat /\ n >= 1 /\ Len(p.bytes) \in Nat
    BY <1>6, <2>2 DEF RrData
  <2> DEFINE a == SubSeq(p.bytes, 1, n)
  <2>4. a \in Seq(Handles \X Int) /\ Len(a) = n
    BY <2>2, <2>3, Cut
  <2>5. buf' = buf \o a
    BY <1>6 DEF RrData
  <2> HIDE DEF a
  <2>6. buf' \in Seq(Handles \X Int) /\ Len(buf') = Len(buf) + n
    BY <1>0, <2>4, <2>5, ConcatProperties DEF Shape
  <2>7. Shape'
    BY <1>0, <1>1, <1>6, <2>6 DEF RrData, RrGot, Shape, World, Becomes
  <2>8. Place'
    <3>1. size' = size
      BY <1>6 DEF RrGot
    <3> QED
      BY <1>0, <1>1, <1>6, <2>3, <2>6, <3>1 DEF RrData, Place, World
  <2>9. Owns'
    <3>1. packets' \subseteq packets
      BY <1>6 DEF RrData
    <3> QED
      BY <1>0, <1>1, <1>6, <2>1, <2>7, <3>1, TakeFirst DEF RrData, RrGot, Becomes, F
  <2> QED
    BY <2>7, <2>8, <2>9 DEF Base, Core
<1>7. ASSUME NEW p, RrGot, RrStatus(p) PROVE Core'
  <2>1. F(at).list # <<>> /\ F(at).list \in Seq(ChunkSet)
    BY <1>0, <1>7, FirstTyped DEF RrStatus, First
  <2>2. Shape'
    BY <1>0, <1>1, <1>7 DEF RrStatus, RrGot, Shape, World, Becomes
  <2>3. Place'
    BY <1>7 DEF RrStatus, Place
  <2> DEFINE l == Tail(F(at).list)
  <2>4. /\ l \in Seq(ChunkSet) /\ PacketlistFlush(l, packets \ {p})
        /\ \A i \in 1..Len(l) : i + 1 \in 1..Len(F(at).list) /\ l[i] = F(at).list[i + 1]
    BY <1>7, <2>1, TailOf DEF RrStatus
  <2> HIDE DEF l
  <2>5. packets' \subseteq packets \ {p} /\ zombies' \subseteq zombies \cup {l[i].id : i \in 1..Len(l)}
    BY <2>4, Flushed
  <2>6. zombies' \subseteq zombies \cup {F(at).list[i].id : i \in 1..Len(F(at).list)}
    BY <2>4, <2>5
  <2>7. packets' \subseteq packets
    BY <2>5
  <2>8. Owns'
    BY <1>0, <1>1, <1>7, <2>2, <2>6, <2>7, Give DEF RrStatus, RrGot, Becomes, F
  <2> QED
    BY <2>2, <2>3, <2>8 DEF Base, Core
<1> QED
  BY <1>2, <1>3, <1>4, <1>5, <1>6, <1>7, ReadRecvCases

LEMMA ReadReturnBase ==
  ASSUME Base, ReadReturn
  PROVE  Core'
<1>0. Shape /\ Owns /\ at \in Handles /\ Len(buf) \in Nat /\ file[at].offset \in Int
  BY FileTyped DEF Base, Core, Shape
<1>1. /\ World /\ Back
      /\ UNCHANGED <<request_id, packets, zombies, op, file, seeks, pending, written>>
      /\ pos' = [pos EXCEPT ![at] = IF pc = "rreturn" THEN @ + Len(buf) ELSE Tell(at)]
  BY DEF ReadReturn, World, worldVars, sftpVars, stateVars, wireVars, serverVars, Return
<1>2. pos' \in [Handles -> Int]
  BY <1>0, <1>1 DEF Shape, Tell
<1>3. Shape' /\ Place'
  BY <1>0, <1>1, <1>2, Backs DEF Shape, World
<1>4. Lists' = Lists
  BY <1>1 DEF Lists
<1>5. Owns'
  BY <1>0, <1>1, <1>3, <1>4, Keep
<1> QED
  BY <1>3, <1>5 DEF Base, Core

LEMMA WriteAckBase ==
  ASSUME Base, WriteAck
  PROVE  Core'
<1>0. Shape /\ Owns /\ Place /\ pc = "wack" /\ scene = "write" /\ at \in Handles
  BY DEF Base, Core, WriteAck, Place, Shape
<1>1. World /\ UNCHANGED <<request_id, op, seeks>>
  BY DEF WriteAck, World, worldVars
<1>2. ASSUME NEW r, r \in Nat, pos' = [pos EXCEPT ![at] = @ + r]
      PROVE  pos' \in [Handles -> Int]
  BY <1>0, <1>2 DEF Shape
<1>3. ASSUME NEW r, WaReport(r) PROVE Core'
  <2>1. r \in Nat /\ Back
    BY <1>3, FileTyped DEF WaReport, Return, F
  <2>2. Shape' /\ Place'
    BY <1>0, <1>1, <1>2, <1>3, <2>1, Backs DEF WaReport, Shape, World, Becomes
  <2>3. Lists' = Lists
    BY <1>3 DEF WaReport, Lists, Becomes, OtherFiles, F
  <2>4. Owns'
    BY <1>0, <1>1, <1>3, <2>2, <2>3, Keep DEF WaReport
  <2> QED
    BY <2>2, <2>4 DEF Base, Core
<1>4. CASE WaMore
  <2>1. Owns' /\ \A r \in pending' : r \in RequestSet
    BY <1>0, <1>1, <1>4, ReceiveOwns DEF WaMore
  <2>2. Shape'
    BY <1>0, <1>1, <1>4, <2>1 DEF WaMore, Shape, World, Stay
  <2>3. Place'
    BY <1>0, <1>1, <1>4 DEF WaMore, Place, World, Stay
  <2> QED
    BY <2>1, <2>2, <2>3 DEF Base, Core
<1>5. CASE WaAgain
  <2>1. Shape' /\ Place'
    BY <1>0, <1>1, <1>5, Backs DEF WaAgain, Shape, World, ReturnAgain
  <2>2. Lists' = Lists
    BY <1>5 DEF WaAgain, Lists
  <2>3. Owns'
    BY <1>0, <1>1, <1>5, <2>1, <2>2, Keep DEF WaAgain
  <2> QED
    BY <2>1, <2>3 DEF Base, Core
<1>6. ASSUME NEW p, WaGot, WaShort(p) PROVE Core'
  <2>1. Shape' /\ Place'
    BY <1>0, <1>1, <1>6, Backs DEF WaShort, WaGot, Shape, World, Return
  <2>2. Lists' = Lists /\ packets' \subseteq packets
    BY <1>6 DEF WaShort, Lists
  <2>3. Owns'
    BY <1>0, <1>1, <1>6, <2>1, <2>2, Keep DEF WaShort, WaGot
  <2> QED
    BY <2>1, <2>3 DEF Base, Core
<1>7. ASSUME NEW p, NEW r, WaGot, WaOk(p, r) PROVE Core'
  <2>1. F(at).list # <<>> /\ F(at).list[1].len \in Nat /\ F(at).acked \in Nat
    BY <1>0, <1>7, FirstTyped, FileTyped DEF WaOk, First, F, Shape
  <2>2. r \in Nat /\ Back
    BY <1>7, <2>1 DEF WaOk, Return
  <2>3. Shape' /\ Place'
    BY <1>0, <1>1, <1>2, <1>7, <2>2, Backs DEF WaOk, WaGot, Shape, World, Becomes
  <2>4. packets' \subseteq packets
    BY <1>7 DEF WaOk
  <2>5. Owns'
    BY <1>0, <1>1, <1>7, <2>1, <2>3, <2>4, TakeFirst DEF WaOk, WaGot, Becomes, F
  <2> QED
    BY <2>3, <2>5 DEF Base, Core
<1>8. ASSUME NEW p, WaGot, WaFail(p) PROVE Core'
  <2>1. F(at).list # <<>> /\ F(at).list \in Seq(ChunkSet)
    BY <1>0, <1>8, FirstTyped DEF WaFail, First
  <2>2. Shape' /\ Place'
    BY <1>0, <1>1, <1>8, Backs DEF WaFail, WaGot, Shape, World, Becomes, Return
  <2>3. /\ packets' \subseteq packets \ {p}
        /\ zombies' \subseteq zombies \cup {F(at).list[i].id : i \in 1..Len(F(at).list)}
    BY <1>8, <2>1, Flushed DEF WaFail
  <2>4. packets' \subseteq packets
    BY <2>3
  <2>5. Owns'
    BY <1>0, <1>1, <1>8, <2>2, <2>3, <2>4, Give DEF WaFail, WaGot, Becomes, F
  <2> QED
    BY <2>2, <2>5 DEF Base, Core
<1> QED
  BY <1>3, <1>4, <1>5, <1>6, <1>7, <1>8, WriteAckCases

(* A handle is closed: the chunks of its list are given up.                 *)
LEMMA DropOwns ==
  ASSUME Shape, Owns, NEW f \in Handles, NEW ps, ps \subseteq packets, Drop(f, ps), World,
         op' = IdleOp, Shape', UNCHANGED <<request_id, pending, written>>
  PROVE  Owns'
<1>1. Becomes(f, FALSE, F(f).offset, F(f).offset_sent, F(f).acked, <<>>, F(f).eof, <<>>)
  BY DropCases
<1>2. file[f].list \in Seq(ChunkSet) /\ op'.state = "idle"
  BY FileTyped DEF Shape, IdleOp
<1>3. /\ packets' \subseteq ps
      /\ zombies' \subseteq zombies \cup {file[f].list[i].id : i \in 1..Len(file[f].list)}
  BY <1>2, Flushed DEF Drop
<1>4. packets' \subseteq packets
  BY <1>3
<1> QED
  BY <1>1, <1>2, <1>3, <1>4, Give DEF Becomes

LEMMA IdleTyped ==
  IdleOp \in OpSet /\ IdleOp.state = "idle"
  BY DEF IdleOp, OpSet

OsRequest == [id |-> op.id, kind |-> OpKind, f |-> at, offset |-> 0, len |-> 0, from |-> 0]

OsAll == /\ Stay("owait") /\ op' = [op EXCEPT !.state = "sent"]
         /\ pending' = pending \/ pending' = pending \cup {OsRequest}
         /\ mood = "plain" /\ half = 0 /\ ~garbled => pending' = pending \cup {OsRequest}
         /\ UNCHANGED <<packets, zombies, file, read_state>>

OsAgain == Return /\ UNCHANGED <<op, pending, packets, zombies, file, read_state>>

OsPart == /\ mood = "tight" /\ Return /\ op' = IdleOp /\ pending' = pending
          /\ \/ OpKind = "close" /\ Drop(at, packets)
             \/ OpKind # "close" /\ UNCHANGED <<packets, zombies, file, read_state>>

LEMMA OpGoes ==
  ASSUME Base, pc = "osend", NEW rc, Write(OsRequest, OpRest, rc)
  PROVE  Goes(OsRequest, OpRest, rc)
<1>1. OpRest \in BOOLEAN
  BY DEF OpRest
<1>2. stuck \subseteq PacketsIn(mood, OsRequest, OpRest)
  <2>1. CASE stuck = {}
    BY <2>1
  <2>2. CASE stuck # {}
    <3>1. OfOp /\ op.f = at
      BY <2>2 DEF Base, Mine, OfFile
    <3> QED
      BY <3>1 DEF OfOp, HalfOp, HalfOpIn, OsRequest
  <2> QED
    BY <2>1, <2>2
<1> QED
  BY <1>1, <1>2, WriteGoes

LEMMA OpSendCases ==
  ASSUME Base, OpSend
  PROVE  OsAll \/ OsAgain \/ OsPart
<1>1. PICK rc \in WriteResults :
          /\ Write(OsRequest, OpRest, rc)
          /\ \/ /\ rc = "all" /\ Stay("owait")
                /\ op' = [op EXCEPT !.state = "sent"]
                /\ UNCHANGED <<packets, zombies, file, read_state>>
             \/ /\ rc = "EAGAIN" \/ (rc = "part" /\ K.short # "error")
                /\ Return
                /\ UNCHANGED <<op, packets, zombies, file, read_state>>
             \/ /\ rc = "part" /\ K.short = "error" /\ Return
                /\ op' = IdleOp
                /\ IF OpKind = "close" THEN Drop(at, packets)
                   ELSE UNCHANGED <<packets, zombies, file, read_state>>
  BY Zenon DEF OpSend, OsRequest
<1>g. Goes(OsRequest, OpRest, rc)
  BY <1>1, OpGoes DEF OpSend
<1>2. CASE rc = "all"
  <2>1. /\ pending' = pending \/ pending' = pending \cup {OsRequest}
        /\ mood = "plain" /\ half = 0 /\ ~garbled => pending' = pending \cup {OsRequest}
    BY <1>g, <1>2 DEF Goes
  <2> QED
    BY <1>1, <1>2, <2>1 DEF OsAll
<1>3. CASE rc = "EAGAIN"
  BY <1>1, <1>3, <1>g DEF Goes, OsAgain
<1>4. CASE rc = "part"
  BY <1>1, <1>4, <1>g DEF Goes, OsAgain, OsPart
<1> QED
  BY <1>2, <1>3, <1>4 DEF WriteResults

LEMMA OpSendBase ==
  ASSUME Base, OpSend
  PROVE  Core'
<1>0. Shape /\ Owns /\ Place /\ pc = "osend" /\ op.state = "created" /\ at \in Handles
  BY DEF Base, Core, OpSend, Place, Shape
<1>1. World /\ UNCHANGED <<request_id, pos, seeks, written>>
  BY DEF OpSend, World, worldVars, bookVars, serverVars
<1>2. CASE OsAll
  <2>1. op' \in OpSet /\ op'.state = "sent" /\ op'.id = op.id
    BY <1>0, <1>2 DEF OsAll, Shape, OpSet
  <2>2. OsRequest \in RequestSet /\ OsRequest.id = op.id /\ OsRequest.kind = OpKind
    <3>1. OpKind \in AllScenes
      BY <1>0, OpKinds DEF Shape, AllScenes
    <3> QED
      BY <1>0, <3>1 DEF OsRequest, RequestSet, Shape, OpSet
  <2>3. \A r \in pending' : r \in RequestSet
    BY <1>0, <1>2, <2>2 DEF OsAll, Shape
  <2>4. Shape'
    BY <1>0, <1>1, <1>2, <2>1, <2>3 DEF OsAll, Shape, World, Stay
  <2>5. Place'
    BY <1>2, <2>1 DEF OsAll, Place, Stay
  <2>6. Lists' = Lists
    BY <1>2 DEF OsAll, Lists
  <2>7. Owned(Lists, request_id, zombies, pending', packets, written, op')
    <3> DEFINE q == op'
               X == pending'
    <3>1. q.state = "sent" /\ q.id = op.id /\ (X = pending \/ X = pending \cup {OsRequest})
      BY <1>2, <2>1 DEF OsAll
    <3> HIDE DEF q, X
    <3>2. Owned(Lists, request_id, zombies, X, packets, written, q)
      BY <1>0, <2>2, <3>1, OpOut DEF Owns
    <3> QED
      BY <3>2 DEF q, X
  <2>8. Owned(Lists', request_id', zombies', pending', packets', written', op')
    BY <1>1, <1>2, <2>6, <2>7 DEF OsAll
  <2>9. Owns'
    BY <1>1, <2>8, Carry DEF Owns, World
  <2> QED
    BY <2>4, <2>5, <2>9 DEF Base, Core
<1>3. CASE OsAgain
  <2>1. Shape' /\ Place'
    BY <1>0, <1>1, <1>3, Backs DEF OsAgain, Shape, World, Return
  <2>2. Lists' = Lists
    BY <1>3 DEF OsAgain, Lists
  <2>3. Owns'
    BY <1>0, <1>1, <1>3, <2>1, <2>2, Keep DEF OsAgain
  <2> QED
    BY <2>1, <2>3 DEF Base, Core
<1>4. CASE OsPart
  <2>1. Back /\ op' = IdleOp /\ pending' = pending
    BY <1>4 DEF OsPart, Return
  <2>2. CASE Drop(at, packets)
    <3>1. Shape' /\ Place'
      BY <1>0, <1>1, <2>1, <2>2, Backs, DropCases, IdleTyped DEF Shape, World, Becomes
    <3>2. Owns'
      BY <1>0, <1>1, <2>1, <2>2, <3>1, DropOwns
    <3> QED
      BY <3>1, <3>2 DEF Base, Core
  <2>3. CASE UNCHANGED <<packets, zombies, file, read_state>>
    <3>1. Shape' /\ Place'
      BY <1>0, <1>1, <2>1, <2>3, Backs, IdleTyped DEF Shape, World
    <3>2. Lists' = Lists
      BY <2>3 DEF Lists
    <3>3. Owns'
      BY <1>0, <1>1, <2>1, <2>3, <3>1, <3>2, Keep, IdleTyped
    <3> QED
      BY <3>1, <3>3 DEF Base, Core
  <2> QED
    BY <1>4, <2>2, <2>3 DEF OsPart
<1> QED
  BY <1>2, <1>3, <1>4, OpSendCases

OwMore == PacketRead /\ Stay("owait") /\ UNCHANGED <<op, names, file, read_state>>

OwBack == /\ Return /\ UNCHANGED <<packets, zombies, pending, written, cursor, names, file, read_state>>
          /\ op' = op \/ (mood = "odd" /\ op' = IdleOp)

OwAnswer(p) == /\ p \in packets /\ p.id = op.id /\ p.type \in K.replies /\ OpAnswer(p)
               /\ UNCHANGED <<pending, written, cursor>>

LEMMA OpWaitCases ==
  ASSUME OpWait
  PROVE  OwMore \/ OwBack \/ \E p : OwAnswer(p)
<1> DEFINE came == Answers(op.id, K.replies)
<1>1. CASE RequireMore(op.id, K.replies) /\ Stay("owait") /\ UNCHANGED <<op, names, file, read_state>>
  BY <1>1 DEF OwMore, RequireMore
<1>2. CASE PacketReadAgain /\ Return /\ UNCHANGED <<op, names, file, read_state>>
  BY <1>2 DEF OwBack, PacketReadAgain, recvVars, serverVars
<1>3. CASE mood = "odd" /\ op' = IdleOp /\ Return /\ UNCHANGED <<recvVars, names, file, read_state>>
  BY <1>3 DEF OwBack, recvVars, serverVars
<1>4. ASSUME NEW p \in came, OpAnswer(p), UNCHANGED <<pending, serverVars>>
      PROVE  OwAnswer(p)
  BY <1>4 DEF OwAnswer, Answers, serverVars
<1> QED
  BY <1>1, <1>2, <1>3, <1>4 DEF OpWait

LEMMA OpWaitBase ==
  ASSUME Base, OpWait
  PROVE  Core'
<1>0. Shape /\ Owns /\ Place /\ pc = "owait" /\ op.state = "sent" /\ at \in Handles
  BY DEF Base, Core, OpWait, Place, Shape
<1>1. World /\ UNCHANGED <<request_id, pos, seeks>>
  BY DEF OpWait, World, worldVars
<1>2. CASE OwMore
  <2>1. Owns' /\ \A r \in pending' : r \in RequestSet
    BY <1>0, <1>1, <1>2, ReceiveOwns DEF OwMore
  <2>2. Shape' /\ Place'
    BY <1>0, <1>1, <1>2, <2>1 DEF OwMore, Shape, Place, World, Stay
  <2> QED
    BY <2>1, <2>2 DEF Base, Core
<1>3. CASE OwBack
  <2>1. op' \in OpSet /\ (op' = op \/ op'.state = "idle")
    BY <1>0, <1>3, IdleTyped DEF OwBack, Shape
  <2>2. Shape' /\ Place'
    BY <1>0, <1>1, <1>3, <2>1, Backs DEF OwBack, Shape, World, Return
  <2>3. Lists' = Lists
    BY <1>3 DEF OwBack, Lists
  <2>4. Owns'
    BY <1>0, <1>1, <1>3, <2>1, <2>2, <2>3, Keep DEF OwBack
  <2> QED
    BY <2>2, <2>4 DEF Base, Core
<1>4. ASSUME NEW p, OwAnswer(p) PROVE Core'
  <2>0. UNCHANGED <<pending, written>> /\ OpAnswer(p) /\ packets \ {p} \subseteq packets
    BY <1>4 DEF OwAnswer
  <2>1. CASE OpKind = "close"
    <3>1. Drop(at, packets \ {p}) /\ op' = IdleOp /\ Back
      BY <2>0, <2>1 DEF OpAnswer, Return
    <3>2. Shape' /\ Place'
      BY <1>0, <1>1, <2>0, <3>1, Backs, DropCases, IdleTyped DEF Shape, World, Becomes
    <3>3. Owns'
      BY <1>0, <1>1, <2>0, <3>1, <3>2, DropOwns
    <3> QED
      BY <3>2, <3>3 DEF Base, Core
  <2>2. CASE OpKind # "close"
    <3>1. /\ packets' = packets \ {p} /\ UNCHANGED <<zombies, file, read_state>>
          /\ \/ Return /\ op' = op
             \/ Stay("owait") /\ op' = op
             \/ Return /\ op' = IdleOp
      BY <2>0, <2>2 DEF OpAnswer
    <3>2. op' \in OpSet /\ (op' = op \/ op'.state = "idle")
      BY <1>0, <3>1, IdleTyped DEF Shape
    <3>3. Shape' /\ Place'
      <4>1. CASE Return
        BY <1>0, <1>1, <2>0, <3>1, <3>2, <4>1, Backs DEF Shape, World, Return
      <4>2. CASE Stay("owait") /\ op' = op
        BY <1>0, <1>1, <2>0, <3>1, <4>2 DEF Shape, World, Stay, Place
      <4> QED
        BY <3>1, <4>1, <4>2
    <3>4. Lists' = Lists
      BY <3>1 DEF Lists
    <3>5. packets' \subseteq packets
      BY <3>1
    <3>6. Owns'
      BY <1>0, <1>1, <2>0, <3>1, <3>2, <3>3, <3>4, <3>5, Keep
    <3> QED
      BY <3>3, <3>6 DEF Base, Core
  <2> QED
    BY <2>1, <2>2
<1> QED
  BY <1>2, <1>3, <1>4, OpWaitCases

(* The steps that leave the files and what is asked for alone.              *)
Apart == /\ World /\ UNCHANGED <<file, request_id, at, size, buf, pos, seeks, pc, pending, written>>
         /\ zombies' \subseteq zombies /\ packets' \subseteq packets
         /\ op' = op \/ (pc = "app" /\ op' = IdleOp)

LEMMA Aparts ==
  ASSUME ReaddirPop \/ SftpInit \/ SftpInitError \/ Shutdown \/ UNCHANGED vars
  PROVE  Apart
<1>1. CASE ReaddirPop
  BY <1>1 DEF ReaddirPop, Apart, World, worldVars, sftpVars, stateVars, callVars, wireVars, serverVars
<1>2. CASE SftpInit
  BY <1>2 DEF SftpInit, Apart, World, worldVars, callVars, appVars, bookVars, wireVars, serverVars
<1>3. CASE SftpInitError
  BY <1>3 DEF SftpInitError, Apart, World, worldVars, sftpVars, callVars, appVars, bookVars, wireVars,
              serverVars
<1>4. CASE Shutdown
  BY <1>4 DEF Shutdown, Apart, World, worldVars, callVars, appVars, bookVars, wireVars, serverVars
<1>5. CASE UNCHANGED vars
  BY <1>5 DEF vars, Apart, World, worldVars, sftpVars, stateVars, callVars, appVars, bookVars,
              wireVars, serverVars
<1> QED
  BY <1>1, <1>2, <1>3, <1>4, <1>5

LEMMA ApartBase ==
  ASSUME Base, Apart
  PROVE  Core'
<1>0. Shape /\ Owns /\ Place
  BY DEF Base, Core
<1>1. op' \in OpSet /\ (op' = op \/ op'.state = "idle")
  BY <1>0, IdleTyped DEF Apart, Shape
<1>2. Shape'
  BY <1>0, <1>1 DEF Apart, Shape, World
<1>3. Place'
  BY <1>0 DEF Apart, Place, World
<1>4. Lists' = Lists
  BY DEF Apart, Lists
<1>5. Owns'
  BY <1>0, <1>1, <1>2, <1>4, Keep DEF Apart
<1> QED
  BY <1>2, <1>3, <1>5 DEF Base, Core

LEMMA InitBase ==
  ASSUME Init
  PROVE  Core
<1>0. \A f \in Handles : Fresh.list = <<>>
  BY DEF Fresh
<1>1. \A f \in Handles : file[f].list = <<>>
  BY DEF Init, Fresh
<1>2. file \in [Handles -> FileSet]
  <2>0. <<>> \in Seq(Handles \X Int) /\ <<>> \in Seq(ChunkSet)
    OBVIOUS
  <2>1. \A x \in BOOLEAN : [Fresh EXCEPT !.open = x] \in FileSet
    <3> TAKE x \in BOOLEAN
    <3>1. Fresh \in FileSet
      <4> DEFINE data == <<>>
                 zero == 0
                 no == FALSE
                 yes == TRUE
      <4>2. /\ data \in Seq(Handles \X Int) /\ data \in Seq(ChunkSet) /\ no \in BOOLEAN /\ yes \in BOOLEAN
            /\ zero \in Nat /\ zero \in Int
        BY <2>0
      <4>3. Fresh = [open |-> yes, offset |-> zero, offset_sent |-> zero, acked |-> zero, data |-> data,
                     eof |-> no, list |-> data]
        BY DEF Fresh
      <4> HIDE DEF data, zero, no, yes
      <4> QED
        BY <4>2, <4>3 DEF FileSet
    <3> QED
      BY <3>1 DEF FileSet
  <2>2. \A f \in Handles : file[f] \in FileSet
    BY <2>1 DEF Init
  <2> QED
    BY <2>2 DEF Init
<1>3. Shape
  BY <1>2, SftpAssumption, IdleTyped DEF Init, Shape
<1>4. Place
  BY DEF Init, Place
<1>5. \A f \in Handles : Lists[f] = <<>>
  BY <1>1 DEF Lists
<1>6. /\ request_id = 1 /\ packets = {} /\ zombies = {} /\ pending = {} /\ op.state = "idle"
  BY IdleTyped DEF Init
<1>7. Owns
  BY <1>5, <1>6 DEF Owns, Owned, Distinct, Matched, OpMatched
<1> QED
  BY <1>3, <1>4, <1>7 DEF Base, Core

LEMMA SizeTyped ==
  ASSUME NEW b, b \in (IF scene = "read" THEN Buffers ELSE {1}) \/ b \in Buffers
  PROVE  b \in Nat \ {0}
  BY SftpAssumption

LEMMA NextBase ==
  ASSUME Base, [Next]_vars
  PROVE  Core'
<1>1. ASSUME NEW f \in Handles, ReadSome(f) PROVE Core'
  BY <1>1, CallReadBase, SizeTyped DEF ReadSome
<1>2. ASSUME NEW f \in Handles, NEW n \in Buffers, CallWrite(f, n) PROVE Core'
  BY <1>2, CallWriteBase, SizeTyped
<1>3. ASSUME NEW f \in Handles, NEW o \in {0, 1}, Seek(f, o) PROVE Core'
  BY <1>3, SeekBase
<1>4. ASSUME NEW f \in Handles, CallOp(f) PROVE Core'
  BY <1>4, CallOpBase
<1>5. CASE ReaddirPop \/ SftpInit \/ SftpInitError \/ Shutdown \/ UNCHANGED vars
  BY <1>5, Aparts, ApartBase
<1> QED
  BY <1>1, <1>2, <1>3, <1>4, <1>5, ReadSendBase, ReadRecvBase, ReadReturnBase, WriteSendBase,
     WriteAckBase, OpSendBase, OpWaitBase DEF Next

(* Nothing but the call whose request is half sent goes on with it.         *)
LEMMA MineNone ==
  ASSUME ~MixCalls, stuck' = {}, pc' # "app" => init_state' = "up", pc' = "osend" => op'.f = at',
         pc' = "wsend" => write_state' = "idle"
  PROVE  Mine'
  BY DEF Mine

LEMMA HalfKeep ==
  ASSUME World, NEW f, file'[f].list = file[f].list, stuck' = stuck, Half(f)
  PROVE  Half(f)'
<1>1. Doing' = Doing /\ mood' = mood
  BY DEF World, Doing
<1> QED
  BY <1>1 DEF Half

LEMMA OpRestKeep ==
  ASSUME World, op' = op, half' = half
  PROVE  OpKind' = OpKind /\ OpRest' = OpRest /\ mood' = mood
<1>1. OpKind' = OpKind /\ mood' = mood
  BY DEF World, OpKind
<1>2. K' = K
  BY <1>1 DEF K
<1> QED
  BY <1>1, <1>2 DEF OpRest

LEMMA HalfOpKeep ==
  ASSUME World, op' = op, half' = half, stuck' = stuck, HalfOp
  PROVE  HalfOp'
<1>1. OpKind' = OpKind /\ OpRest' = OpRest /\ mood' = mood
  BY OpRestKeep
<1> QED
  BY <1>1 DEF HalfOp

LEMMA HalfJoin ==
  ASSUME NEW l \in Seq(ChunkSet), NEW new \in Seq(ChunkSet), NEW f, NEW k, NEW m, NEW Q, HalfIn(l, f, k, m, Q)
  PROVE  HalfIn(l \o new, f, k, m, Q)
<1> DEFINE n == l \o new
<1>1. PICK i \in 1..Len(l) :
          /\ l[i].sent # 2 /\ \A j \in 1..(i - 1) : l[j].sent = 2
          /\ Q \subseteq PacketsIn(m, Request(k, f, l[i]), l[i].sent = 1)
  BY DEF HalfIn
<1>2. Len(l) \in Nat /\ Len(new) \in Nat /\ Len(n) = Len(l) + Len(new) /\ \A j \in 1..Len(l) : n[j] = l[j]
  OBVIOUS
<1> HIDE DEF n
<1>3. i \in 1..Len(n) /\ n[i] = l[i] /\ \A j \in 1..(i - 1) : j \in 1..Len(l)
  BY <1>2
<1>4. n[i].sent # 2 /\ \A j \in 1..(i - 1) : n[j].sent = 2
  BY <1>1, <1>2, <1>3
<1>5. Q \subseteq PacketsIn(m, Request(k, f, n[i]), n[i].sent = 1)
  BY <1>1, <1>3
<1>6. HalfIn(n, f, k, m, Q)
  BY <1>3, <1>4, <1>5 DEF HalfIn
<1> QED
  BY <1>6 DEF n

LEMMA HalfGrow ==
  ASSUME World, NEW f, file[f].list \in Seq(ChunkSet), NEW new \in Seq(ChunkSet),
         file'[f].list = file[f].list \o new, stuck' = stuck, Half(f)
  PROVE  Half(f)'
<1>1. Doing' = Doing /\ mood' = mood
  BY DEF World, Doing
<1>2. HalfIn(file[f].list \o new, f, Doing, mood, stuck)
  BY HalfJoin DEF Half
<1>3. HalfIn(file'[f].list, f, Doing', mood', stuck')
  BY <1>1, <1>2
<1> QED
  BY <1>3 DEF Half

LEMMA HalfOf ==
  ASSUME NEW f, Half(f), NEW t \in stuck
  PROVE  t.r.f = f /\ t.r.kind = Doing
<1> DEFINE l == file[f].list
<1>1. PICK i \in 1..Len(l) : stuck \subseteq PacketsIn(mood, Request(Doing, f, l[i]), l[i].sent = 1)
  BY DEF Half, HalfIn
<1> DEFINE r == Request(Doing, f, l[i])
           rest == (l[i].sent = 1)
<1>2. r.f = f /\ r.kind = Doing /\ rest \in BOOLEAN /\ t \in PacketsIn(mood, r, rest)
  BY <1>1 DEF Request
<1> HIDE DEF r, rest
<1> QED
  BY <1>2, PacketIs

LEMMA HalfOpOf ==
  ASSUME HalfOp, NEW t \in stuck
  PROVE  t.r.f = op.f /\ t.r.kind = OpKind
<1> DEFINE r == [id |-> op.id, kind |-> OpKind, f |-> op.f, offset |-> 0, len |-> 0, from |-> 0]
<1>1. r.f = op.f /\ r.kind = OpKind /\ OpRest \in BOOLEAN
  BY DEF OpRest
<1>2. t \in PacketsIn(mood, r, OpRest)
  BY DEF HalfOp, HalfOpIn
<1> HIDE DEF r
<1> QED
  BY <1>1, <1>2, PacketIs

LEMMA MineCases ==
  ASSUME Base, stuck # {}, init_state = "up"
  PROVE  OfOp \/ \E f \in Handles : OfFile(f)
  BY DEF Base, Mine

(* A call that may send is the one whose request is half sent, if one is.   *)
LEMMA SendsFile ==
  ASSUME Base, stuck # {}, init_state = "up", NEW f, NEW kind, MaySend(f, kind), kind = Doing
  PROVE  OfFile(f)
<1>1. PICK t \in stuck : t.r.f = f /\ t.r.kind = Doing
  BY DEF Base, Mine, MaySend
<1>2. OpKind # Doing
  BY OpKinds DEF Base, Core, Shape
<1>3. ~OfOp
  BY <1>1, <1>2, HalfOpOf DEF OfOp
<1>4. PICK g \in Handles : OfFile(g)
  BY <1>3, MineCases
<1>5. g = f
  BY <1>1, <1>4, HalfOf DEF OfFile
<1> QED
  BY <1>4, <1>5

LEMMA SendsOp ==
  ASSUME Base, stuck # {}, init_state = "up", NEW f, MaySend(f, OpKind)
  PROVE  OfOp /\ op.f = f
<1>1. PICK t \in stuck : t.r.f = f /\ t.r.kind = OpKind
  BY DEF Base, Mine, MaySend
<1>2. OpKind # Doing
  BY OpKinds DEF Base, Core, Shape
<1>3. \A g \in Handles : ~OfFile(g)
  BY <1>1, <1>2, HalfOf DEF OfFile
<1>4. OfOp
  BY <1>3, MineCases
<1> QED
  BY <1>1, <1>4, HalfOpOf DEF OfOp

LEMMA CallReadMine ==
  ASSUME Base, NEW f \in Handles, NEW b \in Nat \ {0}, CallRead(f, b)
  PROVE  Mine'
<1>0. /\ World /\ pc = "app" /\ init_state = "up" /\ init_state' = "up" /\ stuck' = stuck /\ at' = f
      /\ scene # "write" /\ Doing = "read" /\ MaySend(f, "read") /\ ~MixCalls
  BY DEF CallRead, World, worldVars, wireVars, Doing, Base, Mine
<1>1. /\ pc' \in {"rsend", "rrecv", "rreturn"}
      /\ read_state = "sent" => pc' = "rsend" /\ file' = file
  BY DEF CallRead, ReadLeft, ReadBuild
<1>2. CASE stuck = {}
  BY <1>0, <1>1, <1>2, MineNone
<1>3. CASE stuck # {}
  <2>1. OfFile(f)
    BY <1>0, <1>3, SendsFile
  <2>2. pc' = "rsend" /\ file' = file
    BY <1>0, <1>1, <2>1 DEF OfFile
  <2>3. Half(f)'
    BY <1>0, <2>1, <2>2, HalfKeep DEF OfFile
  <2>4. OfFile(f)'
    BY <1>0, <2>2, <2>3 DEF OfFile
  <2> QED
    BY <1>0, <2>2, <2>4 DEF Mine, Sending
<1> QED
  BY <1>2, <1>3

LEMMA CallWriteMine ==
  ASSUME Base, NEW f \in Handles, NEW b \in Nat, CallWrite(f, b)
  PROVE  Mine'
<1>0. /\ World /\ pc = "app" /\ init_state = "up" /\ init_state' = "up" /\ stuck' = stuck /\ at' = f
      /\ scene = "write" /\ Doing = "write" /\ MaySend(f, "write") /\ ~MixCalls /\ write_state' = "idle"
  BY DEF CallWrite, World, worldVars, wireVars, Doing, Base, Mine
<1>1. Shape
  BY DEF Base, Core
<1>2. pc' \in {"wsend", "wack"}
  BY DEF CallWrite
<1>3. CASE stuck = {}
  BY <1>0, <1>2, <1>3, MineNone
<1>4. CASE stuck # {}
  <2>1. OfFile(f)
    BY <1>0, <1>4, SendsFile
  <2>2. PICK new : WBuild(f, b, new)
    BY <1>0, <1>1, <2>1, CallWriteCases DEF WResume, OfFile
  <2>3. pc' = "wsend" /\ file'[f].list = file[f].list \o new /\ new \in Seq(ChunkSet)
    BY <2>2 DEF WBuild, Becomes, Built, F
  <2>4. file[f].list \in Seq(ChunkSet)
    BY <1>1, FileTyped DEF Shape
  <2>5. Half(f)'
    BY <1>0, <2>1, <2>3, <2>4, HalfGrow DEF OfFile
  <2>6. OfFile(f)'
    BY <1>0, <2>3, <2>5 DEF OfFile
  <2> QED
    BY <1>0, <2>3, <2>6 DEF Mine, Sending
<1> QED
  BY <1>3, <1>4

LEMMA SeekMine ==
  ASSUME Base, NEW f \in Handles, NEW o \in Int, Seek(f, o)
  PROVE  Mine'
<1>0. /\ World /\ pc = "app" /\ pc' = "app" /\ init_state = "up" /\ init_state' = "up" /\ stuck' = stuck
      /\ ~MixCalls /\ op' = op /\ half' = half
  BY DEF Seek, World, worldVars, wireVars, callVars, Base, Mine
<1>1. CASE stuck = {}
  BY <1>0, <1>1, MineNone
<1>2. CASE stuck # {}
  <2>1. PICK t \in stuck : t.r.kind = "close"
    BY <1>0, <1>2 DEF Seek
  <2>2. Doing # "close"
    BY DEF Doing
  <2>3. \A g \in Handles : ~OfFile(g)
    BY <2>1, <2>2, HalfOf DEF OfFile
  <2>4. HalfOp
    BY <1>0, <1>2, <2>3, MineCases DEF OfOp
  <2>5. HalfOp'
    BY <1>0, <2>4, HalfOpKeep
  <2> QED
    BY <1>0, <2>5 DEF Mine, Sending, OfOp
<1> QED
  BY <1>1, <1>2

LEMMA CallOpMine ==
  ASSUME Base, NEW f \in Handles, CallOp(f)
  PROVE  Mine'
<1>0. /\ World /\ pc = "app" /\ init_state = "up" /\ init_state' = "up" /\ stuck' = stuck /\ at' = f
      /\ MaySend(f, OpKind) /\ ~MixCalls /\ half' = half
  BY DEF CallOp, World, worldVars, wireVars, Base, Mine
<1>1. /\ pc' \in {"osend", "owait"} /\ op'.f = f
      /\ op.state # "idle" => op' = op /\ (op.state = "created" => pc' = "osend")
  BY DEF CallOp
<1>2. CASE stuck = {}
  BY <1>0, <1>1, <1>2, MineNone
<1>3. CASE stuck # {}
  <2>1. HalfOp
    BY <1>0, <1>3, SendsOp DEF OfOp
  <2>2. op' = op /\ pc' = "osend"
    BY <1>1, <2>1 DEF HalfOp, HalfOpIn
  <2>3. HalfOp'
    BY <1>0, <2>1, <2>2, HalfOpKeep
  <2> QED
    BY <1>0, <1>1, <2>2, <2>3 DEF Mine, Sending, OfOp
<1> QED
  BY <1>2, <1>3

LEMMA ChunkMine ==
  ASSUME Base, World, pc \in {"rsend", "wsend"}, Unsent(file[at].list) # {}, ReturnAgain, file' = file,
         scene # "write" => read_state' = "sent", scene = "write" => write_state' = "idle",
         init_state' = init_state,
         Write(Request(Doing, at, file[at].list[NextUnsent(file[at].list)]),
               file[at].list[NextUnsent(file[at].list)].sent = 1, "EAGAIN")
  PROVE  Mine'
<1>0. at \in Handles /\ init_state = "up" /\ pc' = "app" /\ ~MixCalls
  BY DEF Base, Core, Shape, Mine, ReturnAgain, Back
<1>1. PICK i : i = NextUnsent(file[at].list)
  OBVIOUS
<1> DEFINE r == Request(Doing, at, file[at].list[i])
           rest == (file[at].list[i].sent = 1)
<1>2. /\ stuck \subseteq PacketsIn(mood, r, rest)
      /\ i \in 1..Len(file[at].list) /\ file[at].list[i].sent # 2
      /\ \A j \in 1..(i - 1) : file[at].list[j].sent = 2
  BY <1>1, ChunkSame
<1>3. Write(r, rest, "EAGAIN")
  BY <1>1
<1>4. stuck' \subseteq PacketsIn(mood, r, rest)
  <2> HIDE DEF r, rest
  <2> QED
    BY <1>2, <1>3, AgainStuck
<1>5. Doing' = Doing /\ mood' = mood
  BY DEF World, Doing
<1>6. PICK g : g = at
  OBVIOUS
<1>7. Half(g)'
  <2>1. HalfIn(file[at].list, at, Doing, mood, stuck')
    BY <1>2, <1>4 DEF HalfIn
  <2>2. HalfIn(file'[g].list, g, Doing', mood', stuck')
    BY <1>5, <1>6, <2>1
  <2> QED
    BY <2>2 DEF Half
<1>8. OfFile(g)' /\ g \in Handles
  BY <1>0, <1>6, <1>7 DEF OfFile, World
<1> QED
  BY <1>0, <1>8 DEF Mine, Sending

LEMMA ReadSendMine ==
  ASSUME Base, ReadSend
  PROVE  Mine'
<1> DEFINE list == file[at].list
           i == NextUnsent(list)
<1>0. /\ World /\ pc = "rsend" /\ init_state = "up" /\ init_state' = "up" /\ ~MixCalls
      /\ scene # "write" /\ Doing = "read"
  BY DEF Base, Core, Mine, Place, ReadSend, Doing, World, worldVars
<1>1. CASE Unsent(list) = {} /\ Stay("rrecv") /\ UNCHANGED <<file, read_state, wireVars>>
  <2>1. stuck = {}
    <3>1. SUFFICES ASSUME stuck # {} PROVE FALSE
      OBVIOUS
    <3>2. PICK f \in Handles : OfFile(f)
      BY <1>0, <3>1, MineCases DEF OfOp
    <3>3. f = at
      BY <1>0, <3>2 DEF OfFile
    <3>4. PICK k \in 1..Len(list) : list[k].sent # 2
      BY <3>2, <3>3 DEF OfFile, Half, HalfIn
    <3>5. list \in Seq(ChunkSet) /\ list[k].sent \in {0, 1, 2} /\ DOMAIN list = 1..Len(list)
      BY <3>2, <3>3, <3>4, FileTyped, ChunkTyped DEF Base, Core, Shape
    <3>6. k \in Unsent(list)
      BY <3>4, <3>5 DEF Unsent
    <3> QED
      BY <1>1, <3>6
  <2> QED
    BY <1>0, <1>1, <2>1, MineNone DEF Stay, wireVars
<1>2. ASSUME Unsent(list) # {}, NEW rc \in WriteResults,
             Write(Request("read", at, list[i]), list[i].sent = 1, rc),
             \/ /\ rc = "EAGAIN" /\ ReturnAgain
                /\ read_state' = "sent"
                /\ UNCHANGED file
             \/ /\ rc = "all" /\ Stay("rsend")
                /\ file' = [file EXCEPT ![at].list[i].sent = 2]
                /\ UNCHANGED read_state
             \/ /\ rc = "part" /\ Stay(IF i = 1 THEN "rsend" ELSE "rrecv")
                /\ file' = [file EXCEPT ![at].list[i].sent = 1]
                /\ UNCHANGED read_state
      PROVE  Mine'
  <2>1. CASE rc = "EAGAIN"
    <3>1. ReturnAgain /\ read_state' = "sent" /\ file' = file
      BY <1>2, <2>1
    <3> QED
      BY <1>0, <1>2, <2>1, <3>1, ChunkMine
  <2>2. CASE rc # "EAGAIN"
    <3>1. stuck' = {}
      BY <1>2, <2>2, OutClears
    <3>2. pc' \in {"rsend", "rrecv"}
      <4> HIDE DEF i
      <4> QED
        BY <1>2, <2>2 DEF Stay
    <3> QED
      BY <1>0, <3>1, <3>2, MineNone
  <2> QED
    BY <2>1, <2>2
<1> QED
  BY <1>1, <1>2 DEF ReadSend

LEMMA WriteSendMine ==
  ASSUME Base, WriteSend
  PROVE  Mine'
<1> DEFINE list == file[at].list
           i == NextUnsent(list)
<1>0. /\ World /\ pc = "wsend" /\ init_state = "up" /\ init_state' = "up" /\ ~MixCalls
      /\ scene = "write" /\ Doing = "write" /\ write_state = "idle" /\ write_state' = "idle"
  BY DEF Base, Core, Mine, Place, WriteSend, Doing, World, worldVars, sftpVars
<1>1. CASE Unsent(list) = {} /\ Stay("wack") /\ UNCHANGED <<file, wireVars>>
  <2>1. stuck = {}
    <3>1. SUFFICES ASSUME stuck # {} PROVE FALSE
      OBVIOUS
    <3>2. PICK f \in Handles : OfFile(f)
      BY <1>0, <3>1, MineCases DEF OfOp
    <3>3. f = at
      BY <1>0, <3>2 DEF OfFile
    <3>4. PICK k \in 1..Len(list) : list[k].sent # 2
      BY <3>2, <3>3 DEF OfFile, Half, HalfIn
    <3>5. list \in Seq(ChunkSet) /\ list[k].sent \in {0, 1, 2} /\ DOMAIN list = 1..Len(list)
      BY <3>2, <3>3, <3>4, FileTyped, ChunkTyped DEF Base, Core, Shape
    <3>6. k \in Unsent(list)
      BY <3>4, <3>5 DEF Unsent
    <3> QED
      BY <1>1, <3>6
  <2> QED
    BY <1>0, <1>1, <2>1, MineNone DEF Stay, wireVars
<1>2. ASSUME Unsent(list) # {}, NEW rc \in WriteResults,
             Write(Request("write", at, list[i]), list[i].sent = 1, rc),
             \/ rc = "EAGAIN" /\ ReturnAgain /\ UNCHANGED file
             \/ /\ rc = "all" /\ Stay("wsend")
                /\ file' = [file EXCEPT ![at].list[i].sent = 2]
             \/ /\ rc = "part" /\ Stay("wack")
                /\ file' = [file EXCEPT ![at].list[i].sent = 1]
      PROVE  Mine'
  <2>1. CASE rc = "EAGAIN"
    <3>1. ReturnAgain /\ file' = file
      BY <1>2, <2>1
    <3> QED
      BY <1>0, <1>2, <2>1, <3>1, ChunkMine
  <2>2. CASE rc # "EAGAIN"
    <3>1. stuck' = {}
      BY <1>2, <2>2, OutClears
    <3>2. pc' \in {"wsend", "wack"}
      BY <1>2, <2>2 DEF Stay
    <3> QED
      BY <1>0, <3>1, <3>2, MineNone
  <2> QED
    BY <2>1, <2>2
<1> QED
  BY <1>1, <1>2 DEF WriteSend

LEMMA OpSendMine ==
  ASSUME Base, OpSend
  PROVE  Mine'
<1>0. /\ World /\ pc = "osend" /\ init_state = "up" /\ init_state' = "up" /\ ~MixCalls /\ op.f = at
      /\ op.state = "created"
  BY DEF Base, Core, Mine, Place, OpSend, World, worldVars
<1>1. PICK rc \in WriteResults :
          /\ Write(OsRequest, OpRest, rc)
          /\ rc = "all" => Stay("owait")
          /\ rc # "all" => Return
          /\ rc = "EAGAIN" => op' = op
  BY Zenon DEF OpSend, OsRequest, WriteResults
<1>2. CASE rc = "EAGAIN"
  <2>1. stuck \subseteq PacketsIn(mood, OsRequest, OpRest)
    <3>1. CASE stuck = {}
      BY <3>1
    <3>2. CASE stuck # {}
      <4>1. HalfOp
        BY <1>0, <3>2, MineCases DEF OfFile, OfOp
      <4> QED
        BY <1>0, <4>1 DEF HalfOp, HalfOpIn, OsRequest
    <3> QED
      BY <3>1, <3>2
  <2>2. stuck' \subseteq PacketsIn(mood, OsRequest, OpRest) /\ half' = half
    BY <1>1, <1>2, <2>1, AgainStuck, AgainKeeps
  <2>3. pc' = "app" /\ op' = op
    BY <1>1, <1>2 DEF Return, Back
  <2>4. OpKind' = OpKind /\ OpRest' = OpRest /\ mood' = mood
    BY <1>0, <2>2, <2>3, OpRestKeep
  <2>5. HalfOpIn(op, OpKind, OpRest, mood, stuck')
    BY <1>0, <2>2 DEF HalfOpIn, OsRequest
  <2>6. HalfOp'
    BY <2>3, <2>4, <2>5 DEF HalfOp
  <2> QED
    BY <1>0, <2>3, <2>6 DEF Mine, Sending, OfOp
<1>3. CASE rc # "EAGAIN"
  <2>1. stuck' = {}
    BY <1>1, <1>3, OutClears
  <2>2. pc' \in {"app", "owait"}
    BY <1>1 DEF Stay, Return, Back
  <2> QED
    BY <1>0, <2>1, <2>2, MineNone
<1> QED
  BY <1>2, <1>3

LEMMA ReceiveMine ==
  ASSUME Base, ReadRecv \/ ReadReturn \/ WriteAck \/ OpWait
  PROVE  Mine'
<1>0. stuck = {} /\ init_state = "up" /\ ~MixCalls
  BY DEF Base, Mine, Sending, ReadRecv, ReadReturn, WriteAck, OpWait
<1>1. stuck' = stuck /\ init_state' = init_state
  BY DEF ReadRecv, ReadReturn, WriteAck, OpWait, wireVars, stateVars
<1>2. pc' \notin {"osend", "wsend"}
  <2>1. CASE ReadRecv
    <3>1. pc = "rrecv"
      BY <2>1 DEF ReadRecv
    <3> QED
      BY <2>1, <3>1, ReadRecvCases DEF RrEnd, RrMore, RrAgain, RrBad, RrStatus, RrData, ReturnAgain, Back
  <2>2. CASE ReadReturn
    BY <2>2 DEF ReadReturn, Return, Back
  <2>3. CASE WriteAck
    BY <2>3 DEF WriteAck, Report, WriteFail, Return, ReturnAgain, Stay, Back
  <2>4. CASE OpWait
    BY <2>4, OpWaitCases DEF OwMore, OwBack, OwAnswer, OpAnswer, Stay, Return, Back
  <2> QED
    BY <2>1, <2>2, <2>3, <2>4
<1> QED
  BY <1>0, <1>1, <1>2, MineNone

LEMMA ApartMine ==
  ASSUME Base, ReaddirPop \/ SftpInit \/ SftpInitError \/ Shutdown \/ UNCHANGED vars
  PROVE  Mine'
<1>0. /\ World /\ UNCHANGED <<file, at, pc>> /\ ~MixCalls
  BY Aparts DEF Apart, Base, Mine
<1>1. stuck' = stuck /\ half' = half /\ read_state' = read_state /\ write_state' = write_state
  BY DEF ReaddirPop, SftpInit, SftpInitError, Shutdown, vars, sftpVars, wireVars
<1>2. CASE Shutdown
  BY <1>0, <1>1, <1>2 DEF Shutdown, Base, Mine
<1>3. CASE SftpInit \/ SftpInitError
  <2>2. init_state \notin {"up", "down"}
    BY <1>3 DEF SftpInit, SftpInitError, InitOrder, Range
  <2>3. stuck = {} /\ pc = "app"
    BY <2>2 DEF Base, Mine
  <2> QED
    BY <1>0, <1>1, <2>3, MineNone
<1>4. CASE ReaddirPop \/ UNCHANGED vars
  <2>1. op' = op /\ init_state' = init_state
    BY <1>4 DEF ReaddirPop, vars, stateVars
  <2>2. CASE stuck = {}
    BY <1>0, <1>1, <2>1, <2>2, MineNone DEF Base, Mine
  <2>3. CASE init_state # "up"
    BY <1>0, <1>1, <2>1, <2>3 DEF Base, Mine
  <2>4. ASSUME stuck # {}, init_state = "up", OfOp PROVE Mine'
    <3>1. HalfOp'
      BY <1>0, <1>1, <2>1, <2>4, HalfOpKeep DEF OfOp
    <3> QED
      BY <1>0, <1>1, <2>1, <2>4, <3>1 DEF Base, Mine, OfOp
  <2>5. ASSUME stuck # {}, init_state = "up", NEW f \in Handles, OfFile(f) PROVE Mine'
    <3>1. Half(f)'
      BY <1>0, <1>1, <2>5, HalfKeep DEF OfFile
    <3>2. OfFile(f)'
      BY <1>0, <1>1, <2>5, <3>1 DEF OfFile, World
    <3> QED
      BY <1>0, <1>1, <2>1, <2>5, <3>2 DEF Base, Mine
  <2> QED
    BY <2>2, <2>3, <2>4, <2>5, MineCases
<1> QED
  BY <1>2, <1>3, <1>4

LEMMA NextMine ==
  ASSUME Base, [Next]_vars
  PROVE  Mine'
<1>1. ASSUME NEW f \in Handles, ReadSome(f) PROVE Mine'
  BY <1>1, CallReadMine, SizeTyped DEF ReadSome
<1>2. ASSUME NEW f \in Handles, NEW n \in Buffers, CallWrite(f, n) PROVE Mine'
  BY <1>2, CallWriteMine, SizeTyped
<1>3. ASSUME NEW f \in Handles, NEW o \in {0, 1}, Seek(f, o) PROVE Mine'
  BY <1>3, SeekMine
<1>4. ASSUME NEW f \in Handles, CallOp(f) PROVE Mine'
  BY <1>4, CallOpMine
<1>5. CASE ReaddirPop \/ SftpInit \/ SftpInitError \/ Shutdown \/ UNCHANGED vars
  BY <1>5, ApartMine
<1>6. CASE ReadRecv \/ ReadReturn \/ WriteAck \/ OpWait
  BY <1>6, ReceiveMine
<1> QED
  BY <1>1, <1>2, <1>3, <1>4, <1>5, <1>6, ReadSendMine, WriteSendMine, OpSendMine DEF Next

LEMMA InitMine ==
  ASSUME ~MixCalls, Init
  PROVE  Mine
  BY DEF Init, Mine

(* Every request id that was given out belongs to one chunk of one handle,  *)
(* to the one request of another kind, or is a zombie; and what the server  *)
(* has or has answered under a chunk's id is that chunk's request or an     *)
(* answer to it.  sftp_packet_require() therefore hands a caller nothing    *)
(* but the answer to what it asked.  A request that is half sent is the     *)
(* next one of the call that has to be made again, and the application      *)
(* makes that call before another that sends (~MixCalls): a packet that     *)
(* leaves is then never taken for another request.                          *)
THEOREM BaseHolds ==
  ASSUME ~MixCalls
  PROVE  Spec => []Base
<1>1. Init => Base
  BY InitBase, InitMine DEF Base
<1>2. Base /\ [Next]_vars => Base'
  BY NextBase, NextMine DEF Base
<1> QED
  BY <1>1, <1>2, PTL DEF Spec

LEMMA EmptyList ==
  /\ <<>> \in Seq(ChunkSet) /\ Total(<<>>) = 0 /\ Len(<<>>) = 0
  /\ \A a : Chain(<<>>, a)
<1>1. <<>> \in Seq(ChunkSet) /\ Len(<<>>) = 0
  OBVIOUS
<1>2. Total(<<>>) = 0
  BY <1>1, TotalNat
<1>3. \A a : Chain(<<>>, a)
  BY <1>1 DEF Chain
<1> QED
  BY <1>1, <1>2, <1>3

(* m are the chunks of l, and chunk i is sent as v says.                    *)
Like(l, m, i, v) ==
  /\ m \in Seq(ChunkSet) /\ Len(m) = Len(l)
  /\ \A j \in 1..Len(l) : /\ m[j].id = l[j].id /\ m[j].offset = l[j].offset
                          /\ m[j].len = l[j].len /\ m[j].from = l[j].from
                          /\ m[j].sent = IF j = i THEN v ELSE l[j].sent

LEMMA LikeChain ==
  ASSUME NEW l \in Seq(ChunkSet), NEW m, NEW i, NEW v, Like(l, m, i, v)
  PROVE  /\ Total(m) = Total(l)
         /\ \A a \in Int : Chain(l, a) => Chain(m, a)
         /\ (m = <<>>) <=> (l = <<>>)
<1>1. m \in Seq(ChunkSet) /\ Len(m) = Len(l) /\ Len(l) \in Nat
  BY ChunkLen DEF Like
<1>2. Total(m) = Total(l)
  BY <1>1, TotalSame DEF Like
<1>3. ASSUME NEW a \in Int, Chain(l, a) PROVE Chain(m, a)
  <2>1. ASSUME NEW j \in 1..Len(m), j # 1 PROVE j \in 1..Len(l) /\ j - 1 \in 1..Len(l)
    BY <1>1, <2>1
  <2>2. ASSUME NEW j \in 1..Len(m)
        PROVE  m[j].offset = IF j = 1 THEN a ELSE m[j - 1].offset + m[j - 1].len
    <3>1. CASE j = 1
      BY <1>1, <1>3, <3>1 DEF Like, Chain
    <3>2. CASE j # 1
      BY <1>1, <1>3, <2>1, <3>2 DEF Like, Chain
    <3> QED
      BY <3>1, <3>2
  <2> QED
    BY <2>2 DEF Chain
<1>4. (m = <<>>) <=> (l = <<>>)
  BY <1>1
<1> QED
  BY <1>2, <1>3, <1>4

(* Chunk i of file f is sent as v says, and nothing else changes in a file. *)
SentFile(f, i, v) ==
  /\ i \in 1..Len(F(f).list) /\ v \in {1, 2}
  /\ Becomes(f, F(f).open, F(f).offset, F(f).offset_sent, F(f).acked, F(f).data, F(f).eof, file'[f].list)
  /\ Like(F(f).list, file'[f].list, i, v)

LEMMA SentIs ==
  ASSUME Shape, NEW f \in Handles, NEW i \in 1..Len(file[f].list), NEW v \in {1, 2},
         file' = [file EXCEPT ![f].list[i].sent = v]
  PROVE  SentFile(f, i, v)
<1>1. /\ Becomes(f, F(f).open, F(f).offset, F(f).offset_sent, F(f).acked, F(f).data, F(f).eof,
                  file'[f].list)
      /\ Marked(Lists, Lists', f, i, v) /\ file'[f].list \in Seq(ChunkSet)
  BY SendFile, ZenonT(60) DEF Becomes, F
<1>2. Lists[f] = F(f).list /\ Lists'[f] = file'[f].list
  BY DEF Lists, F
<1> DEFINE l == F(f).list
           m == file'[f].list
<1>3. Len(m) = Len(l) /\ i \in 1..Len(l)
  BY <1>1, <1>2 DEF Marked, F
<1>4. ASSUME NEW j \in 1..Len(l)
      PROVE  /\ m[j].id = l[j].id /\ m[j].offset = l[j].offset
             /\ m[j].len = l[j].len /\ m[j].from = l[j].from
             /\ m[j].sent = IF j = i THEN v ELSE l[j].sent
  <2>1. CASE j = i
    BY <1>1, <1>2, <2>1 DEF Marked
  <2>2. CASE j # i
    <3>1. m[j] = l[j]
      BY <1>1, <1>2, <2>2 DEF Marked
    <3> HIDE DEF l, m
    <3> QED
      BY <2>2, <3>1
  <2> QED
    BY <2>1, <2>2
<1> HIDE DEF l, m
<1>5. Like(l, m, i, v)
  BY <1>1, <1>3, <1>4 DEF Like, m
<1> QED
  BY <1>1, <1>3, <1>5 DEF SentFile, l, m

(* What is handed to the channel.                                           *)
Passed(r, v) ==
  /\ v = 1 => mood = "tight" /\ pending' = pending
  /\ pending' = pending \/ pending' = pending \cup {r}
  /\ mood = "plain" /\ half = 0 /\ ~garbled =>
       v = 2 /\ pending' = pending \cup {r} /\ half' = 0 /\ ~garbled'

LEMMA Passes ==
  ASSUME NEW r, NEW rest, NEW rc, Goes(r, rest, rc),
         NEW v, (rc = "all" /\ v = 2) \/ (rc = "part" /\ v = 1)
  PROVE  Passed(r, v)
<1>1. CASE rc = "all"
  <2>1. /\ v = 2 /\ half' = 0
        /\ pending' = pending \/ pending' = pending \cup {r}
    BY <1>1 DEF Goes
  <2>2. ASSUME mood = "plain", half = 0, ~garbled PROVE pending' = pending \cup {r} /\ ~garbled'
    BY <1>1, <2>2 DEF Goes
  <2> QED
    BY <2>1, <2>2 DEF Passed
<1>2. CASE rc = "part"
  BY <1>2 DEF Goes, Passed
<1> QED
  BY <1>1, <1>2

SendOut(i, v) ==
  /\ SentFile(at, i, v) /\ F(at).list[i].sent < 2
  /\ \A j \in 1..Len(F(at).list) : j < i => F(at).list[j].sent = 2
  /\ Passed(Request(Doing, at, F(at).list[i]), v)

LEMMA SendsOut ==
  ASSUME Shape, Unsent(F(at).list) # {}, NEW rc, NEW v \in {1, 2}, NEW i, i = NextUnsent(F(at).list),
         (rc = "all" /\ v = 2) \/ (rc = "part" /\ v = 1),
         file' = [file EXCEPT ![at].list[i].sent = v],
         Goes(Request(Doing, at, F(at).list[i]), F(at).list[i].sent = 1, rc)
  PROVE  SendOut(i, v)
<1>0. at \in Handles /\ F(at).list \in Seq(ChunkSet)
  BY FileTyped DEF Shape, F
<1>1. /\ i \in 1..Len(F(at).list) /\ F(at).list[i].sent < 2
      /\ \A j \in 1..Len(F(at).list) : j < i => F(at).list[j].sent = 2
  BY <1>0, FirstUnsent
<1>2. SentFile(at, i, v)
  BY <1>0, <1>1, SentIs DEF F
<1> DEFINE rest == F(at).list[i].sent = 1
           r == Request(Doing, at, F(at).list[i])
<1>3. Goes(r, rest, rc)
  OBVIOUS
<1>4. Passed(r, v)
  <2> HIDE DEF r, rest
  <2> QED
    BY <1>3, Passes
<1> QED
  BY <1>1, <1>2, <1>4 DEF SendOut

RsDone == Unsent(F(at).list) = {} /\ Stay("rrecv") /\ UNCHANGED <<file, read_state, half, garbled, pending>>
RsAgain == /\ Unsent(F(at).list) # {} /\ ReturnAgain /\ read_state' = "sent"
           /\ UNCHANGED <<file, half, garbled, pending>>
RsOut(i, v) == /\ SendOut(i, v) /\ UNCHANGED <<read_state, at, size, buf, owed>>
               /\ pc' = IF v = 1 /\ i # 1 THEN "rrecv" ELSE "rsend"

LEMMA ReadSendCases ==
  ASSUME Base, ReadSend
  PROVE  RsDone \/ RsAgain \/ \E i, v : RsOut(i, v)
<1>0. Shape /\ scene # "write" /\ Doing = "read" /\ pc = "rsend"
  BY DEF Base, Core, Shape, Place, ReadSend, Doing
<1> DEFINE list == F(at).list
           i == NextUnsent(list)
<1>1. CASE Unsent(list) = {} /\ Stay("rrecv") /\ UNCHANGED <<file, read_state, wireVars>>
  BY <1>1 DEF RsDone, wireVars
<1>2. ASSUME Unsent(list) # {}, NEW rc \in WriteResults,
             Write(Request("read", at, list[i]), list[i].sent = 1, rc),
             \/ /\ rc = "EAGAIN" /\ ReturnAgain
                /\ read_state' = "sent"
                /\ UNCHANGED file
             \/ /\ rc = "all" /\ Stay("rsend")
                /\ file' = [file EXCEPT ![at].list[i].sent = 2]
                /\ UNCHANGED read_state
             \/ /\ rc = "part" /\ Stay(IF i = 1 THEN "rsend" ELSE "rrecv")
                /\ file' = [file EXCEPT ![at].list[i].sent = 1]
                /\ UNCHANGED read_state
      PROVE  RsDone \/ RsAgain \/ \E j, v : RsOut(j, v)
  <2>1. CASE rc = "EAGAIN" /\ ReturnAgain /\ read_state' = "sent" /\ UNCHANGED file
    <3>1. UNCHANGED <<half, garbled, pending>>
      BY <1>2, <2>1, AgainKeeps
    <3> QED
      BY <1>2, <2>1, <3>1 DEF RsAgain
  <2>2. Goes(Request(Doing, at, list[i]), list[i].sent = 1, rc) /\ i = NextUnsent(list)
    BY <1>0, <1>2, ChunkGoes DEF F
  <2> HIDE DEF i
  <2>3. CASE /\ rc = "all" /\ Stay("rsend")
             /\ file' = [file EXCEPT ![at].list[i].sent = 2]
             /\ UNCHANGED read_state
    <3>1. SendOut(i, 2)
      BY <1>0, <1>2, <2>2, <2>3, SendsOut
    <3>2. RsOut(i, 2)
      BY <2>3, <3>1 DEF RsOut, Stay
    <3> QED
      BY <3>2
  <2>4. CASE /\ rc = "part" /\ Stay(IF i = 1 THEN "rsend" ELSE "rrecv")
             /\ file' = [file EXCEPT ![at].list[i].sent = 1]
             /\ UNCHANGED read_state
    <3>1. SendOut(i, 1)
      BY <1>0, <1>2, <2>2, <2>4, SendsOut
    <3>2. RsOut(i, 1)
      BY <2>4, <3>1 DEF RsOut, Stay
    <3> QED
      BY <3>2
  <2> QED
    BY <1>2, <2>1, <2>3, <2>4
<1> QED
  BY <1>1, <1>2 DEF ReadSend, F

WsDone == Unsent(F(at).list) = {} /\ Stay("wack") /\ UNCHANGED <<file, half, garbled, pending>>
WsAgain == Unsent(F(at).list) # {} /\ ReturnAgain /\ UNCHANGED <<file, half, garbled, pending>>
WsOut(i, v) == /\ SendOut(i, v) /\ UNCHANGED <<at, size, buf, owed>>
               /\ pc' = IF v = 1 THEN "wack" ELSE "wsend"

LEMMA WriteSendCases ==
  ASSUME Base, WriteSend
  PROVE  WsDone \/ WsAgain \/ \E i, v : WsOut(i, v)
<1>0. Shape /\ scene = "write" /\ Doing = "write" /\ pc = "wsend"
  BY DEF Base, Core, Shape, Place, WriteSend, Doing
<1> DEFINE list == F(at).list
           i == NextUnsent(list)
<1>1. CASE Unsent(list) = {} /\ Stay("wack") /\ UNCHANGED <<file, wireVars>>
  BY <1>1 DEF WsDone, wireVars
<1>2. ASSUME Unsent(list) # {}, NEW rc \in WriteResults,
             Write(Request("write", at, list[i]), list[i].sent = 1, rc),
             \/ rc = "EAGAIN" /\ ReturnAgain /\ UNCHANGED file
             \/ /\ rc = "all" /\ Stay("wsend")
                /\ file' = [file EXCEPT ![at].list[i].sent = 2]
             \/ /\ rc = "part" /\ Stay("wack")
                /\ file' = [file EXCEPT ![at].list[i].sent = 1]
      PROVE  WsDone \/ WsAgain \/ \E j, v : WsOut(j, v)
  <2>1. CASE rc = "EAGAIN" /\ ReturnAgain /\ UNCHANGED file
    <3>1. UNCHANGED <<half, garbled, pending>>
      BY <1>2, <2>1, AgainKeeps
    <3> QED
      BY <1>2, <2>1, <3>1 DEF WsAgain
  <2>2. Goes(Request(Doing, at, list[i]), list[i].sent = 1, rc) /\ i = NextUnsent(list)
    BY <1>0, <1>2, ChunkGoes DEF F
  <2> HIDE DEF i
  <2>3. CASE /\ rc = "all" /\ Stay("wsend")
             /\ file' = [file EXCEPT ![at].list[i].sent = 2]
    <3>1. SendOut(i, 2)
      BY <1>0, <1>2, <2>2, <2>3, SendsOut
    <3>2. WsOut(i, 2)
      BY <2>3, <3>1 DEF WsOut, Stay
    <3> QED
      BY <3>2
  <2>4. CASE /\ rc = "part" /\ Stay("wack")
             /\ file' = [file EXCEPT ![at].list[i].sent = 1]
    <3>1. SendOut(i, 1)
      BY <1>0, <1>2, <2>2, <2>4, SendsOut
    <3>2. WsOut(i, 1)
      BY <2>4, <3>1 DEF WsOut, Stay
    <3> QED
      BY <3>2
  <2> QED
    BY <1>2, <2>1, <2>3, <2>4
<1> QED
  BY <1>1, <1>2 DEF WriteSend, F

-----------------------------------------------------------------------------
(* Writing: the chunks of a file follow one another from where the last     *)
(* acknowledged byte is, and each carries the bytes of its place.           *)

InPlace ==
  /\ \A w \in written : w[2] = w[3]
  /\ \A r \in pending : r.kind = "write" => r.from = r.offset

FileWrites(f, x, y, W, s) ==
  /\ x.offset = y + x.acked
  /\ ~x.open => x.list = <<>>
  /\ \A i \in 1..Len(x.list) : x.list[i].from = x.list[i].offset
  /\ x.open => Chain(x.list, x.offset) /\ x.offset_sent = x.offset + Total(x.list)
  /\ s = 0 => \A o \in 0..(x.offset - 1) : <<f, o, o>> \in W

Writing ==
  scene = "write" => /\ pc \notin {"rreturn", "error", "fault"}
                     /\ \A f \in Handles : FileWrites(f, file[f], pos[f], written, seeks)

Wrote == InPlace /\ Writing

LEMMA WriteMore ==
  ASSUME NEW f, NEW x, NEW y, NEW V, NEW W, NEW s, NEW t, V \subseteq W, t = 0 => s = 0,
         FileWrites(f, x, y, V, s)
  PROVE  FileWrites(f, x, y, W, t)
  BY DEF FileWrites

LEMMA WriteOne ==
  ASSUME Writing, World, NEW f \in Handles, OtherFiles(f), \A g \in Handles : g # f => pos'[g] = pos[g],
         written \subseteq written', seeks' = 0 => seeks = 0,
         pc' \notin {"rreturn", "error", "fault"},
         scene = "write" => FileWrites(f, file'[f], pos'[f], written', seeks')
  PROVE  Writing'
<1>1. ASSUME scene = "write", NEW g \in Handles PROVE FileWrites(g, file'[g], pos'[g], written', seeks')
  <2>1. CASE g = f
    BY <1>1, <2>1
  <2>2. CASE g # f
    BY <1>1, <2>2, WriteMore DEF Writing, OtherFiles
  <2> QED
    BY <2>1, <2>2
<1> QED
  BY <1>1 DEF Writing, World, FileWrites

LEMMA WriteNone ==
  ASSUME Writing, World, file' = file, pos' = pos, written \subseteq written', seeks' = seeks,
         scene = "write" => pc' \notin {"rreturn", "error", "fault"}
  PROVE  Writing'
<1>1. ASSUME scene = "write", NEW g \in Handles PROVE FileWrites(g, file'[g], pos'[g], written', seeks')
  BY <1>1, WriteMore DEF Writing
<1> QED
  BY <1>1 DEF Writing, World, FileWrites

LEMMA NotWriting ==
  ASSUME scene # "write", World
  PROVE  Writing'
  BY DEF Writing, World

LEMMA SamePlace ==
  ASSUME InPlace, written' = written, \A r \in pending' : r \in pending \/ (r.kind = "write" => r.from = r.offset)
  PROVE  InPlace'
  BY DEF InPlace

(* The server writes what it is asked to.                                   *)
LEMMA ServePlace ==
  ASSUME InPlace, PacketRead
  PROVE  InPlace' /\ written \subseteq written'
<1>1. PICK r \in pending : Serve(r)
  BY DEF PacketRead
<1>2. CASE ServeTwice(r)
  <2>1. written' = written /\ r.kind = "open" /\ pending' = (pending \ {r}) \cup {[r EXCEPT !.offset = 1]}
    BY <1>2 DEF ServeTwice
  <2> DEFINE q == [r EXCEPT !.offset = 1]
  <2>2. q.kind = r.kind
    OBVIOUS
  <2> HIDE DEF q
  <2>3. \A s \in pending' : s \in pending \/ (s.kind = "write" => s.from = s.offset)
    BY <2>1, <2>2 DEF q
  <2> QED
    BY <2>1, <2>3, SamePlace
<1>3. CASE pending' = pending \ {r} /\ ServeWrite(r)
  <2>1. r.kind = "write" /\ r.from = r.offset
    BY <1>1, <1>3 DEF ServeWrite, InPlace
  <2>2. \/ written' = written
        \/ written' = written \cup {<<r.f, r.offset + i, r.from + i>> : i \in 0..(r.len - 1)}
    BY <1>3 DEF ServeWrite
  <2>3. \A w \in written' : w[2] = w[3]
    BY <2>1, <2>2 DEF InPlace
  <2> QED
    BY <1>3, <2>2, <2>3 DEF InPlace
<1>4. CASE pending' = pending \ {r} /\ (ServeRead(r) \/ ServeDir(r) \/ ServeOp(r))
  <2>1. written' = written
    BY <1>4 DEF ServeRead, ServeDir, ServeOp
  <2> QED
    BY <1>4, <2>1, SamePlace
<1> QED
  BY <1>1, <1>2, <1>3, <1>4 DEF Serve

LEMMA CallWriteWrote ==
  ASSUME Base, Wrote, NEW f \in Handles, NEW n \in Nat, CallWrite(f, n)
  PROVE  Wrote'
<1>0. Shape /\ scene = "write" /\ F(f).open /\ F(f).list \in Seq(ChunkSet) /\ pos[f] \in Int
      /\ F(f).offset \in Int /\ F(f).offset_sent \in Int /\ F(f).acked \in Nat
  BY FileTyped DEF Base, Core, CallWrite, Shape, F
<1>1. World /\ UNCHANGED <<pos, seeks, written, pending>>
  BY DEF CallWrite, World, worldVars, serverVars, wireVars, bookVars
<1>2. InPlace'
  BY <1>1, SamePlace DEF Wrote
<1>3. ASSUME NEW new, WBuild(f, n, new) PROVE Writing'
  <2>1. FileWrites(f, F(f), pos[f], written, seeks)
    BY <1>0 DEF Wrote, Writing, F
  <2>2. /\ new \in Seq(ChunkSet) /\ Chain(new, F(f).offset_sent)
        /\ \A i \in 1..Len(new) : new[i].from - new[i].offset = pos[f] + F(f).acked - F(f).offset
        /\ file'[f].list = F(f).list \o new /\ file'[f].open = F(f).open
        /\ file'[f].offset = F(f).offset /\ file'[f].offset_sent = F(f).offset_sent + Total(new)
        /\ file'[f].acked = F(f).acked /\ OtherFiles(f) /\ pc' = "wsend"
    BY <1>3 DEF WBuild, Built, Becomes
  <2>3. /\ F(f).offset = pos[f] + F(f).acked /\ Chain(F(f).list, F(f).offset)
        /\ F(f).offset_sent = F(f).offset + Total(F(f).list)
    BY <1>0, <2>1 DEF FileWrites
  <2> DEFINE l == F(f).list \o new
  <2>4. Chain(l, F(f).offset) /\ Total(l) = Total(F(f).list) + Total(new)
    BY <1>0, <2>2, <2>3, ChainJoin, TotalJoin
  <2>5. Total(new) \in Nat /\ Total(F(f).list) \in Nat
    BY <1>0, <2>2, TotalNat
  <2>6. ASSUME NEW i \in 1..Len(l) PROVE l[i].from = l[i].offset
    <3>1. \/ i \in 1..Len(F(f).list) /\ l[i] = F(f).list[i]
          \/ i - Len(F(f).list) \in 1..Len(new) /\ l[i] = new[i - Len(F(f).list)]
      BY <1>0, <2>2, JoinOf
    <3>2. \A j \in 1..Len(new) : new[j].from = new[j].offset
      <4>1. \A j \in 1..Len(new) : new[j].from \in Int /\ new[j].offset \in Int
        BY <2>2, ChunkTyped
      <4>2. pos[f] + F(f).acked - F(f).offset = 0
        BY <1>0, <2>3
      <4>3. \A j \in 1..Len(new) : new[j].from - new[j].offset = 0
        BY <2>2, <4>2, Zenon
      <4> QED
        BY <4>1, <4>3
    <3>3. \A j \in 1..Len(F(f).list) : F(f).list[j].from = F(f).list[j].offset
      BY <2>1 DEF FileWrites
    <3> QED
      BY <3>1, <3>2, <3>3
  <2> HIDE DEF l
  <2>7. file'[f].list = l
    BY <2>2 DEF l
  <2>8. FileWrites(f, file'[f], pos'[f], written', seeks')
    BY <1>0, <1>1, <2>1, <2>2, <2>3, <2>4, <2>5, <2>6, <2>7, SMTT(40) DEF FileWrites
  <2> QED
    BY <1>1, <2>2, <2>8, WriteOne DEF Wrote
<1>4. CASE WResume
  <2>1. pc' = "wack" /\ file' = file
    BY <1>4 DEF WResume
  <2>2. written \subseteq written' /\ seeks' = seeks /\ pos' = pos
    BY <1>1
  <2> QED
    BY <1>1, <1>2, <2>1, <2>2, WriteNone DEF Wrote
<1> QED
  BY <1>0, <1>2, <1>3, <1>4, CallWriteCases DEF Wrote

LEMMA SeekWrote ==
  ASSUME Base, Wrote, NEW f \in Handles, NEW o \in Int, Seek(f, o)
  PROVE  Wrote'
<1>0. Shape /\ seeks \in Nat /\ pos \in [Handles -> Int] /\ F(f).open \in BOOLEAN
  BY FileTyped DEF Base, Core, Shape, F
<1>1. World /\ UNCHANGED <<written, pending, pc>> /\ seeks' = seeks + 1 /\ pos' = [pos EXCEPT ![f] = o]
  BY DEF Seek, World, worldVars, serverVars, wireVars, callVars
<1>2. InPlace'
  BY <1>1, SamePlace DEF Wrote
<1>3. Becomes(f, F(f).open, o, o, F(f).acked, <<>>, FALSE, <<>>)
  BY <1>0, SeekCases
<1>4. CASE scene # "write"
  BY <1>1, <1>2, <1>4, NotWriting DEF Wrote
<1>5. CASE scene = "write"
  <2>1. F(f).acked = 0 /\ pc = "app"
    BY <1>5 DEF Seek, F
  <2>2. seeks' # 0 /\ pos'[f] = o /\ \A g \in Handles : g # f => pos'[g] = pos[g]
    BY <1>0, <1>1
  <2>3. Chain(<<>>, o) /\ Total(<<>>) = 0 /\ Len(<<>>) = 0
    BY EmptyList
  <2>4. FileWrites(f, file'[f], pos'[f], written', seeks')
    BY <1>3, <2>1, <2>2, <2>3 DEF FileWrites, Becomes
  <2> QED
    BY <1>1, <1>2, <1>3, <2>1, <2>2, <2>4, WriteOne DEF Wrote, Becomes
<1> QED
  BY <1>4, <1>5

LEMMA WriteSendWrote ==
  ASSUME Base, Wrote, WriteSend
  PROVE  Wrote'
<1>0. Shape /\ scene = "write" /\ at \in Handles /\ F(at).list \in Seq(ChunkSet) /\ Doing = "write"
      /\ F(at).offset \in Int
  BY FileTyped DEF Base, Core, Place, WriteSend, Shape, F, Doing
<1>1. World /\ UNCHANGED <<pos, seeks, written>>
  BY DEF WriteSend, World, worldVars, serverVars, bookVars
<1>2. CASE WsDone \/ WsAgain
  <2>1. UNCHANGED <<file, pending>> /\ pc' \in {"app", "wack"}
    BY <1>2 DEF WsDone, WsAgain, Stay, ReturnAgain, Back
  <2>2. InPlace'
    BY <1>1, <2>1, SamePlace DEF Wrote
  <2> QED
    BY <1>1, <2>1, <2>2, WriteNone DEF Wrote
<1>3. ASSUME NEW i, NEW v, WsOut(i, v) PROVE Wrote'
  <2>1. FileWrites(at, F(at), pos[at], written, seeks)
    BY <1>0 DEF Wrote, Writing, F
  <2> DEFINE l == F(at).list
             m == file'[at].list
  <2>2. /\ i \in 1..Len(l) /\ Like(l, m, i, v)
        /\ Becomes(at, F(at).open, F(at).offset, F(at).offset_sent, F(at).acked, F(at).data, F(at).eof, m)
        /\ pc' \in {"wack", "wsend"}
    BY <1>3 DEF WsOut, SendOut, SentFile
  <2> HIDE DEF m
  <2>3. /\ Total(m) = Total(l) /\ (Chain(l, F(at).offset) => Chain(m, F(at).offset))
        /\ (m = <<>>) <=> (l = <<>>)
    BY <1>0, <2>2, LikeChain
  <2>4. FileWrites(at, file'[at], pos'[at], written', seeks')
    <3>1. \A j \in 1..Len(m) : m[j].from = m[j].offset
      BY <2>1, <2>2 DEF FileWrites, Like
    <3>2. file'[at].list = m
      BY DEF m
    <3> QED
      BY <1>1, <2>1, <2>2, <2>3, <3>1, <3>2 DEF FileWrites, Becomes
  <2>5. Writing'
    BY <1>0, <1>1, <2>2, <2>4, WriteOne DEF Wrote, Becomes
  <2>6. l[i].from = l[i].offset
    BY <2>1, <2>2 DEF FileWrites
  <2>7. pending' = pending \/ pending' = pending \cup {Request("write", at, l[i])}
    BY <1>0, <1>3 DEF WsOut, SendOut, Passed
  <2>8. InPlace'
    <3>1. Request("write", at, l[i]).from = l[i].from /\ Request("write", at, l[i]).offset = l[i].offset
      BY DEF Request
    <3> QED
      BY <1>1, <2>6, <2>7, <3>1, SamePlace DEF Wrote
  <2> QED
    BY <2>5, <2>8 DEF Wrote
<1> QED
  BY <1>2, <1>3, WriteSendCases

LEMMA WriteAckWrote ==
  ASSUME Base, Wrote, WriteAck
  PROVE  Wrote'
<1>0. Shape /\ Owns /\ scene = "write" /\ at \in Handles /\ F(at).list \in Seq(ChunkSet)
      /\ F(at).offset \in Int /\ F(at).offset_sent \in Int /\ F(at).acked \in Nat /\ F(at).open \in BOOLEAN
      /\ pos \in [Handles -> Int] /\ pos[at] \in Int
  BY FileTyped DEF Base, Core, Place, WriteAck, Shape, F
<1>1. World /\ seeks' = seeks
  BY DEF WriteAck, World, worldVars
<1>2. FileWrites(at, F(at), pos[at], written, seeks) /\ InPlace /\ Writing
  BY <1>0 DEF Wrote, Writing, F
<1>3. ASSUME NEW r, WaReport(r) PROVE Wrote'
  <2>1. /\ r \in Nat /\ pos'[at] = pos[at] + r /\ \A g \in Handles : g # at => pos'[g] = pos[g]
    BY <1>0, <1>3 DEF WaReport
  <2>2. UNCHANGED <<pending, written>> /\ pc' = "app"
    BY <1>3, Backs DEF WaReport, Return
  <2>3. FileWrites(at, file'[at], pos'[at], written', seeks')
    BY <1>0, <1>1, <1>2, <1>3, <2>1, <2>2 DEF FileWrites, Becomes, WaReport
  <2>4. Writing'
    BY <1>0, <1>1, <1>2, <1>3, <2>1, <2>2, <2>3, WriteOne DEF Becomes, WaReport
  <2> QED
    BY <1>2, <2>2, <2>4, SamePlace DEF Wrote
<1>4. CASE WaMore
  <2>1. InPlace' /\ written \subseteq written'
    BY <1>2, <1>4, ServePlace DEF WaMore
  <2> QED
    BY <1>1, <1>2, <1>4, <2>1, WriteNone DEF WaMore, Stay, Wrote
<1>5. ASSUME UNCHANGED <<file, pos, pending, written>>, pc' = "app" PROVE Wrote'
  BY <1>1, <1>2, <1>5, WriteNone, SamePlace DEF Wrote
<1>6. CASE WaAgain
  BY <1>5, <1>6, Backs DEF WaAgain, ReturnAgain
<1>7. ASSUME NEW p, WaGot, WaShort(p) PROVE Wrote'
  BY <1>5, <1>7, Backs DEF WaGot, WaShort, Return
<1>8. ASSUME NEW p, NEW r, WaGot, WaOk(p, r) PROVE Wrote'
  <2> DEFINE c == F(at).list[1]
             l == F(at).list
  <2>1. /\ l # <<>> /\ p \in packets /\ p.id = c.id /\ p.code = "OK"
        /\ r \in 0..(F(at).acked + c.len) /\ pos' = [pos EXCEPT ![at] = @ + r] /\ pc' = "app"
        /\ Becomes(at, F(at).open, F(at).offset + c.len, F(at).offset_sent,
                   (F(at).acked + c.len) - r, F(at).data, F(at).eof, Tail(l))
    BY <1>8, Backs DEF WaOk, First, Return
  <2>2. c \in ChunkSet /\ c.offset \in Int /\ c.len \in Nat /\ c.len > 0 /\ c.from \in Int /\ 1 \in 1..Len(l)
    BY <1>0, <2>1, FirstTyped
  <2>3. \A i \in 0..(c.len - 1) : <<at, c.offset + i, c.from + i>> \in written
    BY <1>0, <2>1, AnswerWrite
  <2>4. /\ F(at).open /\ Chain(l, F(at).offset) /\ F(at).offset_sent = F(at).offset + Total(l)
        /\ F(at).offset = pos[at] + F(at).acked /\ c.from = c.offset
    BY <1>0, <1>2, <2>1, <2>2 DEF FileWrites
  <2>5. Chain(Tail(l), F(at).offset + c.len) /\ c.offset = F(at).offset
    BY <1>0, <2>1, <2>4, ChainTail
  <2>6. Total(l) = c.len + Total(Tail(l)) /\ Total(l) \in Nat /\ Total(Tail(l)) \in Nat
    BY <1>0, <2>1, TotalTail, TotalNat, TailOf
  <2>7. pos'[at] = pos[at] + r /\ \A g \in Handles : g # at => pos'[g] = pos[g]
    BY <1>0, <2>1
  <2>8. \A i \in 1..Len(Tail(l)) : Tail(l)[i].from = Tail(l)[i].offset
    BY <1>0, <1>2, <2>1, TailOf DEF FileWrites
  <2>9. ASSUME seeks = 0, NEW o \in 0..((F(at).offset + c.len) - 1) PROVE <<at, o, o>> \in written
    <3>1. CASE o < F(at).offset
      BY <1>0, <1>2, <2>9, <3>1 DEF FileWrites
    <3>2. CASE o >= F(at).offset
      <4>0. o \in Int /\ o < F(at).offset + c.len
        BY <1>0, <2>2, <2>9
      <4>1. o - c.offset \in 0..(c.len - 1) /\ c.offset + (o - c.offset) = o
        <5> HIDE DEF c
        <5> QED
          BY <1>0, <2>2, <2>5, <3>2, <4>0
      <4>2. <<at, c.offset + (o - c.offset), c.from + (o - c.offset)>> \in written
        BY <2>3, <4>1
      <4> QED
        BY <2>4, <4>1, <4>2
    <3> QED
      BY <1>0, <2>2, <3>1, <3>2
  <2>10. UNCHANGED <<pending, written>>
    BY <1>8 DEF WaGot
  <2>11. F(at).offset + c.len = pos'[at] + ((F(at).acked + c.len) - r) /\ r \in Int
    BY <1>0, <2>1, <2>2, <2>4, <2>7
  <2>12. F(at).offset_sent = (F(at).offset + c.len) + Total(Tail(l))
    BY <1>0, <2>2, <2>4, <2>6, SMTT(40)
  <2> HIDE DEF c, l
  <2>13. FileWrites(at, file'[at], pos'[at], written', seeks')
    BY <1>1, <2>1, <2>4, <2>5, <2>8, <2>9, <2>10, <2>11, <2>12 DEF FileWrites, Becomes
  <2>14. Writing'
    BY <1>0, <1>1, <1>2, <2>1, <2>7, <2>10, <2>13, WriteOne DEF Becomes
  <2> QED
    BY <1>2, <2>10, <2>14, SamePlace DEF Wrote
<1>9. ASSUME NEW p, WaGot, WaFail(p) PROVE Wrote'
  <2>1. /\ UNCHANGED <<pending, written, pos>> /\ pc' = "app"
        /\ Becomes(at, F(at).open, F(at).offset - F(at).acked, F(at).offset - F(at).acked, 0, F(at).data,
             F(at).eof, <<>>)
    BY <1>9, Backs DEF WaGot, WaFail, Return
  <2> DEFINE o == F(at).offset - F(at).acked
  <2>2. o \in Int /\ o <= F(at).offset /\ o = pos[at]
    BY <1>0, <1>2 DEF FileWrites
  <2> HIDE DEF o
  <2>3. Chain(<<>>, o) /\ Total(<<>>) = 0 /\ Len(<<>>) = 0
    BY EmptyList
  <2>4. Becomes(at, F(at).open, o, o, 0, F(at).data, F(at).eof, <<>>)
    BY <2>1 DEF o
  <2>5. FileWrites(at, file'[at], pos'[at], written', seeks')
    BY <1>0, <1>1, <1>2, <2>1, <2>2, <2>3, <2>4 DEF FileWrites, Becomes
  <2>6. Writing'
    BY <1>0, <1>1, <1>2, <2>1, <2>4, <2>5, WriteOne DEF Becomes
  <2> QED
    BY <1>2, <2>1, <2>6, SamePlace DEF Wrote
<1> QED
  BY <1>3, <1>4, <1>6, <1>7, <1>8, <1>9, WriteAckCases

LEMMA ReadWrote ==
  ASSUME Base, Wrote, scene # "write", World,
         PacketRead \/ (written' = written /\ \A r \in pending' : r \in pending \/ r.kind # "write")
  PROVE  Wrote'
  BY SamePlace, ServePlace, NotWriting DEF Wrote

LEMMA ReadSendWrote ==
  ASSUME Base, Wrote, ReadSend
  PROVE  Wrote'
<1>0. scene # "write" /\ Doing = "read"
  BY DEF Base, Core, Place, ReadSend, Doing
<1>1. World /\ written' = written
  BY DEF ReadSend, World, worldVars, serverVars
<1>2. CASE RsDone \/ RsAgain
  BY <1>0, <1>1, <1>2, ReadWrote DEF RsDone, RsAgain
<1>3. ASSUME NEW i, NEW v, RsOut(i, v) PROVE Wrote'
  <2>1. pending' = pending \/ pending' = pending \cup {Request("read", at, F(at).list[i])}
    BY <1>0, <1>3 DEF RsOut, SendOut, Passed
  <2>2. Request("read", at, F(at).list[i]).kind = "read"
    BY DEF Request
  <2> QED
    BY <1>0, <1>1, <2>1, <2>2, ReadWrote
<1> QED
  BY <1>2, <1>3, ReadSendCases

LEMMA ReadRecvWrote ==
  ASSUME Base, Wrote, ReadRecv
  PROVE  Wrote'
<1>0. scene # "write" /\ World
  BY DEF Base, Core, Place, ReadRecv, World, worldVars
<1>1. CASE RrMore
  BY <1>0, <1>1, ReadWrote DEF RrMore
<1>2. CASE RrEnd \/ RrAgain \/ RrGot
  BY <1>0, <1>2, ReadWrote DEF RrEnd, RrAgain, RrGot
<1> QED
  BY <1>1, <1>2, ReadRecvCases

LEMMA ReadReturnWrote ==
  ASSUME Base, Wrote, ReadReturn
  PROVE  Wrote'
<1>0. scene # "write" /\ World /\ UNCHANGED <<written, pending>>
  BY DEF Wrote, Writing, ReadReturn, World, worldVars, wireVars, serverVars
<1> QED
  BY <1>0, ReadWrote

(* A file is closed.                                                        *)
LEMMA DropWrote ==
  ASSUME Base, Wrote, World, NEW f \in Handles, NEW ps, Drop(f, ps),
         UNCHANGED <<written, pos, seeks>>, pc' = "app"
  PROVE  Writing'
<1>0. Shape
  BY DEF Base, Core
<1>1. Becomes(f, FALSE, F(f).offset, F(f).offset_sent, F(f).acked, <<>>, F(f).eof, <<>>)
  BY <1>0, DropCases
<1>2. ASSUME scene = "write" PROVE FileWrites(f, file'[f], pos'[f], written', seeks')
  <2>1. FileWrites(f, F(f), pos[f], written, seeks)
    BY <1>2 DEF Wrote, Writing, F
  <2> QED
    BY <1>1, <2>1, EmptyList DEF FileWrites, Becomes
<1> QED
  BY <1>1, <1>2, WriteOne DEF Wrote, Becomes

LEMMA OpSendWrote ==
  ASSUME Base, Wrote, OpSend
  PROVE  Wrote'
<1>0. Shape /\ at \in Handles /\ scene \in AllScenes
  BY DEF Base, Core, Shape
<1>1. World /\ UNCHANGED <<pos, seeks, written>>
  BY DEF OpSend, World, worldVars, serverVars, bookVars
<1>2. OsRequest.kind # "write"
  BY <1>0, OpKinds DEF OsRequest
<1>3. CASE OsAll
  <2>1. UNCHANGED file /\ pc' = "owait" /\ \A r \in pending' : r \in pending \/ r.kind # "write"
    BY <1>2, <1>3 DEF OsAll, Stay
  <2> QED
    BY <1>1, <2>1, WriteNone, SamePlace DEF Wrote
<1>4. CASE OsAgain
  <2>1. UNCHANGED <<file, pending>> /\ pc' = "app"
    BY <1>4, Backs DEF OsAgain, Return
  <2> QED
    BY <1>1, <2>1, WriteNone, SamePlace DEF Wrote
<1>5. CASE OsPart
  <2>1. pc' = "app" /\ pending' = pending
    BY <1>5, Backs DEF OsPart, Return
  <2>2. CASE UNCHANGED file
    BY <1>1, <2>1, <2>2, WriteNone, SamePlace DEF Wrote
  <2>3. CASE Drop(at, packets)
    BY <1>0, <1>1, <2>1, <2>3, DropWrote, SamePlace DEF Wrote
  <2> QED
    BY <1>5, <2>2, <2>3 DEF OsPart
<1> QED
  BY <1>3, <1>4, <1>5, OpSendCases

LEMMA OpWaitWrote ==
  ASSUME Base, Wrote, OpWait
  PROVE  Wrote'
<1>0. Shape /\ at \in Handles /\ pc = "owait"
  BY DEF Base, Core, Shape, OpWait
<1>1. World /\ UNCHANGED <<pos, seeks>>
  BY DEF OpWait, World, worldVars
<1>2. CASE OwMore
  <2>1. UNCHANGED file /\ pc' = "owait" /\ InPlace' /\ written \subseteq written'
    BY <1>2, ServePlace DEF OwMore, Stay, Wrote
  <2> QED
    BY <1>1, <2>1, WriteNone DEF Wrote
<1>3. CASE OwBack
  <2>1. UNCHANGED <<file, pending, written>> /\ pc' = "app"
    BY <1>3, Backs DEF OwBack, Return
  <2> QED
    BY <1>1, <2>1, WriteNone, SamePlace DEF Wrote
<1>4. ASSUME NEW p, OwAnswer(p) PROVE Wrote'
  <2>1. UNCHANGED <<pending, written>>
    BY <1>4 DEF OwAnswer
  <2>2. CASE Drop(at, packets \ {p}) /\ Return
    <3>1. pc' = "app"
      BY <2>2, Backs DEF Return
    <3> DEFINE ps == packets \ {p}
    <3>2. Drop(at, ps)
      BY <2>2
    <3> HIDE DEF ps
    <3> QED
      BY <1>0, <1>1, <2>1, <3>1, <3>2, DropWrote, SamePlace DEF Wrote
  <2>3. CASE UNCHANGED file /\ pc' \in {"app", "owait"}
    BY <1>1, <2>1, <2>3, WriteNone, SamePlace DEF Wrote
  <2> QED
    BY <1>4, <2>2, <2>3, Backs DEF OwAnswer, OpAnswer, Return, Stay
<1> QED
  BY <1>2, <1>3, <1>4, OpWaitCases

LEMMA InitWrote ==
  ASSUME Init
  PROVE  Wrote
<1>1. ASSUME NEW f \in Handles PROVE FileWrites(f, file[f], pos[f], written, seeks)
  <2>1. /\ file[f].list = <<>> /\ file[f].offset = 0 /\ file[f].offset_sent = 0 /\ file[f].acked = 0
        /\ pos[f] = 0
    BY DEF Init, Fresh
  <2> QED
    BY <2>1, EmptyList DEF FileWrites
<1> QED
  BY <1>1 DEF Init, Wrote, InPlace, Writing

LEMMA NextWrote ==
  ASSUME Base, Wrote, [Next]_vars
  PROVE  Wrote'
<1>1. ASSUME NEW f \in Handles, ReadSome(f) PROVE Wrote'
  <2>1. scene # "write" /\ World /\ UNCHANGED <<written, pending>>
    BY <1>1 DEF ReadSome, CallRead, World, worldVars, serverVars, wireVars
  <2> QED
    BY <2>1, ReadWrote
<1>2. ASSUME NEW f \in Handles, NEW n \in Buffers, CallWrite(f, n) PROVE Wrote'
  BY <1>2, CallWriteWrote, SizeTyped
<1>3. ASSUME NEW f \in Handles, NEW o \in {0, 1}, Seek(f, o) PROVE Wrote'
  BY <1>3, SeekWrote
<1>4. ASSUME NEW f \in Handles, CallOp(f) PROVE Wrote'
  <2>1. World /\ UNCHANGED <<written, pending, file, pos, seeks>> /\ pc' \in {"osend", "owait"}
    BY <1>4 DEF CallOp, World, worldVars, serverVars, wireVars, appVars, bookVars
  <2> QED
    BY <2>1, WriteNone, SamePlace DEF Wrote
<1>5. CASE ReaddirPop \/ SftpInit \/ SftpInitError \/ Shutdown \/ UNCHANGED vars
  <2>1. World /\ UNCHANGED <<written, pending, file, pos, seeks, pc>>
    BY <1>5, Aparts DEF Apart
  <2> QED
    BY <2>1, WriteNone, SamePlace DEF Wrote, Writing
<1> QED
  BY <1>1, <1>2, <1>3, <1>4, <1>5, ReadSendWrote, ReadRecvWrote, ReadReturnWrote, WriteSendWrote,
     WriteAckWrote, OpSendWrote, OpWaitWrote DEF Next

LEMMA WroteLands ==
  ASSUME Base, Wrote
  PROVE  WritesLand
<1>1. ASSUME scene = "write", seeks = 0, NEW f \in Handles, NEW o \in 0..(pos[f] - 1)
      PROVE  <<f, o, o>> \in written
  <2>1. FileWrites(f, file[f], pos[f], written, seeks)
    BY <1>1 DEF Wrote, Writing
  <2>2. file[f].acked \in Nat /\ pos[f] \in Int /\ file[f].offset \in Int
    BY FileTyped DEF Base, Core, Shape
  <2>3. o \in 0..(file[f].offset - 1)
    BY <2>1, <2>2 DEF FileWrites
  <2> QED
    BY <1>1, <2>1, <2>3 DEF FileWrites
<1> QED
  BY <1>1 DEF Wrote, InPlace, WritesLand

LEMMA WroteHolds ==
  ASSUME ~MixCalls
  PROVE  Spec => []Wrote
<1>1. Init => Wrote
  BY InitWrote
<1>2. Base /\ Wrote /\ [Next]_vars => Wrote'
  BY NextWrote
<1> QED
  BY <1>1, <1>2, BaseHolds, PTL DEF Spec

(* sftp_write(): whatever sizes the application passes from call to call,   *)
(* however the channel cuts the requests and whatever the server refuses,   *)
(* no byte is written to another place than its own, and what was reported  *)
(* as written is in the file (unless the application seeks).  A call that   *)
(* left a request half sent is made again before any other that sends.      *)
THEOREM WritesLanded ==
  ASSUME ~MixCalls
  PROVE  Spec => []WritesLand
<1>1. Base /\ Wrote => WritesLand
  BY WroteLands
<1> QED
  BY <1>1, BaseHolds, WroteHolds, PTL

-----------------------------------------------------------------------------
(* Reading: what a call returns and what it keeps are the bytes that follow *)
(* the application's position.                                              *)

(* x is file f, y the application's position in it, k the bytes of it that  *)
(* are in the buffer of a call.                                             *)
FileReads(f, x, y, k) ==
  /\ x.data = Bytes(f, x.offset, Len(x.data)) /\ x.acked = 0 /\ x.offset = y + k
  /\ mood # "odd" /\ x.open /\ ~x.eof => x.offset_sent = (x.offset + Len(x.data)) + Total(x.list)

Books == \A f \in Handles : FileReads(f, file[f], pos[f], IF f = at THEN Len(buf) ELSE 0)

Taken == /\ buf = Bytes(at, pos[at], Len(buf))
         /\ buf # <<>> => pc \in {"rrecv", "rreturn", "error"}

(* A call that is at work.                                                  *)
Under == pc \in {"rsend", "rrecv"} =>
           read_state = "idle" /\ owed = 0 /\ F(at).open /\ F(at).data = <<>>

(* A call that got EAGAIN.                                                  *)
Resume ==
  read_state # "idle" =>
    /\ owed \in Handles /\ F(owed).open /\ F(owed).data = <<>> /\ F(owed).list # <<>>
    /\ read_state = "sent2" => Ready(F(owed).list)

Sound == mood # "odd" => /\ pc # "fault"
                         /\ pc = "rsend" => F(at).list # <<>>
                         /\ pc = "rrecv" /\ buf = <<>> => Ready(F(at).list)

Reads == scene # "write" => Books /\ Taken /\ Under /\ Resume /\ Sound

Calm == scene = "write" =>
          buf = <<>> /\ read_state = "idle" /\ \A f \in Handles : F(f).data = <<>>

LEMMA NoBytes ==
  ASSUME NEW f \in Handles, NEW o \in Int
  PROVE  <<>> = Bytes(f, o, 0) /\ Len(<<>>) = 0 /\ <<>> \in Seq(Handles \X Int)
<1>1. <<>> \in Seq(Handles \X Int) /\ Len(<<>>) = 0
  OBVIOUS
<1> DEFINE d == <<>>
<1>2. d \in Seq(Handles \X Int) /\ Len(d) = 0
  BY <1>1
<1> HIDE DEF d
<1>3. \A i \in 1..Len(d) : d[i] = <<f, o + i - 1>>
  BY <1>2
<1>4. d = Bytes(f, o, Len(d))
  BY <1>2, <1>3, SameBytes
<1> QED
  BY <1>1, <1>2, <1>4 DEF d

LEMMA HeldNone ==
  ASSUME Books, buf = <<>>, NEW f \in Handles
  PROVE  FileReads(f, file[f], pos[f], 0)
<1>1. (IF f = at THEN Len(buf) ELSE 0) = 0
  OBVIOUS
<1> QED
  BY <1>1 DEF Books

LEMMA AppNone ==
  ASSUME Reads, scene # "write", pc \notin {"rrecv", "rreturn", "error"}
  PROVE  buf = <<>> /\ \A f \in Handles : FileReads(f, file[f], pos[f], 0)
  BY HeldNone DEF Reads, Taken

(* No call of libssh2_sftp_read() is at work after the step.                *)
LEMMA Settle ==
  ASSUME scene # "write", World, buf' = <<>>, pc' \notin {"rsend", "rrecv", "fault"},
         at' \in Handles, pos' \in [Handles -> Int],
         \A f \in Handles : FileReads(f, file'[f], pos'[f], 0), Resume'
  PROVE  Reads'
<1>1. Books'
  <2>1. \A f \in Handles : (IF f = at' THEN Len(buf') ELSE 0) = 0
    OBVIOUS
  <2> QED
    BY <2>1 DEF Books, FileReads, World
<1>2. Taken'
  <2>1. pos'[at'] \in Int
    OBVIOUS
  <2>2. buf' = Bytes(at', pos'[at'], Len(buf'))
    BY <2>1, NoBytes
  <2> QED
    BY <2>2 DEF Taken, Bytes
<1>3. Under' /\ Sound'
  BY DEF Under, Sound
<1> QED
  BY <1>1, <1>2, <1>3 DEF Reads

LEMMA ReadSame ==
  ASSUME Reads, scene # "write", World, pc \notin {"rrecv", "rreturn", "error"}, buf' = <<>>,
         pc' \notin {"rsend", "rrecv", "fault"},
         at' \in Handles, pos \in [Handles -> Int], UNCHANGED <<file, pos, read_state, owed>>
  PROVE  Reads'
<1>1. \A f \in Handles : FileReads(f, file'[f], pos'[f], 0)
  BY AppNone
<1>2. Resume'
  BY DEF Resume, Reads, F
<1> QED
  BY <1>1, <1>2, Settle

LEMMA DropReads ==
  ASSUME Base, Reads, scene # "write", World, pc \notin {"rrecv", "rreturn", "error"}, buf' = <<>>,
         pc' = "app", at' \in Handles, UNCHANGED <<pos, owed>>,
         NEW f \in Handles, NEW ps, Drop(f, ps)
  PROVE  Reads'
<1>0. Shape /\ pos \in [Handles -> Int] /\ F(f).offset \in Int
  BY FileTyped DEF Base, Core, Shape, F
<1>1. Becomes(f, FALSE, F(f).offset, F(f).offset_sent, F(f).acked, <<>>, F(f).eof, <<>>)
  BY <1>0, DropCases
<1>2. FileReads(f, file'[f], pos'[f], 0)
  <2>1. FileReads(f, file[f], pos[f], 0)
    BY AppNone
  <2>2. <<>> = Bytes(f, F(f).offset, Len(<<>>))
    BY <1>0, NoBytes
  <2> QED
    BY <1>1, <2>1, <2>2 DEF FileReads, Becomes, F
<1>3. ASSUME NEW g \in Handles PROVE FileReads(g, file'[g], pos'[g], 0)
  <2>1. FileReads(g, file[g], pos[g], 0)
    BY AppNone
  <2> QED
    BY <1>1, <1>2, <2>1 DEF Becomes, OtherFiles
<1>4. Resume'
  BY DEF Resume, Drop
<1> QED
  BY <1>0, <1>3, <1>4, Settle

LEMMA SeekReads ==
  ASSUME Base, Reads, ~MixHandles, scene # "write", NEW f \in Handles, NEW o \in Int, Seek(f, o)
  PROVE  Reads'
<1>0. Shape /\ pos \in [Handles -> Int] /\ at \in Handles
  BY DEF Base, Core, Shape
<1>1. World /\ pc = "app" /\ UNCHANGED <<pc, at, buf, read_state, owed>> /\ owed = 0
      /\ pos' = [pos EXCEPT ![f] = o]
  BY DEF Seek, World, worldVars, callVars
<1>2. Becomes(f, F(f).open, o, o, F(f).acked, <<>>, FALSE, <<>>)
  BY <1>0, SeekCases
<1>3. buf = <<>> /\ \A g \in Handles : FileReads(g, file[g], pos[g], 0)
  BY <1>1, AppNone
<1>4. FileReads(f, file'[f], pos'[f], 0)
  <2>1. FileReads(f, file[f], pos[f], 0)
    BY <1>3
  <2>2. <<>> = Bytes(f, o, Len(<<>>)) /\ Len(<<>>) = 0
    BY NoBytes
  <2>3. pos'[f] = o
    BY <1>0, <1>1
  <2> QED
    BY <1>2, <2>1, <2>2, <2>3, EmptyList DEF FileReads, Becomes, F
<1>5. ASSUME NEW g \in Handles PROVE FileReads(g, file'[g], pos'[g], 0)
  <2>1. CASE g = f
    BY <1>4, <2>1
  <2>2. CASE g # f
    <3>1. file'[g] = file[g] /\ pos'[g] = pos[g]
      BY <1>0, <1>1, <1>2, <2>2 DEF Becomes, OtherFiles
    <3> QED
      BY <1>3, <3>1
  <2> QED
    BY <2>1, <2>2
<1>6. read_state = "idle"
  BY <1>1, SftpAssumption DEF Reads, Resume
<1>7. Resume'
  BY <1>1, <1>6 DEF Resume
<1>8. pos' \in [Handles -> Int]
  BY <1>0, <1>1
<1> QED
  BY <1>0, <1>1, <1>3, <1>5, <1>7, <1>8, Settle

LEMMA OpSendReads ==
  ASSUME Base, Reads, scene # "write", OpSend
  PROVE  Reads'
<1>0. Shape /\ at \in Handles /\ pc = "osend" /\ pos \in [Handles -> Int] /\ buf = <<>>
  BY AppNone DEF Base, Core, Shape, OpSend
<1>1. World /\ pos' = pos
  BY DEF OpSend, World, worldVars, bookVars
<1>2. CASE OsAll
  BY <1>0, <1>1, <1>2, ReadSame DEF OsAll, Stay
<1>3. CASE OsAgain
  BY <1>0, <1>1, <1>3, Backs, ReadSame DEF OsAgain, Return
<1>4. CASE OsPart
  <2>1. pc' = "app" /\ buf' = <<>> /\ at' \in Handles /\ owed' = owed
    BY <1>4, Backs DEF OsPart, Return
  <2>2. CASE UNCHANGED <<file, read_state>>
    BY <1>0, <1>1, <2>1, <2>2, ReadSame
  <2>3. CASE Drop(at, packets)
    BY <1>0, <1>1, <2>1, <2>3, DropReads
  <2> QED
    BY <1>4, <2>2, <2>3 DEF OsPart
<1> QED
  BY <1>2, <1>3, <1>4, OpSendCases

LEMMA OpWaitReads ==
  ASSUME Base, Reads, scene # "write", OpWait
  PROVE  Reads'
<1>0. Shape /\ at \in Handles /\ pc = "owait" /\ pos \in [Handles -> Int] /\ buf = <<>>
  BY AppNone DEF Base, Core, Shape, OpWait
<1>1. World /\ pos' = pos
  BY DEF OpWait, World, worldVars
<1>2. CASE OwMore
  BY <1>0, <1>1, <1>2, ReadSame DEF OwMore, Stay
<1>3. CASE OwBack
  BY <1>0, <1>1, <1>3, Backs, ReadSame DEF OwBack, Return
<1>4. ASSUME NEW p, OwAnswer(p) PROVE Reads'
  <2>2. CASE Drop(at, packets \ {p}) /\ Return
    <3>1. pc' = "app" /\ buf' = <<>> /\ at' \in Handles /\ owed' = owed
      BY <2>2, Backs DEF Return
    <3> DEFINE ps == packets \ {p}
    <3>2. Drop(at, ps)
      BY <2>2
    <3> HIDE DEF ps
    <3> QED
      BY <1>0, <1>1, <3>1, <3>2, DropReads
  <2>3. CASE UNCHANGED <<file, read_state, owed>> /\ pc' \in {"app", "owait"} /\ buf' = <<>> /\ at' \in Handles
    BY <1>0, <1>1, <2>3, ReadSame
  <2> QED
    BY <1>0, <1>4, <2>2, <2>3, Backs DEF OwAnswer, OpAnswer, Return, Stay
<1> QED
  BY <1>2, <1>3, <1>4, OpWaitCases

LEMMA ReadReturnReads ==
  ASSUME Base, Reads, scene # "write", ReadReturn
  PROVE  Reads'
<1>0. Shape /\ at \in Handles /\ pos \in [Handles -> Int] /\ Len(buf) \in Nat
      /\ F(at).offset \in Int
  BY FileTyped DEF Base, Core, Shape, F
<1>1. /\ World /\ UNCHANGED <<file, read_state, owed>> /\ pc' = "app" /\ buf' = <<>> /\ at' \in Handles
      /\ pos' = [pos EXCEPT ![at] = IF pc = "rreturn" THEN @ + Len(buf) ELSE F(at).offset]
  BY Backs DEF ReadReturn, Return, World, worldVars, sftpVars, stateVars, Tell, F
<1>2. Books /\ Resume
  BY DEF Reads
<1>3. ASSUME NEW g \in Handles PROVE FileReads(g, file'[g], pos'[g], 0)
  <2>1. CASE g = at
    <3>1. FileReads(at, file[at], pos[at], Len(buf))
      BY <1>0, <1>2 DEF Books
    <3>2. pos'[at] = F(at).offset /\ pos[at] \in Int
      BY <1>0, <1>1, <3>1 DEF FileReads, F
    <3> QED
      BY <1>0, <1>1, <2>1, <3>1, <3>2 DEF FileReads, F
  <2>2. CASE g # at
    <3>1. FileReads(g, file[g], pos[g], 0)
      BY <1>2, <2>2 DEF Books
    <3>2. pos'[g] = pos[g]
      BY <1>0, <1>1, <2>2
    <3> QED
      BY <1>1, <3>1, <3>2
  <2> QED
    BY <2>1, <2>2
<1>4. pos' \in [Handles -> Int]
  BY <1>0, <1>1
<1>5. Resume'
  BY <1>1, <1>2 DEF Resume, F
<1> QED
  BY <1>1, <1>3, <1>4, <1>5, Settle

(* A call of libssh2_sftp_read() is at work, on one file, before and after. *)
LEMMA ReadOne ==
  ASSUME Books, scene # "write", World, OtherFiles(at), UNCHANGED <<at, pos>>, at \in Handles,
         FileReads(at, file'[at], pos[at], Len(buf'))
  PROVE  Books'
<1>1. ASSUME NEW g \in Handles PROVE FileReads(g, file'[g], pos'[g], IF g = at' THEN Len(buf') ELSE 0)
  <2>1. CASE g = at
    BY <2>1
  <2>2. CASE g # at
    <3>1. FileReads(g, file[g], pos[g], 0)
      BY <2>2 DEF Books
    <3> QED
      BY <2>2, <3>1 DEF OtherFiles
  <2> QED
    BY <2>1, <2>2
<1> QED
  BY <1>1 DEF Books, FileReads, World

LEMMA ReadSendReads ==
  ASSUME Base, Reads, ReadSend
  PROVE  Reads'
<1>0. Shape /\ pc = "rsend" /\ scene # "write" /\ at \in Handles /\ F(at).list \in Seq(ChunkSet)
      /\ pos \in [Handles -> Int] /\ F(at).offset \in Int
  BY FileTyped DEF Base, Core, Shape, Place, ReadSend, F
<1>1. World /\ UNCHANGED pos
  BY DEF ReadSend, World, worldVars, bookVars
<1>2. /\ Books /\ Taken /\ Under /\ Sound /\ buf = <<>>
      /\ \A f \in Handles : FileReads(f, file[f], pos[f], 0)
      /\ read_state = "idle" /\ owed = 0 /\ F(at).open /\ F(at).data = <<>>
      /\ mood # "odd" => F(at).list # <<>>
  BY <1>0, AppNone DEF Reads, Under, Sound
<1>3. CASE RsDone
  <2>1. /\ UNCHANGED <<file, read_state, at, size, buf, owed>> /\ pc' = "rrecv"
        /\ Unsent(F(at).list) = {}
    BY <1>3 DEF RsDone, Stay
  <2>2. F(at).list # <<>> => Ready(F(at).list)
    <3>1. ASSUME F(at).list # <<>> PROVE F(at).list[1].sent = 2
      <4>1. 1 \in 1..Len(F(at).list) /\ DOMAIN F(at).list = 1..Len(F(at).list)
            /\ F(at).list[1].sent \in {0, 1, 2}
        BY <1>0, <3>1, ChunkTyped, FirstTyped
      <4> QED
        BY <2>1, <4>1 DEF Unsent
    <3> QED
      BY <3>1 DEF Ready
  <2>3. Books' /\ Taken'
    BY <1>1, <1>2, <2>1 DEF Books, FileReads, Taken, World, Bytes
  <2>4. Under' /\ Resume'
    BY <1>2, <2>1 DEF Under, Resume, F
  <2>5. Sound'
    BY <1>1, <1>2, <2>1, <2>2 DEF Sound, F, World, Ready
  <2> QED
    BY <2>3, <2>4, <2>5 DEF Reads
<1>4. CASE RsAgain
  <2>1. UNCHANGED file /\ Unsent(F(at).list) # {} /\ read_state' = "sent" /\ owed' = at
        /\ pc' = "app" /\ buf' = <<>> /\ at' \in Handles
    BY <1>4, Backs DEF RsAgain, ReturnAgain
  <2>2. F(at).list # <<>>
    BY <2>1 DEF Unsent
  <2>3. Resume'
    BY <1>0, <1>2, <2>1, <2>2 DEF Resume, F
  <2> QED
    BY <1>0, <1>1, <1>2, <2>1, <2>3, Settle
<1>5. ASSUME NEW i, NEW v, RsOut(i, v) PROVE Reads'
  <2> DEFINE l == F(at).list
             m == file'[at].list
  <2>1. /\ i \in 1..Len(l) /\ Like(l, m, i, v)
        /\ Becomes(at, F(at).open, F(at).offset, F(at).offset_sent, F(at).acked, F(at).data, F(at).eof, m)
        /\ UNCHANGED <<read_state, at, size, buf, owed>>
        /\ pc' = (IF v = 1 /\ i # 1 THEN "rrecv" ELSE "rsend")
        /\ \A j \in 1..Len(l) : j < i => l[j].sent = 2
    BY <1>5 DEF RsOut, SendOut, SentFile
  <2> HIDE DEF m
  <2>2. Total(m) = Total(l) /\ ((m = <<>>) <=> (l = <<>>))
    BY <1>0, <2>1, LikeChain
  <2>3. l # <<>> /\ m # <<>>
    BY <1>0, <2>1, <2>2
  <2>4. file'[at].list = m
    BY DEF m
  <2>5. FileReads(at, file'[at], pos[at], Len(buf'))
    <3>1. FileReads(at, F(at), pos[at], Len(buf'))
      BY <1>0, <1>2, <2>1 DEF F
    <3> QED
      BY <2>1, <2>2, <2>4, <3>1 DEF FileReads, Becomes
  <2>6. Books'
    BY <1>0, <1>1, <1>2, <2>1, <2>5, ReadOne DEF Becomes
  <2>7. Taken' /\ Under' /\ Resume'
    BY <1>1, <1>2, <2>1, <2>4 DEF Taken, Under, Resume, F, Becomes, Bytes
  <2>8. Sound'
    <3>1. ASSUME v = 1, i # 1 PROVE Ready(m)
      <4>1. 1 \in 1..Len(l) /\ 1 < i
        BY <1>0, <2>1, <3>1, ChunkLen
      <4> QED
        BY <2>1, <2>3, <3>1, <4>1 DEF Ready, Like
    <3> QED
      BY <2>1, <2>3, <2>4, <3>1 DEF Sound, F, Ready
  <2> QED
    BY <2>6, <2>7, <2>8 DEF Reads
<1> QED
  BY <1>3, <1>4, <1>5, ReadSendCases

LEMMA ReadRecvReads ==
  ASSUME Base, Reads, ReadRecv
  PROVE  Reads'
<1>0. Shape /\ Owns /\ pc = "rrecv" /\ scene # "write" /\ at \in Handles /\ F(at).list \in Seq(ChunkSet)
      /\ pos \in [Handles -> Int] /\ F(at).offset \in Int /\ buf \in Seq(Handles \X Int)
      /\ pos[at] \in Int /\ size \in Nat /\ F(at).offset_sent \in Int /\ F(at).eof \in BOOLEAN
      /\ Len(buf) \in Nat
  BY FileTyped DEF Base, Core, Shape, Place, ReadRecv, F
<1>1. World /\ UNCHANGED pos
  BY DEF ReadRecv, World, worldVars, bookVars
<1>2. /\ Books /\ Taken /\ Under /\ Resume /\ Sound
      /\ FileReads(at, F(at), pos[at], Len(buf))
      /\ read_state = "idle" /\ owed = 0 /\ F(at).open /\ F(at).data = <<>>
      /\ mood # "odd" /\ buf = <<>> => Ready(F(at).list)
  BY <1>0 DEF Reads, Under, Sound, Books, F
<1>3. ASSUME UNCHANGED <<file, buf, at, read_state, owed>>, pc' \in {"rrecv", "rreturn", "error"}
      PROVE  Reads'
  BY <1>0, <1>1, <1>2, <1>3 DEF Reads, Books, FileReads, Taken, Under, Resume, Sound, F, World, Bytes, Ready
<1>4. CASE RrEnd
  <2>1. CASE buf # <<>>
    BY <1>3, <1>4, <2>1 DEF RrEnd
  <2>2. CASE buf = <<>>
    <3>1. mood = "odd" /\ pc' = "fault" /\ UNCHANGED <<file, read_state, at, owed, buf>>
      BY <1>2, <1>4, <2>2 DEF RrEnd
    <3> QED
      BY <1>0, <1>1, <1>2, <2>2, <3>1 DEF Reads, Books, FileReads, Taken, Under, Resume, Sound, F, World, Bytes
  <2> QED
    BY <2>1, <2>2
<1>5. CASE RrMore
  BY <1>0, <1>3, <1>5 DEF RrMore
<1>6. CASE RrAgain
  <2>1. CASE buf # <<>> /\ pc' = "rreturn" /\ UNCHANGED <<at, size, buf, read_state, owed>>
    BY <1>3, <1>6, <2>1 DEF RrAgain
  <2>2. CASE buf = <<>> /\ ReturnAgain /\ read_state' = "sent2"
    <3>1. UNCHANGED file /\ Ready(F(at).list) /\ F(at).list # <<>> /\ owed' = at
          /\ pc' = "app" /\ buf' = <<>> /\ at' \in Handles
      BY <1>6, <2>2, Backs DEF RrAgain, ReturnAgain
    <3>2. \A f \in Handles : FileReads(f, file[f], pos[f], 0)
      BY <1>2, <2>2, HeldNone
    <3>3. Resume'
      BY <1>0, <1>2, <2>2, <3>1 DEF Resume, F, Ready
    <3> QED
      BY <1>0, <1>1, <3>1, <3>2, <3>3, Settle
  <2> QED
    BY <1>6, <2>1, <2>2 DEF RrAgain
<1>7. ASSUME NEW p, RrGot, RrBad(p) PROVE Reads'
  BY <1>3, <1>7 DEF RrGot, RrBad
<1>8. ASSUME NEW p, RrGot, RrStatus(p) PROVE Reads'
  <2>1. /\ UNCHANGED <<at, buf, read_state, owed>> /\ pc' \in {"rreturn", "error"}
        /\ Becomes(at, F(at).open, F(at).offset, F(at).offset_sent, F(at).acked, F(at).data,
                  (F(at).eof \/ p.code = "EOF"), <<>>)
        /\ p.type = "STATUS" /\ F(at).list # <<>> /\ p \in packets /\ p.id = F(at).list[1].id
    BY <1>8 DEF RrGot, RrStatus, First
  <2>2. mood # "odd" => p.code = "EOF"
    BY <1>0, <2>1, AnswerRead
  <2>3. FileReads(at, file'[at], pos[at], Len(buf'))
    BY <1>2, <2>1, <2>2 DEF FileReads, Becomes
  <2>4. Books'
    BY <1>0, <1>1, <1>2, <2>1, <2>3, ReadOne DEF Becomes
  <2>5. Taken' /\ Under' /\ Resume' /\ Sound'
    BY <1>1, <1>2, <2>1 DEF Taken, Under, Resume, Sound, Bytes
  <2> QED
    BY <2>4, <2>5 DEF Reads
<1>9. ASSUME NEW p, NEW n, RrGot, RrData(p, n) PROVE Reads'
  <2> DEFINE l == F(at).list
             c == F(at).list[1]
             k == Len(p.bytes)
             d == SubSeq(p.bytes, n + 1, Len(p.bytes))
             e == SubSeq(p.bytes, 1, n)
  <2>1. /\ UNCHANGED <<at, read_state, owed>> /\ l # <<>> /\ p \in packets /\ p.id = c.id
        /\ p.type = "DATA" /\ c.offset = F(at).offset /\ n \in 1..k /\ Len(buf) + n <= size
        /\ n < k => Len(buf) + n = size
        /\ Becomes(at, F(at).open, F(at).offset + n, F(at).offset_sent - (c.len - k),
             F(at).acked, d, F(at).eof, Tail(l))
        /\ buf' = buf \o e
        /\ pc' = (IF Len(buf) + n < size THEN "rrecv" ELSE "rreturn")
        /\ p.code # "BAD"
    BY <1>9 DEF RrGot, RrData, First
  <2>2. c.offset \in Int /\ c.len \in Nat /\ l \in Seq(ChunkSet)
    BY <1>0, <2>1, FirstTyped
  <2>3. k \in 1..c.len /\ p.bytes = Bytes(at, c.offset, k) /\ p.bytes \in Seq(Handles \X Int)
    BY <1>0, <2>1, AnswerRead
  <2>4. k \in Nat /\ n \in 0..k /\ n \in Nat /\ n > 0 /\ n <= k
    BY <2>1, <2>2, <2>3
  <2>5. /\ e \in Seq(Handles \X Int) /\ Len(e) = n /\ d \in Seq(Handles \X Int) /\ Len(d) = k - n
        /\ e = Bytes(at, c.offset, n) /\ d = Bytes(at, c.offset + n, k - n)
    BY <1>0, <2>2, <2>3, <2>4, Cut, BytesCut, ZenonT(60)
  <2>6. Total(l) = c.len + Total(Tail(l)) /\ Total(l) \in Nat /\ Total(Tail(l)) \in Nat
    BY <2>1, <2>2, TotalTail, TotalNat, TailOf
  <2>7. /\ F(at).offset = pos[at] + Len(buf) /\ F(at).acked = 0
        /\ mood # "odd" /\ ~F(at).eof => F(at).offset_sent = F(at).offset + Total(l)
    <3>1. Len(F(at).data) = 0
      BY <1>2
    <3> QED
      BY <1>0, <1>2, <2>6, <3>1 DEF FileReads
  <2> HIDE DEF l, c, k, d, e
  <2>8. buf' = Bytes(at, pos[at], Len(buf) + n) /\ Len(buf') = Len(buf) + n /\ buf' # <<>>
    <3>1. buf = Bytes(at, pos[at], Len(buf))
      BY <1>2 DEF Taken
    <3>2. e = Bytes(at, pos[at] + Len(buf), n)
      BY <2>1, <2>5, <2>7
    <3>3. buf \o e = Bytes(at, pos[at], Len(buf) + n)
      <4> DEFINE b == Len(buf)
      <4>1. b \in Nat /\ n \in Nat /\ pos[at] \in Int /\ at \in Handles
        BY <1>0, <2>4
      <4>2. buf = Bytes(at, pos[at], b) /\ e = Bytes(at, pos[at] + b, n)
        BY <3>1, <3>2
      <4> HIDE DEF b
      <4>3. Bytes(at, pos[at], b) \o Bytes(at, pos[at] + b, n) = Bytes(at, pos[at], b + n)
        BY <4>1, BytesJoin
      <4>4. buf \o e = Bytes(at, pos[at], b + n)
        BY <4>2, <4>3, Zenon
      <4> QED
        BY <4>4 DEF b
    <3>4. Len(buf') = Len(buf) + n
      BY <1>0, <2>1, <2>5
    <3>5. Len(buf') > 0
      BY <1>0, <2>4, <3>4
    <3>6. buf' # <<>>
      BY <3>5
    <3> QED
      BY <2>1, <3>3, <3>4, <3>6
  <2>9. FileReads(at, file'[at], pos[at], Len(buf'))
    <3>1. d = Bytes(at, F(at).offset + n, Len(d))
      BY <2>1, <2>5
    <3>2. F(at).offset + n = pos[at] + (Len(buf) + n)
      BY <1>0, <2>4, <2>7
    <3>3. ASSUME mood # "odd", ~F(at).eof
          PROVE  F(at).offset_sent - (c.len - k) = ((F(at).offset + n) + Len(d)) + Total(Tail(l))
      <4>1. \A a, o, j, i, b, t \in Int :
               a = o + (b + t) => a - (b - i) = ((o + j) + (i - j)) + t
        OBVIOUS
      <4>2. F(at).offset_sent = F(at).offset + (c.len + Total(Tail(l)))
        BY <2>6, <2>7, <3>3
      <4>3. /\ F(at).offset_sent \in Int /\ F(at).offset \in Int /\ n \in Int /\ k \in Int
            /\ c.len \in Int /\ Total(Tail(l)) \in Int
        BY <1>0, <2>2, <2>4, <2>6
      <4>4. F(at).offset_sent - (c.len - k) = ((F(at).offset + n) + (k - n)) + Total(Tail(l))
        BY <4>1, <4>2, <4>3
      <4> QED
        BY <2>5, <4>4
    <3> QED
      BY <2>1, <2>7, <2>8, <3>1, <3>2, <3>3 DEF FileReads, Becomes
  <2>10. Books'
    BY <1>0, <1>1, <1>2, <2>1, <2>9, ReadOne DEF Becomes
  <2>11. Taken'
    BY <1>1, <2>1, <2>8 DEF Taken, Bytes
  <2>12. pc' = "rrecv" => d = <<>>
    <3>1. ASSUME pc' = "rrecv" PROVE Len(d) = 0
      BY <1>0, <2>1, <2>4, <2>5, <3>1
    <3> QED
      BY <2>5, <3>1
  <2>13. Under' /\ Resume' /\ Sound'
    BY <1>2, <2>1, <2>8, <2>12 DEF Under, Resume, Sound, F, Becomes
  <2> QED
    BY <2>10, <2>11, <2>13 DEF Reads
<1> QED
  BY <1>4, <1>5, <1>6, <1>7, <1>8, <1>9, ReadRecvCases

LEMMA ReadStart ==
  ASSUME scene # "write", World, NEW f \in Handles, at' = f, pos' = pos, OtherFiles(f),
         \A g \in Handles : FileReads(g, file[g], pos[g], 0),
         FileReads(f, file'[f], pos[f], Len(buf'))
  PROVE  Books'
<1>1. ASSUME NEW g \in Handles PROVE FileReads(g, file'[g], pos'[g], IF g = at' THEN Len(buf') ELSE 0)
  BY DEF OtherFiles
<1> QED
  BY <1>1 DEF Books, FileReads, World

LEMMA CallReadReads ==
  ASSUME Base, Reads, ~MixHandles, NEW f \in Handles, NEW b \in Nat \ {0}, CallRead(f, b)
  PROVE  Reads'
<1>0. /\ Shape /\ pc = "app" /\ scene # "write" /\ F(f).open /\ F(f).list \in Seq(ChunkSet)
      /\ F(f).data \in Seq(Handles \X Int) /\ F(f).offset \in Int /\ F(f).offset_sent \in Int
      /\ pos[f] \in Int /\ Len(F(f).data) \in Nat
  BY FileTyped DEF Base, Core, Shape, CallRead, F
<1>1. /\ World /\ UNCHANGED pos /\ at' = f /\ owed' = 0 /\ read_state' = "idle" /\ MayUse(f)
  BY DEF CallRead, World, worldVars
<1>2. /\ buf = <<>> /\ \A g \in Handles : FileReads(g, file[g], pos[g], 0)
      /\ FileReads(f, F(f), pos[f], 0)
  BY <1>0, AppNone DEF F
<1>3. Resume'
  BY <1>1 DEF Resume
<1>4. ASSUME NEW n, RLeft(f, b, n) PROVE Reads'
  <2> DEFINE d == SubSeq(F(f).data, n + 1, Len(F(f).data))
             k == Len(F(f).data)
  <2>1. /\ n \in 1..k /\ buf' = SubSeq(F(f).data, 1, n) /\ pc' = "rreturn"
        /\ Becomes(f, F(f).open, F(f).offset + n, F(f).offset_sent, F(f).acked, d, F(f).eof, F(f).list)
    BY <1>4 DEF RLeft
  <2>2. n \in 0..k /\ n \in Nat /\ k \in Nat
    BY <1>0, <2>1
  <2>3. /\ Len(buf') = n /\ Len(d) = k - n
        /\ buf' = Bytes(f, F(f).offset, n) /\ d = Bytes(f, F(f).offset + n, k - n)
    <3>1. F(f).data = Bytes(f, F(f).offset, Len(F(f).data))
      BY <1>2 DEF FileReads
    <3> DEFINE w == F(f).data
    <3>2. w \in Seq(Handles \X Int) /\ w = Bytes(f, F(f).offset, Len(w)) /\ n \in 0..Len(w)
      BY <1>0, <2>2, <3>1
    <3>3. d = SubSeq(w, n + 1, Len(w)) /\ buf' = SubSeq(w, 1, n) /\ k = Len(w)
      BY <2>1
    <3> HIDE DEF w, d, k
    <3>4. /\ Len(SubSeq(w, 1, n)) = n /\ Len(SubSeq(w, n + 1, Len(w))) = Len(w) - n
      BY <3>2, Cut
    <3>5. /\ SubSeq(w, 1, n) = Bytes(f, F(f).offset, n)
          /\ SubSeq(w, n + 1, Len(w)) = Bytes(f, F(f).offset + n, Len(w) - n)
      BY <1>0, <3>2, BytesCut
    <3> QED
      BY <3>3, <3>4, <3>5
  <2>4. F(f).offset = pos[f] /\ F(f).acked = 0
    BY <1>0, <1>2 DEF FileReads
  <2> HIDE DEF d, k
  <2>5. FileReads(f, file'[f], pos[f], Len(buf'))
    <3>1. ASSUME mood # "odd", F(f).open, ~F(f).eof
          PROVE  F(f).offset_sent = ((F(f).offset + n) + Len(d)) + Total(F(f).list)
      <4>1. F(f).offset_sent = (F(f).offset + k) + Total(F(f).list)
        BY <1>2, <3>1 DEF FileReads, k
      <4>2. (F(f).offset + n) + Len(d) = F(f).offset + k
        BY <1>0, <2>2, <2>3
      <4> QED
        BY <4>1, <4>2
    <3>2. d = Bytes(f, F(f).offset + n, Len(d)) /\ F(f).offset + n = pos[f] + Len(buf')
      BY <2>3, <2>4
    <3> QED
      BY <2>1, <2>4, <3>1, <3>2 DEF FileReads, Becomes
  <2>6. Books'
    BY <1>0, <1>1, <1>2, <2>1, <2>5, ReadStart DEF Becomes
  <2>7. Taken'
    BY <1>1, <2>1, <2>3, <2>4 DEF Taken, Bytes
  <2>8. Under' /\ Sound'
    BY <2>1 DEF Under, Sound
  <2> QED
    BY <1>3, <2>6, <2>7, <2>8 DEF Reads
<1>5. ASSUME NEW new, RBuild(f, b, new) PROVE Reads'
  <2>1. /\ F(f).data = <<>> /\ ~F(f).eof /\ new \in Seq(ChunkSet)
        /\ new = <<>> => F(f).offset_sent - F(f).offset >= 4 * b
        /\ Becomes(f, F(f).open, F(f).offset, F(f).offset_sent + Total(new), F(f).acked, F(f).data, F(f).eof,
                   F(f).list \o new)
        /\ buf' = <<>> /\ pc' = "rsend"
    BY <1>5 DEF RBuild, Built
  <2>2. Total(F(f).list \o new) = Total(F(f).list) + Total(new) /\ Total(new) \in Nat /\ Total(F(f).list) \in Nat
    BY <1>0, <2>1, TotalJoin, TotalNat
  <2>3. Len(F(f).data) = 0 /\ Len(buf') = 0
    BY <2>1
  <2>4. mood # "odd" => F(f).offset_sent = F(f).offset + Total(F(f).list)
    BY <1>0, <1>2, <2>1, <2>2, <2>3 DEF FileReads
  <2> DEFINE l == F(f).list \o new
  <2>5. FileReads(f, file'[f], pos[f], Len(buf'))
    <3>1. ASSUME mood # "odd"
          PROVE  F(f).offset_sent + Total(new) = (F(f).offset + 0) + Total(l)
      <4>1. \A o, s, t \in Int : (o + s) + t = (o + 0) + (s + t)
        OBVIOUS
      <4> QED
        BY <1>0, <2>2, <2>4, <3>1, <4>1
    <3> HIDE DEF l
    <3> QED
      BY <1>2, <2>1, <2>3, <3>1 DEF FileReads, Becomes, l
  <2>6. Books'
    BY <1>0, <1>1, <1>2, <2>1, <2>5, ReadStart DEF Becomes
  <2>7. Taken'
    <3>1. buf' = Bytes(at', pos'[at'], Len(buf'))
      BY <1>0, <1>1, <2>1, NoBytes
    <3> QED
      BY <2>1, <3>1 DEF Taken, Bytes
  <2>8. Under'
    BY <1>0, <1>1, <2>1 DEF Under, F, Becomes
  <2>9. mood # "odd" => l # <<>>
    <3>1. CASE new # <<>>
      <4>1. Len(new) > 0 /\ Len(l) = Len(F(f).list) + Len(new) /\ Len(F(f).list) \in Nat
        BY <1>0, <2>1, <3>1, JoinOf
      <4>2. Len(l) > 0
        BY <2>1, <4>1
      <4> HIDE DEF l
      <4> QED
        BY <4>2
    <3>2. CASE new = <<>>
      <4>1. ASSUME mood # "odd" PROVE Total(F(f).list) > 0
        <5>1. \A o, s \in Int, t \in Nat : s = o + t /\ s - o >= 4 * b => t > 0
          OBVIOUS
        <5> QED
          BY <1>0, <2>1, <2>2, <2>4, <3>2, <4>1, <5>1
      <4>2. mood # "odd" => F(f).list # <<>>
        BY <2>2, <4>1, EmptyList
      <4>3. l = F(f).list
        BY <1>0, <3>2
      <4> QED
        BY <4>2, <4>3
    <3> QED
      BY <3>1, <3>2
  <2>10. Sound'
    BY <1>1, <2>1, <2>9 DEF Sound, F, Becomes, World
  <2> QED
    BY <1>3, <2>6, <2>7, <2>8, <2>10 DEF Reads
<1>6. CASE RResume
  <2>1. /\ file' = file /\ buf' = <<>> /\ read_state # "idle"
        /\ (read_state = "sent" /\ pc' = "rsend") \/ (read_state = "sent2" /\ pc' = "rrecv")
    BY <1>6 DEF RResume
  <2>2. f = owed /\ F(f).data = <<>> /\ F(f).list # <<>> /\ (read_state = "sent2" => Ready(F(f).list))
    <3>1. owed \in Handles /\ F(owed).open
      BY <1>0, <2>1 DEF Reads, Resume
    <3>2. f = owed
      BY <1>1, <3>1 DEF MayUse, F
    <3> QED
      BY <1>0, <2>1, <3>2 DEF Reads, Resume
  <2>3. OtherFiles(f) /\ FileReads(f, file'[f], pos[f], Len(buf'))
    <3>1. Len(buf') = 0
      BY <2>1
    <3> QED
      BY <1>2, <2>1, <3>1 DEF OtherFiles, F
  <2>4. Books'
    BY <1>0, <1>1, <1>2, <2>3, ReadStart
  <2>5. Taken'
    <3>1. buf' = Bytes(at', pos'[at'], Len(buf'))
      BY <1>0, <1>1, <2>1, NoBytes
    <3> QED
      BY <2>1, <3>1 DEF Taken, Bytes
  <2>6. Under' /\ Sound'
    BY <1>0, <1>1, <2>1, <2>2 DEF Under, Sound, F, World, Ready
  <2> QED
    BY <1>3, <2>4, <2>5, <2>6 DEF Reads
<1> QED
  BY <1>0, <1>4, <1>5, <1>6, CallReadCases

LEMMA InitReads ==
  ASSUME Init
  PROVE  Reads /\ Calm
<1>0. Core
  BY InitBase
<1>1. ASSUME NEW f \in Handles PROVE FileReads(f, file[f], pos[f], 0)
  <2>1. /\ file[f].list = <<>> /\ file[f].offset = 0 /\ file[f].offset_sent = 0 /\ file[f].acked = 0
        /\ file[f].data = <<>> /\ pos[f] = 0
    BY DEF Init, Fresh
  <2>2. <<>> = Bytes(f, 0, Len(<<>>))
    BY NoBytes
  <2> QED
    BY <2>1, <2>2, EmptyList DEF FileReads
<1>2. Books
  <2>1. \A f \in Handles : (IF f = at THEN Len(buf) ELSE 0) = 0
    BY DEF Init
  <2> QED
    BY <1>1, <2>1 DEF Books
<1>3. Taken
  <2>1. at \in Handles /\ pos[at] \in Int /\ buf = <<>>
    BY <1>0 DEF Base, Core, Shape, Init
  <2> QED
    BY <2>1, NoBytes DEF Taken
<1>4. Under /\ Resume /\ Sound
  BY DEF Init, Under, Resume, Sound
<1>5. Calm
  BY DEF Init, Fresh, Calm, F
<1> QED
  BY <1>2, <1>3, <1>4, <1>5 DEF Reads

(* Nothing is read where files are written.                                 *)
LEMMA CalmStays ==
  ASSUME Calm, World, scene = "write" => /\ buf' = <<>> /\ read_state' = "idle"
                                         /\ \A f \in Handles : file'[f].data \in {<<>>, F(f).data}
  PROVE  Calm'
  BY DEF Calm, World, F

LEMMA BecomesData ==
  ASSUME NEW f \in Handles, NEW a, NEW b, NEW c, NEW d, NEW data, NEW e, NEW l,
         Becomes(f, a, b, c, d, data, e, l), data \in {<<>>, F(f).data}
  PROVE  \A g \in Handles : file'[g].data \in {<<>>, F(g).data}
  BY DEF Becomes, OtherFiles, F

LEMMA NextCalm ==
  ASSUME Base, Wrote, Calm, [Next]_vars
  PROVE  Calm'
<1>0. Shape /\ at \in Handles
  BY DEF Base, Core, Shape
<1>1. ASSUME scene # "write", World PROVE Calm'
  BY <1>1 DEF Calm, World
<1>2. ASSUME NEW f \in Handles, ReadSome(f) PROVE Calm'
  BY <1>1, <1>2 DEF ReadSome, CallRead, World, worldVars
<1>3. CASE ReadSend \/ ReadRecv \/ ReadReturn
  BY <1>1, <1>3 DEF Base, Core, Place, Wrote, Writing, ReadSend, ReadRecv, ReadReturn, World, worldVars
<1>4. ASSUME NEW f \in Handles, NEW n \in Buffers, CallWrite(f, n) PROVE Calm'
  <2>1. World /\ UNCHANGED <<buf, read_state>>
    BY <1>4 DEF CallWrite, World, worldVars
  <2>2. \A g \in Handles : file'[g].data \in {<<>>, F(g).data}
    <3>1. ASSUME NEW new, WBuild(f, n, new) PROVE \A g \in Handles : file'[g].data \in {<<>>, F(g).data}
      BY <3>1, BecomesData DEF WBuild
    <3>2. CASE WResume
      BY <3>2 DEF WResume, F
    <3> QED
      BY <1>0, <1>4, <3>1, <3>2, CallWriteCases, SizeTyped
  <2> QED
    BY <2>1, <2>2, CalmStays DEF Calm
<1>5. ASSUME NEW f \in Handles, NEW o \in {0, 1}, Seek(f, o) PROVE Calm'
  <2>1. World /\ UNCHANGED <<buf, read_state>>
    BY <1>5 DEF Seek, World, worldVars, callVars
  <2>2. \A g \in Handles : file'[g].data \in {<<>>, F(g).data}
    <3>1. Becomes(f, F(f).open, o, o, F(f).acked, <<>>, FALSE, <<>>)
      <4>1. o \in Int
        OBVIOUS
      <4> QED
        BY <1>0, <1>5, <4>1, SeekCases, Zenon
    <3>2. file'[f].data = <<>> /\ OtherFiles(f)
      BY <3>1 DEF Becomes
    <3> QED
      BY <3>2 DEF OtherFiles, F
  <2> QED
    BY <2>1, <2>2, CalmStays DEF Calm
<1>6. ASSUME NEW f \in Handles, CallOp(f) PROVE Calm'
  <2>1. World /\ UNCHANGED <<read_state, file>> /\ buf' = <<>>
    BY <1>6 DEF CallOp, World, worldVars
  <2> QED
    BY <2>1, CalmStays DEF Calm, F
<1>7. CASE WriteSend
  <2>1. World /\ read_state' = read_state
    BY <1>7 DEF WriteSend, World, worldVars, sftpVars
  <2>2. buf' \in {<<>>, buf} /\ \A g \in Handles : file'[g].data \in {<<>>, F(g).data}
    <3>1. CASE WsDone \/ WsAgain
      BY <3>1, Backs DEF WsDone, WsAgain, Stay, ReturnAgain, F
    <3>2. ASSUME NEW i, NEW v, WsOut(i, v)
          PROVE  buf' \in {<<>>, buf} /\ \A g \in Handles : file'[g].data \in {<<>>, F(g).data}
      BY <1>0, <3>2, BecomesData DEF WsOut, SendOut, SentFile
    <3> QED
      BY <1>7, <3>1, <3>2, WriteSendCases
  <2> QED
    BY <2>1, <2>2, CalmStays DEF Calm
<1>8. CASE WriteAck
  <2>1. World /\ read_state' = read_state
    BY <1>8 DEF WriteAck, World, worldVars
  <2>2. buf' \in {<<>>, buf} /\ \A g \in Handles : file'[g].data \in {<<>>, F(g).data}
    <3>1. ASSUME NEW r, WaReport(r)
          PROVE  buf' \in {<<>>, buf} /\ \A g \in Handles : file'[g].data \in {<<>>, F(g).data}
      BY <1>0, <3>1, Backs, BecomesData DEF WaReport, Return
    <3>2. CASE WaMore \/ WaAgain
      BY <3>2, Backs DEF WaMore, WaAgain, Stay, ReturnAgain, F
    <3>3. ASSUME NEW p, WaShort(p)
          PROVE  buf' \in {<<>>, buf} /\ \A g \in Handles : file'[g].data \in {<<>>, F(g).data}
      BY <3>3, Backs DEF WaShort, Return, F
    <3>4. ASSUME NEW p, WaFail(p)
          PROVE  buf' \in {<<>>, buf} /\ \A g \in Handles : file'[g].data \in {<<>>, F(g).data}
      BY <1>0, <3>4, Backs, BecomesData DEF WaFail, Return
    <3>5. ASSUME NEW p, NEW r, WaOk(p, r)
          PROVE  buf' \in {<<>>, buf} /\ \A g \in Handles : file'[g].data \in {<<>>, F(g).data}
      BY <1>0, <3>5, Backs, BecomesData DEF WaOk, Return
    <3> QED
      BY <1>8, <3>1, <3>2, <3>3, <3>4, <3>5, WriteAckCases
  <2> QED
    BY <2>1, <2>2, CalmStays DEF Calm
<1>9. ASSUME World, buf' \in {<<>>, buf},
             UNCHANGED <<file, read_state>> \/ \E f \in Handles : \E ps : Drop(f, ps)
      PROVE  Calm'
  <2>1. CASE UNCHANGED <<file, read_state>>
    BY <1>9, <2>1, CalmStays DEF Calm, F
  <2>2. ASSUME NEW f \in Handles, NEW ps, Drop(f, ps) PROVE Calm'
    <3>1. read_state' = "idle"
      BY <2>2 DEF Drop
    <3>2. \A g \in Handles : file'[g].data \in {<<>>, F(g).data}
      BY <1>0, <2>2, DropCases, BecomesData
    <3> QED
      BY <1>9, <3>1, <3>2, CalmStays DEF Calm
  <2> QED
    BY <1>9, <2>1, <2>2
<1>10. CASE OpSend
  <2>1. World
    BY <1>10 DEF OpSend, World, worldVars
  <2> QED
    BY <1>0, <1>9, <1>10, <2>1, Backs, OpSendCases DEF OsAll, OsAgain, OsPart, Stay, Return
<1>11. CASE OpWait
  <2>1. World
    BY <1>11 DEF OpWait, World, worldVars
  <2>2. CASE OwMore \/ OwBack
    BY <1>9, <2>1, <2>2, Backs DEF OwMore, OwBack, Stay, Return
  <2>3. ASSUME NEW p, OwAnswer(p) PROVE Calm'
    <3>1. buf' \in {<<>>, buf}
      BY <2>3, Backs DEF OwAnswer, OpAnswer, Stay, Return
    <3>2. UNCHANGED <<file, read_state>> \/ Drop(at, packets \ {p})
      BY <2>3 DEF OwAnswer, OpAnswer
    <3> QED
      BY <1>0, <1>9, <2>1, <3>1, <3>2
  <2> QED
    BY <1>11, <2>2, <2>3, OpWaitCases
<1>12. CASE ReaddirPop \/ SftpInit \/ SftpInitError \/ Shutdown \/ UNCHANGED vars
  <2>1. World /\ UNCHANGED <<file, buf>>
    BY <1>12, Aparts DEF Apart
  <2>2. read_state' = read_state
    BY <1>12 DEF ReaddirPop, SftpInit, SftpInitError, Shutdown, vars, sftpVars
  <2> QED
    BY <1>9, <2>1, <2>2
<1> QED
  BY <1>2, <1>3, <1>4, <1>5, <1>6, <1>7, <1>8, <1>10, <1>11, <1>12 DEF Next

LEMMA NextReads ==
  ASSUME Base, Reads, ~MixHandles, [Next]_vars
  PROVE  Reads'
<1>0. Shape /\ at \in Handles /\ pos \in [Handles -> Int]
  BY DEF Base, Core, Shape
<1>1. CASE scene = "write" /\ World
  BY <1>1 DEF Reads, World
<1>2. CASE scene # "write"
  <2>1. ASSUME NEW f \in Handles, ReadSome(f) PROVE Reads'
    BY <2>1, CallReadReads, SizeTyped DEF ReadSome
  <2>2. ASSUME NEW f \in Handles, NEW o \in {0, 1}, Seek(f, o) PROVE Reads'
    BY <1>2, <2>2, SeekReads
  <2>3. ASSUME NEW f \in Handles, CallOp(f) PROVE Reads'
    <3>1. /\ World /\ UNCHANGED <<file, pos, owed, read_state>> /\ pc = "app" /\ pc' \in {"osend", "owait"}
          /\ buf' = <<>> /\ at' = f
      BY <2>3 DEF CallOp, World, worldVars, appVars, bookVars
    <3> QED
      BY <1>0, <1>2, <3>1, ReadSame
  <2>4. CASE ReaddirPop \/ SftpInit \/ SftpInitError \/ Shutdown \/ UNCHANGED vars
    <3>1. World /\ UNCHANGED <<file, pos, buf, at, pc>>
      BY <2>4, Aparts DEF Apart
    <3>2. UNCHANGED <<read_state, owed>>
      BY <2>4 DEF ReaddirPop, SftpInit, SftpInitError, Shutdown, vars, sftpVars, appVars
    <3> QED
      BY <1>2, <3>1, <3>2 DEF Reads, Books, FileReads, Taken, Under, Resume, Sound, F, World, Ready, Bytes
  <2>5. CASE WriteSend \/ WriteAck
    BY <1>2, <2>5 DEF WriteSend, WriteAck, Base, Core, Place
  <2>6. ASSUME NEW f \in Handles, NEW n \in Buffers, CallWrite(f, n) PROVE Reads'
    BY <1>2, <2>6 DEF CallWrite
  <2> QED
    BY <1>2, <2>1, <2>2, <2>3, <2>4, <2>5, <2>6, ReadSendReads, ReadRecvReads, ReadReturnReads, OpSendReads,
       OpWaitReads DEF Next
<1>3. scene' = scene
  BY ZenonT(60) DEF Next, vars, worldVars, ReadSome, CallRead, CallWrite, Seek, CallOp, ReadSend,
         ReadRecv, ReadReturn,
         WriteSend, WriteAck, OpSend, OpWait, ReaddirPop, SftpInit, SftpInitError, Shutdown
<1>4. CASE scene = "write"
  BY <1>3, <1>4 DEF Reads
<1> QED
  BY <1>2, <1>4

LEMMA ReadsShow ==
  ASSUME Base, Wrote, Reads, Calm
  PROVE  ReadsAreFile /\ NeverReached
<1>0. Shape /\ at \in Handles /\ pos[at] \in Int
  BY DEF Base, Core, Shape
<1>1. buf = Bytes(at, pos[at], Len(buf))
  <2>1. CASE scene = "write"
    BY <1>0, <2>1, NoBytes DEF Calm
  <2>2. CASE scene # "write"
    BY <2>2 DEF Reads, Taken
  <2> QED
    BY <2>1, <2>2
<1>2. ASSUME NEW f \in Handles, file[f].open, pc \notin {"rrecv", "rreturn", "error"}
      PROVE  file[f].offset = pos[f] + file[f].acked
  <2>0. pos[f] \in Int
    BY <1>0 DEF Shape
  <2>1. CASE scene = "write"
    BY <2>1 DEF Wrote, Writing, FileWrites
  <2>2. CASE scene # "write"
    <3>1. FileReads(f, file[f], pos[f], 0)
      BY <1>2, <2>2, AppNone
    <3> QED
      BY <2>0, <3>1 DEF FileReads
  <2> QED
    BY <2>1, <2>2
<1>3. ASSUME NEW f \in Handles, file[f].open, mood = "plain", ~file[f].eof
      PROVE  file[f].offset_sent = file[f].offset + Len(file[f].data) + Total(file[f].list)
  <2>0. file[f].offset \in Int /\ Len(file[f].data) \in Nat /\ Total(file[f].list) \in Nat
    BY <1>0, FileTyped, TotalNat DEF Shape
  <2>1. CASE scene = "write"
    <3>1. Len(file[f].data) = 0
      BY <2>1 DEF Calm, F
    <3>2. file[f].offset_sent = file[f].offset + Total(file[f].list)
      BY <1>3, <2>1 DEF Wrote, Writing, FileWrites
    <3> QED
      BY <2>0, <3>1, <3>2
  <2>2. CASE scene # "write"
    <3>1. file[f].offset_sent = (file[f].offset + Len(file[f].data)) + Total(file[f].list)
      BY <1>3, <2>2 DEF Reads, Books, FileReads
    <3> QED
      BY <2>0, <3>1
  <2> QED
    BY <2>1, <2>2
<1>4. NeverReached
  BY DEF Reads, Sound, Wrote, Writing, NeverReached
<1> QED
  BY <1>1, <1>2, <1>3, <1>4 DEF ReadsAreFile

LEMMA ReadsHold ==
  ASSUME ~MixHandles, ~MixCalls
  PROVE  Spec => [](Reads /\ Calm)
<1>1. Init => Reads /\ Calm
  BY InitReads
<1>2. Base /\ Wrote /\ Reads /\ Calm /\ [Next]_vars => Reads' /\ Calm'
  BY NextReads, NextCalm
<1> QED
  BY <1>1, <1>2, BaseHolds, WroteHolds, PTL DEF Spec

(* sftp_read(): the buffer is filled with the bytes of that file that       *)
(* follow the application's position, in order, and the library and the     *)
(* application agree on the position, whatever order the pipelined answers  *)
(* come in, short ones and failures included.  The application finishes a   *)
(* read that got EAGAIN before it reads another handle, and a call that     *)
(* left a request half sent before any other that sends.                    *)
THEOREM ReadsFile ==
  ASSUME ~MixHandles, ~MixCalls
  PROVE  Spec => []ReadsAreFile
<1>1. Base /\ Wrote /\ Reads /\ Calm => ReadsAreFile
  BY ReadsShow
<1> QED
  BY <1>1, BaseHolds, WroteHolds, ReadsHold, PTL

(* sftp_read() does not come to the point of which its comment says "we     *)
(* should never reach this point", unless the server fails a read.  The     *)
(* application finishes a read that got EAGAIN first, and a call that left  *)
(* a request half sent.                                                     *)
THEOREM FaultsNever ==
  ASSUME ~MixHandles, ~MixCalls
  PROVE  Spec => []NeverReached
<1>1. Base /\ Wrote /\ Reads /\ Calm => NeverReached
  BY ReadsShow
<1> QED
  BY <1>1, BaseHolds, WroteHolds, ReadsHold, PTL

-----------------------------------------------------------------------------
(* Servers that answer as expected answer once.                             *)

One(Q, P) ==
  /\ \A r, s \in Q : r.id = s.id => r = s
  /\ \A p, q \in P : p.id = q.id => p = q
  /\ \A r \in Q, p \in P : r.id # p.id

Once == mood # "odd" => One(pending, packets)

LEMMA OneLess ==
  ASSUME NEW Q, NEW P, One(Q, P), NEW X, NEW R, X \subseteq Q, R \subseteq P
  PROVE  One(X, R)
  BY DEF One

LEMMA OneMore ==
  ASSUME NEW Q, NEW P, One(Q, P), NEW r, \A s \in Q : s.id # r.id, \A p \in P : p.id # r.id
  PROVE  One(Q \cup {r}, P)
  BY DEF One

LEMMA OneGot ==
  ASSUME NEW Q, NEW P, One(Q, P), NEW r \in Q, NEW p, p.id = r.id, NEW R, R \subseteq P \cup {p}
  PROVE  One(Q \ {r}, R)
  BY DEF One

LEMMA Served ==
  ASSUME Shape, mood # "odd", PacketRead
  PROVE  \E r \in pending : \E p : pending' = pending \ {r} /\ Came(r, p)
<1>1. PICK r \in pending : Serve(r)
  BY DEF PacketRead
<1>2. /\ pending' = pending \ {r} /\ (ServeRead(r) \/ ServeWrite(r) \/ ServeDir(r) \/ ServeOp(r))
  BY <1>1 DEF Serve, ServeTwice
<1>3. r.len \in Nat /\ r.offset \in Int
  BY DEF Shape, RequestSet
<1>4. \E p : Came(r, p)
  BY <1>2, <1>3, CameRead, CameWrite, CameOther
<1> QED
  BY <1>2, <1>4

(* A request nobody knows is made.                                          *)
Asked(r) == /\ packets' = packets /\ pending' = pending \cup {r}
            /\ \A s \in pending : s.id # r.id
            /\ \A p \in packets : p.id # r.id

Fewer == pending' = pending /\ packets' \subseteq packets

LEMMA SendFlow ==
  ASSUME Base, NEW i, NEW v, SendOut(i, v), packets' = packets
  PROVE  Fewer \/ \E r : Asked(r)
<1>1. Shape /\ Owns /\ at \in Handles /\ F(at).list \in Seq(ChunkSet)
  BY FileTyped DEF Base, Core, Shape, F
<1> DEFINE r == Request(Doing, at, F(at).list[i])
<1>2. i \in 1..Len(F(at).list) /\ F(at).list[i].sent # 2 /\ (pending' = pending \/ pending' = pending \cup {r})
  BY <1>1, ChunkTyped DEF SendOut, SentFile, Passed
<1>3. r.id = F(at).list[i].id /\ Lists[at] = F(at).list
  BY <1>1 DEF Request, Lists, F
<1> HIDE DEF r
<1>4. /\ \A s \in pending : s.id # r.id
      /\ \A p \in packets : p.id # r.id
  BY <1>1, <1>2, <1>3 DEF Owns, Owned, Matched
<1> QED
  BY <1>2, <1>4 DEF Asked, Fewer

LEMMA DropFlow ==
  ASSUME Base, NEW f \in Handles, NEW ps, ps \subseteq packets, Drop(f, ps), pending' = pending
  PROVE  Fewer
<1>1. F(f).list \in Seq(ChunkSet)
  BY FileTyped DEF Base, Core, Shape, F
<1>2. packets' \subseteq ps
  BY <1>1, Flushed DEF Drop, F
<1> QED
  BY <1>2 DEF Fewer

LEMMA OpSendFlow ==
  ASSUME Base, OpSend
  PROVE  Fewer \/ \E r : Asked(r)
<1>0. Shape /\ Owns /\ at \in Handles /\ op.state = "created"
  BY DEF Base, Core, Shape, Place, OpSend
<1>1. CASE OsAll
  <2>1. OsRequest.id = op.id
    BY DEF OsRequest
  <2>2. /\ \A s \in pending : s.id # op.id
        /\ \A p \in packets : p.id # op.id
    BY <1>0 DEF Owns, Owned, OpMatched
  <2> QED
    BY <1>1, <2>1, <2>2 DEF OsAll, Asked, Fewer
<1>2. CASE OsAgain
  BY <1>2 DEF OsAgain, Fewer
<1>3. CASE OsPart
  <2>1. CASE Drop(at, packets)
    BY <1>0, <1>3, <2>1, DropFlow DEF OsPart
  <2>2. CASE UNCHANGED packets
    BY <1>3, <2>2 DEF OsPart, Fewer
  <2> QED
    BY <1>3, <2>1, <2>2 DEF OsPart
<1> QED
  BY <1>1, <1>2, <1>3, OpSendCases

LEMMA OpWaitFlow ==
  ASSUME Base, OpWait
  PROVE  Fewer \/ PacketRead
<1>0. at \in Handles
  BY DEF Base, Core, Shape
<1>1. CASE OwMore \/ OwBack
  BY <1>1 DEF OwMore, OwBack, Fewer
<1>2. ASSUME NEW p, OwAnswer(p) PROVE Fewer
  <2>1. pending' = pending
    BY <1>2 DEF OwAnswer
  <2> DEFINE ps == packets \ {p}
  <2>2. Drop(at, ps) \/ packets' = ps
    BY <1>2 DEF OwAnswer, OpAnswer
  <2>3. ps \subseteq packets
    OBVIOUS
  <2> HIDE DEF ps
  <2> QED
    BY <1>0, <2>1, <2>2, <2>3, DropFlow DEF Fewer
<1> QED
  BY <1>1, <1>2, OpWaitCases

LEMMA ReadRecvFlow ==
  ASSUME Base, ReadRecv
  PROVE  Fewer \/ PacketRead
<1>0. Shape /\ at \in Handles
  BY DEF Base, Core, Shape
<1>1. CASE RrEnd \/ RrMore \/ RrAgain
  BY <1>1 DEF RrEnd, RrMore, RrAgain, Fewer
<1>2. ASSUME NEW p, RrGot, RrBad(p) PROVE Fewer
  BY <1>2 DEF RrGot, RrBad, Fewer
<1>3. ASSUME NEW p, NEW n, RrGot, RrData(p, n) PROVE Fewer
  BY <1>3 DEF RrGot, RrData, Fewer
<1>4. ASSUME NEW p, RrGot, RrStatus(p) PROVE Fewer
  <2>1. F(at).list # <<>> /\ PacketlistFlush(Tail(F(at).list), packets \ {p})
    BY <1>4 DEF RrStatus, First
  <2>2. Tail(F(at).list) \in Seq(ChunkSet)
    BY <1>0, <2>1, FirstTyped, TailOf
  <2>3. packets' \subseteq packets \ {p}
    BY <2>1, <2>2, Flushed
  <2> QED
    BY <1>4, <2>3 DEF RrGot, Fewer
<1> QED
  BY <1>1, <1>2, <1>3, <1>4, ReadRecvCases

LEMMA WriteAckFlow ==
  ASSUME Base, WriteAck
  PROVE  Fewer \/ PacketRead
<1>0. Shape /\ at \in Handles
  BY DEF Base, Core, Shape
<1>1. ASSUME NEW r, WaReport(r) PROVE Fewer
  BY <1>1 DEF WaReport, Fewer
<1>2. CASE WaMore \/ WaAgain
  BY <1>2 DEF WaMore, WaAgain, Fewer
<1>3. ASSUME NEW p, WaGot, WaShort(p) PROVE Fewer
  BY <1>3 DEF WaGot, WaShort, Fewer
<1>4. ASSUME NEW p, NEW r, WaGot, WaOk(p, r) PROVE Fewer
  BY <1>4 DEF WaGot, WaOk, Fewer
<1>5. ASSUME NEW p, WaGot, WaFail(p) PROVE Fewer
  <2>1. F(at).list # <<>> /\ PacketlistFlush(F(at).list, packets \ {p})
    BY <1>5 DEF WaFail, First
  <2>2. F(at).list \in Seq(ChunkSet)
    BY <1>0, <2>1, FirstTyped
  <2>3. packets' \subseteq packets \ {p}
    BY <2>1, <2>2, Flushed
  <2> QED
    BY <1>5, <2>3 DEF WaGot, Fewer
<1> QED
  BY <1>1, <1>2, <1>3, <1>4, <1>5, WriteAckCases

(* A step makes a request, receives an answer, or drops answers.            *)
LEMMA NextFlow ==
  ASSUME Base, [Next]_vars
  PROVE  Fewer \/ PacketRead \/ \E r : Asked(r)
<1>1. ASSUME NEW f \in Handles, ReadSome(f) PROVE Fewer
  BY <1>1 DEF ReadSome, CallRead, Fewer, wireVars
<1>2. ASSUME NEW f \in Handles, NEW n \in Buffers, CallWrite(f, n) PROVE Fewer
  BY <1>2 DEF CallWrite, Fewer, wireVars
<1>3. ASSUME NEW f \in Handles, NEW o \in {0, 1}, Seek(f, o) PROVE Fewer
  <2>1. F(f).list \in Seq(ChunkSet) /\ PacketlistFlush(F(f).list, packets) /\ pending' = pending
    BY <1>3, FileTyped DEF Base, Core, Shape, F, Seek, wireVars
  <2> QED
    BY <2>1, Flushed DEF Fewer
<1>4. ASSUME NEW f \in Handles, CallOp(f) PROVE Fewer
  BY <1>4 DEF CallOp, Fewer, wireVars
<1>5. CASE ReaddirPop \/ SftpInit \/ SftpInitError \/ Shutdown \/ UNCHANGED vars
  BY <1>5, Aparts DEF Apart, Fewer
<1>6. CASE ReadReturn
  BY <1>6 DEF ReadReturn, Fewer, sftpVars, wireVars
<1>7. CASE ReadSend
  <2>1. packets' = packets
    BY <1>7 DEF ReadSend
  <2> QED
    BY <1>7, <2>1, ReadSendCases, SendFlow DEF RsDone, RsAgain, RsOut, Fewer
<1>8. CASE WriteSend
  <2>1. packets' = packets
    BY <1>8 DEF WriteSend, sftpVars
  <2> QED
    BY <1>8, <2>1, WriteSendCases, SendFlow DEF WsDone, WsAgain, WsOut, Fewer
<1> QED
  BY <1>1, <1>2, <1>3, <1>4, <1>5, <1>6, <1>7, <1>8, ReadRecvFlow, WriteAckFlow, OpSendFlow, OpWaitFlow DEF Next

LEMMA SceneKept ==
  ASSUME [Next]_vars
  PROVE  World
  BY ZenonT(60) DEF Next, vars, worldVars, ReadSome, CallRead, CallWrite, Seek, CallOp, ReadSend,
         ReadRecv, ReadReturn,
         WriteSend, WriteAck, OpSend, OpWait, ReaddirPop, SftpInit, SftpInitError, Shutdown, World

LEMMA NextOnce ==
  ASSUME Base, Once, [Next]_vars
  PROVE  Once'
<1>0. World /\ Shape
  BY SceneKept DEF Base, Core
<1>1. ASSUME mood # "odd" PROVE One(pending', packets')
  <2>0. One(pending, packets)
    BY <1>1 DEF Once
  <2>1. CASE Fewer
    BY <2>0, <2>1, OneLess DEF Fewer
  <2>2. ASSUME NEW r, Asked(r) PROVE One(pending', packets')
    BY <2>0, <2>2, OneMore DEF Asked
  <2>3. CASE PacketRead
    <3>0. PICK r \in pending : \E p : pending' = pending \ {r} /\ Came(r, p)
      BY <1>0, <1>1, <2>3, Served
    <3>1. PICK p : pending' = pending \ {r} /\ Came(r, p)
      BY <3>0
    <3>2. packets' \subseteq packets \cup {p} /\ p.id = r.id
      BY <3>1 DEF Came, PacketAdd
    <3> DEFINE R == packets'
    <3> HIDE DEF R
    <3>3. One(pending \ {r}, R)
      BY <2>0, <3>2, OneGot DEF R
    <3> QED
      BY <3>1, <3>3 DEF R
  <2> QED
    BY <2>1, <2>2, <2>3, NextFlow
<1> QED
  BY <1>0, <1>1 DEF Once, World, One

LEMMA OnceHolds ==
  ASSUME ~MixCalls
  PROVE  Spec => []Once
<1>1. Init => Once
  BY DEF Init, Once, One
<1>2. Base /\ Once /\ [Next]_vars => Once'
  BY NextOnce
<1> QED
  BY <1>1, <1>2, BaseHolds, PTL DEF Spec

-----------------------------------------------------------------------------
(* Listing a directory: the names the application has yet to be given, those *)
(* on the way, and how much the server has listed.                          *)

Counts(s, a) == s \in Seq(Int) /\ \A i \in 1..Len(s) : s[i] = a + i

Names(P) == {p \in P : p.type = "NAME"}

Busy == pc # "app" => init_state = "up"

(* All that is on the way follows what was handed out.                      *)
Fetching ==
  /\ op.state # "idle" => names = <<>>
  /\ \A r \in pending : \/ r.kind = "read"
                        \/ r.kind = "readdir" /\ op.state = "sent" /\ r.id = op.id
  /\ \A p \in Names(packets) :
        /\ op.state = "sent" /\ p.id = op.id /\ Counts(p.bytes, listed)
        /\ cursor = listed + Len(p.bytes)
  /\ Names(packets) = {} => cursor = listed + Len(names)

Listing ==
  scene = "readdir" /\ mood # "odd" =>
    /\ listed \in Int /\ Counts(names, listed)
    /\ init_state # "down" => Fetching

Named == Busy /\ Listing /\ (scene # "readdir" => names = <<>>)

LEMMA KindIs ==
  ASSUME scene = "readdir"
  PROVE  /\ OpKind = "readdir" /\ Doing = "read"
         /\ K.replies = {"NAME", "STATUS"}
  BY DEF OpKind, K, AllKinds, Readdir, Kind, Doing

LEMMA BusyStays ==
  ASSUME Busy, [Next]_vars
  PROVE  Busy'
<1>1. CASE init_state' = init_state /\ (pc # "app" \/ init_state = "up" \/ pc' = pc)
  BY <1>1 DEF Busy
<1>2. CASE SftpInit \/ SftpInitError
  <2>1. init_state # "up" /\ pc' = pc
    BY <1>2 DEF SftpInit, SftpInitError, callVars
  <2> QED
    BY <2>1 DEF Busy
<1>3. CASE Shutdown
  BY <1>3 DEF Busy, Shutdown, callVars
<1>4. CASE ~(SftpInit \/ SftpInitError \/ Shutdown)
  BY <1>1, <1>4, ZenonT(60) DEF Next, vars, ReadSome, CallRead, CallWrite, Seek, CallOp, ReadSend,
         ReadRecv, ReadReturn,
         WriteSend, WriteAck, OpSend, OpWait, ReaddirPop, stateVars, callVars
<1> QED
  BY <1>2, <1>3, <1>4

(* The names are not touched.                                               *)
LEMMA ListKeep ==
  ASSUME Listing, World, UNCHANGED <<names, listed, cursor, op>>,
         init_state' # "down" => init_state # "down",
         \A r \in pending' : r \in pending \/ r.kind = "read",
         Names(packets') = Names(packets)
  PROVE  Listing'
<1>1. ASSUME Fetching PROVE Fetching'
  <2>1. \A p \in Names(packets') :
           /\ op'.state = "sent" /\ p.id = op'.id /\ Counts(p.bytes, listed')
           /\ cursor' = listed' + Len(p.bytes)
    BY <1>1 DEF Fetching
  <2> QED
    BY <1>1, <2>1 DEF Fetching, Counts, Names
<1> QED
  BY <1>1 DEF Listing, World, Counts

LEMMA NameKept ==
  ASSUME NEW P, NEW R, NEW p, R = P \ {p}, p.type # "NAME"
  PROVE  Names(R) = Names(P)
  BY DEF Names

LEMMA FlushNames ==
  ASSUME NEW l, NEW ps, PacketlistFlush(l, ps)
  PROVE  Names(packets') = Names(ps)
<1>1. packets' \subseteq ps /\ \A p \in ps : p.type \notin {"STATUS", "DATA"} => p \in packets'
  BY DEF PacketlistFlush
<1> QED
  BY <1>1 DEF Names

LEMMA DirServed ==
  ASSUME Shape, mood # "odd", PacketRead, cursor \in Int,
         \A r \in pending : r.kind \in {"read", "readdir"}
  PROVE  \E r \in pending : \E p :
           /\ pending' = pending \ {r} /\ PacketAdd(p) /\ p.id = r.id
           /\ \/ cursor' = cursor /\ p.type # "NAME"
              \/ /\ r.kind = "readdir" /\ p.type = "NAME" /\ Counts(p.bytes, cursor)
                 /\ cursor' = cursor + Len(p.bytes)
<1>1. PICK r \in pending : Serve(r)
  BY DEF PacketRead
<1>2. /\ pending' = pending \ {r} /\ (ServeRead(r) \/ ServeWrite(r) \/ ServeDir(r) \/ ServeOp(r))
  BY <1>1 DEF Serve, ServeTwice
<1>3. CASE ServeRead(r)
  <2>1. r.len \in Nat /\ r.offset \in Int /\ r.kind = "read" /\ cursor' = cursor
    BY <1>3 DEF Shape, RequestSet, ServeRead
  <2>2. PICK p : Came(r, p)
    BY <1>3, <2>1, CameRead
  <2>3. PacketAdd(p) /\ p.id = r.id /\ p.type \in {"DATA", "STATUS"}
    BY <2>1, <2>2 DEF Came, Fits
  <2>4. p.type # "NAME"
    BY <2>3
  <2> QED
    BY <1>2, <2>1, <2>3, <2>4
<1>4. CASE ServeDir(r)
  <2>0. r.kind = "readdir"
    BY <1>4 DEF ServeDir
  <2>1. ASSUME NEW k \in 1..(Entries - cursor),
               PacketAdd(Reply(r.id, "NAME", "OK", [i \in 1..k |-> cursor + i], FALSE)),
               cursor' = cursor + k
        PROVE  \E p : /\ PacketAdd(p) /\ p.id = r.id /\ p.type = "NAME" /\ Counts(p.bytes, cursor)
                      /\ cursor' = cursor + Len(p.bytes)
    <3> DEFINE b == [i \in 1..k |-> cursor + i]
               no == FALSE
               p == Reply(r.id, "NAME", "OK", b, no)
    <3>1. k \in Nat
      BY SftpAssumption
    <3>2. b \in Seq(Int) /\ Len(b) = k /\ \A i \in 1..k : b[i] = cursor + i
      BY <3>1
    <3>3. PacketAdd(p)
      BY <2>1
    <3> HIDE DEF b, no
    <3>4. p.id = r.id /\ p.type = "NAME" /\ p.bytes = b
      BY ReplyIs
    <3> HIDE DEF p
    <3> QED
      BY <2>1, <3>2, <3>3, <3>4 DEF Counts
  <2>2. ASSUME PacketAdd(Reply(r.id, "STATUS", "EOF", <<>>, FALSE)), cursor' = cursor
        PROVE  \E p : PacketAdd(p) /\ p.id = r.id /\ p.type # "NAME" /\ cursor' = cursor
    <3> DEFINE no == FALSE
               p == Reply(r.id, "STATUS", "EOF", <<>>, no)
    <3>1. PacketAdd(p)
      BY <2>2
    <3> HIDE DEF no
    <3>2. p.id = r.id /\ p.type = "STATUS"
      BY ReplyIs
    <3> HIDE DEF p
    <3> QED
      BY <2>2, <3>1, <3>2
  <2> QED
    BY <1>2, <1>4, <2>0, <2>1, <2>2 DEF ServeDir
<1>5. CASE ServeWrite(r) \/ ServeOp(r)
  BY <1>5, Kinds DEF ServeWrite, ServeOp
<1> QED
  BY <1>2, <1>3, <1>4, <1>5

LEMMA ListRead ==
  ASSUME Base, Once, Listing, World, PacketRead, UNCHANGED <<names, listed, op, init_state>>
  PROVE  Listing'
<1> SUFFICES ASSUME scene = "readdir", mood # "odd" PROVE Listing'
  BY DEF Listing, World
<1>1. CASE init_state = "down"
  BY <1>1 DEF Listing, World, Counts
<1>2. CASE init_state # "down"
  <2>0. /\ Shape /\ Fetching /\ listed \in Int /\ Counts(names, listed) /\ One(pending, packets)
        /\ Len(names) \in Nat
    BY <1>2 DEF Base, Core, Listing, Once, Counts
  <2>1. cursor \in Int
    <3>1. CASE Names(packets) = {}
      BY <2>0, <3>1 DEF Fetching
    <3>2. CASE Names(packets) # {}
      <4>1. PICK p \in Names(packets) : TRUE
        BY <3>2
      <4>2. cursor = listed + Len(p.bytes) /\ Len(p.bytes) \in Nat
        BY <2>0, <4>1 DEF Fetching, Counts
      <4> QED
        BY <2>0, <4>2
    <3> QED
      BY <3>1, <3>2
  <2>2. \A r \in pending : r.kind \in {"read", "readdir"}
    BY <2>0 DEF Fetching
  <2>r. PICK r \in pending : \E p :
           /\ pending' = pending \ {r} /\ PacketAdd(p) /\ p.id = r.id
           /\ \/ cursor' = cursor /\ p.type # "NAME"
              \/ /\ r.kind = "readdir" /\ p.type = "NAME" /\ Counts(p.bytes, cursor)
                 /\ cursor' = cursor + Len(p.bytes)
    BY <2>0, <2>1, <2>2, DirServed
  <2>3. PICK p :
           /\ pending' = pending \ {r} /\ PacketAdd(p) /\ p.id = r.id
           /\ \/ cursor' = cursor /\ p.type # "NAME"
              \/ /\ r.kind = "readdir" /\ p.type = "NAME" /\ Counts(p.bytes, cursor)
                 /\ cursor' = cursor + Len(p.bytes)
    BY <2>r
  <2>4. CASE cursor' = cursor /\ p.type # "NAME"
    <3>1. packets' = packets \/ packets' = packets \cup {p}
      BY <2>3 DEF PacketAdd
    <3>2. Names(packets') = Names(packets)
      BY <2>4, <3>1 DEF Names
    <3> QED
      BY <2>3, <2>4, <3>2, ListKeep
  <2>5. CASE /\ r.kind = "readdir" /\ p.type = "NAME" /\ Counts(p.bytes, cursor)
             /\ cursor' = cursor + Len(p.bytes)
    <3>1. packets' = packets \cup {p}
      BY <2>3, <2>5 DEF PacketAdd
    <3>2. op.state = "sent" /\ r.id = op.id /\ names = <<>>
      BY <2>0, <2>5 DEF Fetching
    <3>3. Names(packets) = {}
      BY <2>0, <3>2 DEF Fetching, One, Names
    <3>4. Names(packets') = {p}
      BY <2>5, <3>1, <3>3 DEF Names
    <3>5. cursor = listed
      <4>1. Len(names) = 0
        BY <3>2
      <4> QED
        BY <2>0, <3>3, <4>1 DEF Fetching
    <3>6. Fetching'
      <4>1. \A s \in pending' : \/ s.kind = "read"
                                \/ s.kind = "readdir" /\ op.state = "sent" /\ s.id = op.id
        BY <2>0, <2>3 DEF Fetching
      <4>2. \A q \in Names(packets') : /\ op.state = "sent" /\ q.id = op.id /\ Counts(q.bytes, listed)
                                       /\ cursor' = listed + Len(q.bytes)
        BY <2>3, <2>5, <3>2, <3>4, <3>5
      <4>3. Names(packets') # {}
        BY <3>4
      <4> QED
        BY <3>2, <4>1, <4>2, <4>3 DEF Fetching, Counts, Names
    <3> QED
      BY <2>0, <3>6 DEF Listing, Counts
  <2> QED
    BY <2>3, <2>4, <2>5
<1> QED
  BY <1>1, <1>2

LEMMA CallOpList ==
  ASSUME Base, Listing, NEW f \in Handles, CallOp(f)
  PROVE  Listing'
<1>1. /\ World /\ UNCHANGED <<names, listed, cursor, init_state, pending, packets>>
      /\ init_state = "up" /\ (OpKind = "readdir" => names = <<>>)
      /\ op' = op \/ (op.state = "idle" /\ op'.state = "created")
  <2>1. World /\ UNCHANGED <<names, listed, cursor, init_state, pending, packets>> /\ init_state = "up"
        /\ (OpKind = "readdir" => names = <<>>)
    BY DEF CallOp, World, worldVars, appVars, bookVars, serverVars, wireVars
  <2>2. CASE op' = [state |-> "created", id |-> request_id, f |-> f] /\ op.state = "idle"
    <3>1. op'.state = "created"
      BY <2>2
    <3> QED
      BY <2>1, <2>2, <3>1
  <2> QED
    BY <2>1, <2>2 DEF CallOp
<1>2. CASE op' = op
  BY <1>1, <1>2, ListKeep
<1>3. CASE op.state = "idle" /\ op'.state = "created"
  <2> SUFFICES ASSUME scene = "readdir", mood # "odd" PROVE Listing'
    BY <1>1 DEF Listing, World
  <2>1. Fetching /\ listed \in Int /\ Counts(names, listed) /\ names = <<>>
    BY <1>1, KindIs DEF Listing
  <2>2. Names(packets) = {} /\ \A r \in pending : r.kind = "read"
    BY <1>3, <2>1 DEF Fetching
  <2>3. Fetching'
    BY <1>1, <2>1, <2>2 DEF Fetching, Names
  <2> QED
    BY <1>1, <2>1, <2>3 DEF Listing, Counts
<1> QED
  BY <1>1, <1>2, <1>3

LEMMA OpSendList ==
  ASSUME Base, Listing, Busy, OpSend
  PROVE  Listing'
<1>0. /\ World /\ UNCHANGED <<names, listed, cursor, init_state>> /\ init_state = "up"
      /\ op.state = "created" /\ op \in OpSet
  BY DEF Base, Core, Shape, Place, Busy, OpSend, World, worldVars, bookVars, serverVars
<1> SUFFICES ASSUME scene = "readdir", mood # "odd" PROVE Listing'
  BY <1>0 DEF Listing, World
<1>1. OpKind = "readdir" /\ Doing = "read"
  BY KindIs
<1>2. Fetching /\ listed \in Int /\ Counts(names, listed)
  BY <1>0 DEF Listing
<1>3. /\ Names(packets) = {} /\ names = <<>> /\ \A r \in pending : r.kind = "read"
  BY <1>0, <1>2 DEF Fetching
<1>4. CASE OsAgain
  BY <1>0, <1>4, ListKeep DEF OsAgain
<1>5. CASE OsPart
  <2>1. UNCHANGED <<packets, pending>> /\ op'.state = "idle"
    BY <1>1, <1>5, IdleTyped DEF OsPart
  <2>2. Fetching'
    BY <1>0, <1>2, <1>3, <2>1 DEF Fetching, Names
  <2> QED
    BY <1>0, <1>2, <2>2 DEF Listing, Counts
<1>6. CASE OsAll
  <2>1. packets' = packets /\ op'.state = "sent" /\ op'.id = op.id
    BY <1>0, <1>6 DEF OsAll, OpSet
  <2>2. OsRequest.id = op.id /\ OsRequest.kind = "readdir"
    BY <1>1 DEF OsRequest
  <2>3. \A r \in pending' : r.kind = "read" \/ (r.kind = "readdir" /\ r.id = op'.id)
    BY <1>3, <1>6, <2>1, <2>2 DEF OsAll
  <2>4. Fetching'
    BY <1>0, <1>2, <1>3, <2>1, <2>3 DEF Fetching, Names
  <2> QED
    BY <1>0, <1>2, <2>4 DEF Listing, Counts
<1> QED
  BY <1>4, <1>5, <1>6, OpSendCases

LEMMA OpWaitList ==
  ASSUME Base, Once, Listing, Busy, OpWait
  PROVE  Listing'
<1>0. /\ World /\ UNCHANGED <<listed, init_state>> /\ init_state = "up"
      /\ op.state = "sent" /\ Owns /\ Shape
  BY DEF Base, Core, Shape, Place, Busy, OpWait, World, worldVars
<1> SUFFICES ASSUME scene = "readdir", mood # "odd" PROVE Listing'
  BY <1>0 DEF Listing, World
<1>1. OpKind = "readdir" /\ Doing = "read" /\ OpKind \in DOMAIN AllKinds
  BY <1>0, KindIs, OpKinds DEF Shape
<1>2. Fetching /\ listed \in Int /\ Counts(names, listed) /\ names = <<>> /\ One(pending, packets)
  BY <1>0 DEF Listing, Fetching, Once
<1>3. CASE OwMore
  BY <1>0, <1>3, ListRead DEF OwMore
<1>4. CASE OwBack
  BY <1>0, <1>4, ListKeep DEF OwBack
<1>5. ASSUME NEW p, OwAnswer(p) PROVE Listing'
  <2>1. /\ p \in packets /\ p.id = op.id /\ UNCHANGED <<pending, cursor>>
        /\ packets' = packets \ {p}
    BY <1>1, <1>5 DEF OwAnswer, OpAnswer
  <2>2. ~p.short /\ (p.type # "NAME" => p.bytes = <<>>)
    <3>1. PICK r : r.kind = OpKind /\ Fits(p, r, written)
      BY <1>0, <2>1 DEF Owns, Owned, OpMatched
    <3> QED
      BY <1>1, <3>1 DEF Fits
  <2>3. op' = IdleOp /\ names' = p.bytes
    BY <1>1, <1>5, <2>2 DEF OwAnswer, OpAnswer
  <2>4. /\ \A q \in packets' : q.id # op.id
        /\ \A r \in pending : r.id # op.id
    BY <1>2, <2>1 DEF One
  <2>5. Names(packets') = {} /\ \A r \in pending' : r.kind = "read"
    BY <1>2, <2>1, <2>4 DEF Fetching, Names
  <2>6. Counts(names', listed) /\ cursor = listed + Len(names')
    <3>1. CASE p.type = "NAME"
      <4>1. p \in Names(packets)
        BY <2>1, <3>1 DEF Names
      <4> QED
        BY <1>2, <2>3, <4>1 DEF Fetching
    <3>2. CASE p.type # "NAME"
      <4>1. names' = <<>>
        BY <2>2, <2>3, <3>2
      <4>2. Names(packets) = {}
        <5>1. \A q \in packets : q.id = op.id => q = p
          BY <1>2, <2>1 DEF One
        <5> QED
          BY <1>2, <3>2, <5>1 DEF Fetching, Names
      <4> QED
        BY <1>2, <4>1, <4>2 DEF Fetching
    <3> QED
      BY <3>1, <3>2
  <2>7. op'.state = "idle"
    BY <2>3, IdleTyped
  <2>8. Fetching'
    BY <1>0, <2>1, <2>5, <2>6, <2>7 DEF Fetching, Names
  <2> QED
    BY <1>0, <1>2, <2>6, <2>8 DEF Listing, Counts
<1> QED
  BY <1>3, <1>4, <1>5, OpWaitCases

LEMMA PopList ==
  ASSUME Base, Listing, ReaddirPop
  PROVE  Listing'
<1>0. /\ World /\ UNCHANGED <<op, cursor, pending, packets, init_state>> /\ init_state = "up"
      /\ op.state = "idle" /\ names # <<>> /\ listed' = names[1] /\ names' = Tail(names)
  BY DEF ReaddirPop, World, worldVars, wireVars, serverVars, sftpVars, stateVars
<1> SUFFICES ASSUME scene = "readdir", mood # "odd" PROVE Listing'
  BY <1>0 DEF Listing, World
<1>2. Fetching /\ listed \in Int /\ names \in Seq(Int) /\ \A i \in 1..Len(names) : names[i] = listed + i
  BY <1>0 DEF Listing, Counts
<1>3. Names(packets) = {} /\ (\A r \in pending : r.kind = "read") /\ cursor = listed + Len(names)
  BY <1>0, <1>2 DEF Fetching
<1>4. /\ Len(names) \in Nat /\ Len(names) >= 1 /\ Tail(names) \in Seq(Int) /\ Len(Tail(names)) = Len(names) - 1
      /\ \A i \in 1..(Len(names) - 1) : Tail(names)[i] = names[i + 1]
  BY <1>0, <1>2
<1>5. listed' = listed + 1
  BY <1>0, <1>2, <1>4
<1>6. Counts(names', listed')
  <2>1. \A i \in 1..Len(names') : i + 1 \in 1..Len(names) /\ names'[i] = names[i + 1]
    BY <1>0, <1>4
  <2>2. \A i \in 1..Len(names') : names'[i] = (listed + 1) + i
    BY <1>2, <2>1
  <2> QED
    BY <1>0, <1>4, <1>5, <2>2 DEF Counts
<1>7. cursor = listed' + Len(names')
  BY <1>0, <1>2, <1>3, <1>4, <1>5
<1>8. Fetching'
  BY <1>0, <1>3, <1>7 DEF Fetching, Names
<1> QED
  BY <1>0, <1>2, <1>5, <1>6, <1>8 DEF Listing, Counts

LEMMA ReadRecvList ==
  ASSUME Base, Once, Listing, ReadRecv
  PROVE  Listing'
<1>0. /\ World /\ UNCHANGED <<names, listed, op, init_state>> /\ Shape /\ Owns /\ scene # "write"
      /\ at \in Handles
  BY DEF Base, Core, Shape, Place, ReadRecv, World, worldVars, bookVars
<1>1. CASE RrMore
  BY <1>0, <1>1, ListRead DEF RrMore
<1>2. CASE RrEnd \/ RrAgain
  BY <1>0, <1>2, ListKeep DEF RrEnd, RrAgain
<1>3. ASSUME RrGot, NEW p, RrBad(p) \/ RrStatus(p) \/ \E n : RrData(p, n) PROVE Listing'
  <2>1. F(at).list # <<>> /\ p \in packets /\ p.id = F(at).list[1].id
    BY <1>3 DEF RrBad, RrStatus, RrData, First
  <2>2. p.type # "NAME"
    BY <1>0, <2>1, AnswerRead
  <2> DEFINE R == packets \ {p}
  <2>3. Names(R) = Names(packets)
    BY <2>2, NameKept
  <2>4. packets' = R \/ PacketlistFlush(Tail(F(at).list), R)
    BY <1>3 DEF RrBad, RrStatus, RrData
  <2> HIDE DEF R
  <2>5. Names(packets') = Names(packets)
    BY <2>3, <2>4, FlushNames
  <2>6. UNCHANGED <<pending, cursor>>
    BY <1>3 DEF RrGot
  <2> QED
    BY <1>0, <2>5, <2>6, ListKeep
<1> QED
  BY <1>1, <1>2, <1>3, ReadRecvCases

LEMMA ReadSendList ==
  ASSUME Base, Listing, ReadSend
  PROVE  Listing'
<1>0. /\ World /\ UNCHANGED <<names, listed, cursor, op, init_state, packets>> /\ Doing = "read"
  BY DEF Base, Core, Place, ReadSend, World, worldVars, bookVars, serverVars, Doing
<1>1. \A r \in pending' : r \in pending \/ r.kind = "read"
  <2>1. CASE RsDone \/ RsAgain
    BY <2>1 DEF RsDone, RsAgain
  <2>2. ASSUME NEW i, NEW v, RsOut(i, v) PROVE \A r \in pending' : r \in pending \/ r.kind = "read"
    <3>1. pending' = pending \/ pending' = pending \cup {Request("read", at, F(at).list[i])}
      BY <1>0, <2>2 DEF RsOut, SendOut, Passed
    <3>2. Request("read", at, F(at).list[i]).kind = "read"
      BY DEF Request
    <3> QED
      BY <3>1, <3>2
  <2> QED
    BY <2>1, <2>2, ReadSendCases
<1> QED
  BY <1>0, <1>1, ListKeep

LEMMA NextListing ==
  ASSUME Base, Once, Busy, Listing, [Next]_vars
  PROVE  Listing'
<1>0. World
  BY SceneKept
<1> SUFFICES ASSUME scene = "readdir" PROVE Listing'
  BY <1>0 DEF Listing, World
<1>1. ASSUME UNCHANGED <<names, listed, cursor, op, init_state, pending, packets>> PROVE Listing'
  BY <1>0, <1>1, ListKeep
<1>2. ASSUME NEW f \in Handles, ReadSome(f) PROVE Listing'
  BY <1>1, <1>2 DEF ReadSome, CallRead, serverVars, wireVars
<1>3. ASSUME NEW f \in Handles, NEW n \in Buffers, CallWrite(f, n) PROVE Listing'
  BY <1>3 DEF CallWrite
<1>4. ASSUME NEW f \in Handles, NEW o \in {0, 1}, Seek(f, o) PROVE Listing'
  BY <1>4 DEF Seek
<1>5. CASE WriteSend \/ WriteAck
  BY <1>5 DEF WriteSend, WriteAck, Base, Core, Place
<1>6. CASE ReadReturn
  BY <1>1, <1>6 DEF ReadReturn, sftpVars, stateVars, wireVars, serverVars
<1>7. CASE SftpInit \/ SftpInitError
  <2>1. UNCHANGED <<names, listed, cursor, op, pending, packets>> /\ init_state # "down"
    BY <1>7 DEF SftpInit, SftpInitError, sftpVars, appVars, bookVars, wireVars, serverVars, InitOrder, Range
  <2> QED
    BY <1>0, <2>1, ListKeep
<1>8. CASE Shutdown
  <2>1. init_state' = "down" /\ UNCHANGED <<names, listed>>
    BY <1>8 DEF Shutdown, appVars, bookVars
  <2> QED
    BY <1>0, <2>1 DEF Listing, World, Counts
<1>9. CASE UNCHANGED vars
  BY <1>1, <1>9 DEF vars, sftpVars, stateVars, appVars, bookVars, wireVars, serverVars
<1> QED
  BY <1>2, <1>3, <1>4, <1>5, <1>6, <1>7, <1>8, <1>9, CallOpList, OpSendList, OpWaitList, PopList,
     ReadRecvList, ReadSendList DEF Next

(* No names where no directory is read.                                     *)
LEMMA NextNamed ==
  ASSUME Base, Once, Named, [Next]_vars
  PROVE  Named'
<1>0. World
  BY SceneKept
<1>1. Busy' /\ Listing'
  BY BusyStays, NextListing DEF Named
<1>2. ASSUME scene # "readdir" PROVE names' = <<>>
  <2>0. names = <<>> /\ OpKind # "readdir"
    BY <1>2 DEF Named, OpKind
  <2>1. CASE OpWait
    <3>1. ASSUME NEW p, OwAnswer(p) PROVE names' = names
      BY <2>0, <3>1 DEF OwAnswer, OpAnswer
    <3> QED
      BY <2>0, <2>1, <3>1, OpWaitCases DEF OwMore, OwBack
  <2>2. CASE ReaddirPop
    BY <2>0, <2>2 DEF ReaddirPop
  <2>3. CASE ~(OpWait \/ ReaddirPop)
    BY <2>0, <2>3, ZenonT(60) DEF Next, vars, ReadSome, CallRead, CallWrite, Seek, CallOp, ReadSend,
         ReadRecv, ReadReturn,
         WriteSend, WriteAck, OpSend, SftpInit, SftpInitError, Shutdown, appVars, bookVars
  <2> QED
    BY <2>1, <2>2, <2>3
<1> QED
  BY <1>0, <1>1, <1>2 DEF Named, World

LEMMA InitNamed ==
  ASSUME Init
  PROVE  Named
<1>1. /\ names = <<>> /\ listed = 0 /\ cursor = 0 /\ pending = {} /\ packets = {} /\ pc = "app"
      /\ op.state = "idle" /\ Names(packets) = {}
  BY IdleTyped DEF Init, Names
<1>2. Counts(names, listed) /\ cursor = listed + Len(names)
  BY <1>1 DEF Counts
<1>3. Fetching
  BY <1>1, <1>2 DEF Fetching
<1> QED
  BY <1>1, <1>2, <1>3 DEF Named, Busy, Listing

LEMMA NamedInOrder ==
  ASSUME Named
  PROVE  ListingInOrder
<1>1. ASSUME mood # "odd", names # <<>> PROVE names[1] = listed + 1
  <2>1. names \in Seq(Int) /\ \A i \in 1..Len(names) : names[i] = listed + i
    BY <1>1 DEF Named, Listing, Counts
  <2>2. 1 \in 1..Len(names)
    BY <1>1, <2>1
  <2> QED
    BY <2>1, <2>2
<1> QED
  BY <1>1 DEF ListingInOrder

(* sftp_readdir() hands out the entries once and in the server's order,     *)
(* though answers with several names, their leftovers and other requests'   *)
(* answers are kept in between.  A call that left a request half sent is    *)
(* made again before any other that sends.                                  *)
THEOREM ListedInOrder ==
  ASSUME ~MixCalls
  PROVE  Spec => []ListingInOrder
<1>1. Init => Named
  BY InitNamed
<1>2. Base /\ Once /\ Named /\ [Next]_vars => Named'
  BY NextNamed
<1>3. Named => ListingInOrder
  BY NamedInOrder
<1> QED
  BY <1>1, <1>2, <1>3, BaseHolds, OnceHolds, PTL DEF Spec

-----------------------------------------------------------------------------
(* The requests of a file that is read follow one another, or all are for   *)
(* what is behind its end.                                                  *)

Ahead(l, a) == \/ Chain(l, a)
               \/ a >= FileSize /\ \A i \in 1..Len(l) : l[i].offset >= FileSize

FileFollows(x) ==
  mood # "odd" => /\ x.eof => x.list = <<>>
                  /\ x.open /\ ~x.eof => Ahead(x.list, x.offset + Len(x.data))

Follows == scene # "write" => \A f \in Handles : FileFollows(file[f])

LEMMA AheadJoin ==
  ASSUME NEW l \in Seq(ChunkSet), NEW m \in Seq(ChunkSet), NEW a \in Int, Ahead(l, a),
         Chain(m, a + Total(l))
  PROVE  Ahead(l \o m, a)
<1>1. CASE Chain(l, a)
  BY <1>1, ChainJoin DEF Ahead
<1>2. CASE a >= FileSize /\ \A i \in 1..Len(l) : l[i].offset >= FileSize
  <2>0. Total(l) \in Nat /\ FileSize \in Nat
    BY TotalNat, SftpAssumption
  <2>1. \A i \in 1..Len(m) : m[i].offset >= a + Total(l) /\ m[i].offset \in Int
    BY <2>0, ChainEnd, ChunkTyped
  <2>2. \A i \in 1..Len(m) : m[i].offset >= FileSize
    BY <1>2, <2>0, <2>1
  <2>3. \A i \in 1..Len(l \o m) : (l \o m)[i].offset >= FileSize
    BY <1>2, <2>2, JoinOf
  <2> QED
    BY <1>2, <2>3 DEF Ahead
<1> QED
  BY <1>1, <1>2 DEF Ahead

LEMMA AheadLike ==
  ASSUME NEW l \in Seq(ChunkSet), NEW m, NEW i, NEW v, Like(l, m, i, v), NEW a \in Int, Ahead(l, a)
  PROVE  Ahead(m, a)
<1>1. CASE Chain(l, a)
  BY <1>1, LikeChain DEF Ahead
<1>2. CASE a >= FileSize /\ \A j \in 1..Len(l) : l[j].offset >= FileSize
  BY <1>2 DEF Ahead, Like
<1> QED
  BY <1>1, <1>2 DEF Ahead

LEMMA AheadTail ==
  ASSUME NEW l \in Seq(ChunkSet), l # <<>>, NEW c, c = l[1], NEW a \in Int, Ahead(l, a), c.offset = a,
         NEW k \in 1..c.len, k = Min2(c.len, FileSize - c.offset)
  PROVE  Ahead(Tail(l), a + k)
<1>0. /\ c.len \in Nat /\ c.offset \in Int /\ FileSize \in Nat /\ k \in Nat
      /\ Tail(l) \in Seq(ChunkSet)
      /\ \A i \in 1..Len(Tail(l)) : Tail(l)[i].offset \in Int
      /\ \A i \in 1..Len(Tail(l)) : i + 1 \in 1..Len(l) /\ Tail(l)[i] = l[i + 1]
  <2>1. 1 \in 1..Len(l)
    BY TailOf
  <2>2. c.len \in Nat /\ c.offset \in Int
    BY <2>1, ChunkTyped
  <2>3. Tail(l) \in Seq(ChunkSet)
    BY TailOf
  <2> QED
    BY <2>2, <2>3, TailOf, ChunkTyped, SftpAssumption
<1>1. CASE Chain(l, a)
  <2>1. Chain(Tail(l), a + c.len)
    BY <1>1, ChainTail
  <2>2. CASE k = c.len
    BY <2>1, <2>2 DEF Ahead
  <2>3. CASE k # c.len
    <3>1. a + k = FileSize /\ a + c.len >= FileSize /\ a + c.len \in Int
      BY <1>0, <2>3 DEF Min2
    <3>2. \A i \in 1..Len(Tail(l)) : Tail(l)[i].offset >= a + c.len
      BY <1>0, <2>1, <3>1, ChainEnd
    <3>3. \A i \in 1..Len(Tail(l)) : Tail(l)[i].offset >= FileSize
      BY <1>0, <3>1, <3>2
    <3> QED
      BY <1>0, <3>1, <3>3 DEF Ahead
  <2> QED
    BY <2>2, <2>3
<1>2. CASE a >= FileSize /\ \A i \in 1..Len(l) : l[i].offset >= FileSize
  BY <1>0, <1>2 DEF Ahead
<1> QED
  BY <1>1, <1>2 DEF Ahead

LEMMA FollowOne ==
  ASSUME Follows, scene # "write", World, NEW f \in Handles, OtherFiles(f), FileFollows(file'[f])
  PROVE  Follows'
<1>1. ASSUME NEW g \in Handles PROVE FileFollows(file'[g])
  BY DEF Follows, OtherFiles
<1> QED
  BY <1>1 DEF Follows, FileFollows, World

LEMMA FollowNone ==
  ASSUME Follows, scene # "write", World, file' = file
  PROVE  Follows'
  BY DEF Follows, FileFollows, World

LEMMA DropFollows ==
  ASSUME Base, Follows, scene # "write", World, NEW f \in Handles, NEW ps, Drop(f, ps)
  PROVE  Follows'
<1>1. Becomes(f, FALSE, F(f).offset, F(f).offset_sent, F(f).acked, <<>>, F(f).eof, <<>>)
  BY DropCases DEF Base, Core
<1>2. FileFollows(file'[f])
  BY <1>1 DEF FileFollows, Becomes
<1> QED
  BY <1>1, <1>2, FollowOne DEF Becomes

LEMMA SeekFollows ==
  ASSUME Base, Follows, scene # "write", World, NEW f \in Handles, NEW o \in Int, Seek(f, o)
  PROVE  Follows'
<1>1. Becomes(f, F(f).open, o, o, F(f).acked, <<>>, FALSE, <<>>)
  BY SeekCases DEF Base, Core
<1>2. FileFollows(file'[f])
  BY <1>1, EmptyList DEF FileFollows, Becomes, Ahead
<1> QED
  BY <1>1, <1>2, FollowOne DEF Becomes

LEMMA CallReadFollows ==
  ASSUME Base, Reads, Follows, NEW f \in Handles, NEW b \in Nat \ {0}, CallRead(f, b)
  PROVE  Follows'
<1>0. /\ Shape /\ pc = "app" /\ scene # "write" /\ F(f).open /\ F(f).list \in Seq(ChunkSet)
      /\ F(f).data \in Seq(Handles \X Int) /\ F(f).offset \in Int /\ F(f).offset_sent \in Int
      /\ Len(F(f).data) \in Nat /\ World
  BY FileTyped DEF Base, Core, Shape, CallRead, F, World, worldVars
<1>1. FileReads(f, F(f), pos[f], 0) /\ FileFollows(F(f))
  BY <1>0, AppNone DEF F, Follows
<1>2. ASSUME NEW n, RLeft(f, b, n) PROVE Follows'
  <2> DEFINE d == SubSeq(F(f).data, n + 1, Len(F(f).data))
             k == Len(F(f).data)
  <2>1. /\ n \in 1..k
        /\ Becomes(f, F(f).open, F(f).offset + n, F(f).offset_sent, F(f).acked, d, F(f).eof, F(f).list)
    BY <1>2 DEF RLeft
  <2>2. n \in 0..k /\ n \in Nat /\ k \in Nat
    BY <1>0, <2>1
  <2>3. Len(d) = k - n
    BY <1>0, <2>2, Cut
  <2> HIDE DEF d
  <2>4. (F(f).offset + n) + Len(d) = F(f).offset + k
    BY <1>0, <2>2, <2>3
  <2>5. FileFollows(file'[f])
    BY <1>1, <2>1, <2>4 DEF FileFollows, Becomes
  <2> QED
    BY <1>0, <2>1, <2>5, FollowOne DEF Becomes
<1>3. ASSUME NEW new, RBuild(f, b, new) PROVE Follows'
  <2> DEFINE l == F(f).list \o new
  <2>1. /\ F(f).data = <<>> /\ ~F(f).eof /\ new \in Seq(ChunkSet) /\ Chain(new, F(f).offset_sent)
        /\ Becomes(f, F(f).open, F(f).offset, F(f).offset_sent + Total(new), F(f).acked, F(f).data, F(f).eof, l)
    BY <1>3 DEF RBuild, Built
  <2>2. Len(F(f).data) = 0
    BY <2>1
  <2>3. mood # "odd" => Ahead(l, F(f).offset + Len(F(f).data))
    <3>1. ASSUME mood # "odd" PROVE Ahead(l, F(f).offset)
      <4>1. Ahead(F(f).list, F(f).offset)
        BY <1>0, <1>1, <2>1, <2>2, <3>1 DEF FileFollows
      <4>2. F(f).offset_sent = F(f).offset + Total(F(f).list)
        BY <1>0, <1>1, <2>1, <2>2, <3>1, TotalNat DEF FileReads
      <4> QED
        BY <1>0, <2>1, <4>1, <4>2, AheadJoin
    <3> HIDE DEF l
    <3> QED
      BY <1>0, <2>2, <3>1
  <2> HIDE DEF l
  <2>4. FileFollows(file'[f])
    BY <2>1, <2>3 DEF FileFollows, Becomes
  <2> QED
    BY <1>0, <2>1, <2>4, FollowOne DEF Becomes
<1>4. CASE RResume
  BY <1>0, <1>4, FollowNone DEF RResume
<1> QED
  BY <1>0, <1>2, <1>3, <1>4, CallReadCases

LEMMA ReadSendFollows ==
  ASSUME Base, Follows, ReadSend
  PROVE  Follows'
<1>0. /\ Shape /\ scene # "write" /\ World /\ at \in Handles /\ F(at).list \in Seq(ChunkSet)
      /\ F(at).offset \in Int /\ Len(F(at).data) \in Nat
  BY FileTyped DEF Base, Core, Shape, Place, ReadSend, World, worldVars, F
<1>1. CASE RsDone \/ RsAgain
  BY <1>0, <1>1, FollowNone DEF RsDone, RsAgain
<1>2. ASSUME NEW i, NEW v, RsOut(i, v) PROVE Follows'
  <2> DEFINE l == F(at).list
             m == file'[at].list
             a == F(at).offset + Len(F(at).data)
  <2>1. /\ Like(l, m, i, v)
        /\ Becomes(at, F(at).open, F(at).offset, F(at).offset_sent, F(at).acked, F(at).data, F(at).eof, m)
    BY <1>2 DEF RsOut, SendOut, SentFile
  <2>2. FileFollows(F(at)) /\ a \in Int
    BY <1>0 DEF Follows, F
  <2>3. file'[at].list = m
    OBVIOUS
  <2> HIDE DEF m, a
  <2>4. Ahead(l, a) => Ahead(m, a)
    BY <1>0, <2>1, <2>2, AheadLike
  <2>5. (m = <<>>) <=> (l = <<>>)
    BY <1>0, <2>1, LikeChain
  <2>6. FileFollows(file'[at])
    BY <2>1, <2>2, <2>3, <2>4, <2>5 DEF FileFollows, Becomes, a
  <2> QED
    BY <1>0, <2>1, <2>6, FollowOne DEF Becomes
<1> QED
  BY <1>1, <1>2, ReadSendCases

LEMMA ReadRecvFollows ==
  ASSUME Base, Reads, Follows, ReadRecv
  PROVE  Follows'
<1>0. /\ Shape /\ Owns /\ scene # "write" /\ World /\ at \in Handles /\ F(at).list \in Seq(ChunkSet)
      /\ F(at).offset \in Int /\ F(at).eof \in BOOLEAN /\ pc = "rrecv"
  BY FileTyped DEF Base, Core, Shape, Place, ReadRecv, World, worldVars, F
<1>1. FileFollows(F(at)) /\ F(at).data = <<>> /\ F(at).open
  BY <1>0 DEF Follows, F, Reads, Under
<1>2. CASE RrEnd \/ RrMore \/ RrAgain
  BY <1>0, <1>2, FollowNone DEF RrEnd, RrMore, RrAgain
<1>3. ASSUME NEW p, RrBad(p) PROVE Follows'
  BY <1>0, <1>3, FollowNone DEF RrBad
<1>4. ASSUME NEW p, RrStatus(p) PROVE Follows'
  <2>1. /\ Becomes(at, F(at).open, F(at).offset, F(at).offset_sent, F(at).acked, F(at).data,
                   (F(at).eof \/ p.code = "EOF"), <<>>)
        /\ p.type = "STATUS" /\ F(at).list # <<>> /\ p \in packets /\ p.id = F(at).list[1].id
    BY <1>4 DEF RrStatus, First
  <2>2. mood # "odd" => p.code = "EOF"
    BY <1>0, <2>1, AnswerRead
  <2>3. FileFollows(file'[at])
    BY <2>1, <2>2 DEF FileFollows, Becomes
  <2> QED
    BY <1>0, <2>1, <2>3, FollowOne DEF Becomes
<1>5. ASSUME NEW p, NEW n, RrData(p, n) PROVE Follows'
  <2> DEFINE l == F(at).list
             c == F(at).list[1]
             k == Len(p.bytes)
             d == SubSeq(p.bytes, n + 1, Len(p.bytes))
  <2>1. /\ l # <<>> /\ p \in packets /\ p.id = c.id /\ p.type = "DATA" /\ c.offset = F(at).offset
        /\ n \in 1..k
        /\ Becomes(at, F(at).open, F(at).offset + n, F(at).offset_sent - (c.len - k),
             F(at).acked, d, F(at).eof, Tail(l))
        /\ p.code # "BAD"
    BY <1>5 DEF RrData, First
  <2>2. c.offset \in Int /\ c.len \in Nat
    BY <1>0, <2>1, FirstTyped
  <2>3. /\ k \in 1..c.len /\ p.bytes \in Seq(Handles \X Int)
        /\ mood # "odd" => k = Min2(c.len, FileSize - c.offset)
    BY <1>0, <2>1, AnswerRead
  <2>4. k \in Nat /\ n \in 0..k /\ n \in Nat
    BY <2>1, <2>2, <2>3
  <2>5. Len(d) = k - n
    BY <2>3, <2>4, Cut
  <2>6. ASSUME mood # "odd" PROVE ~F(at).eof /\ Ahead(Tail(l), F(at).offset + k)
    <3>1. ~F(at).eof
      BY <1>1, <2>1, <2>6 DEF FileFollows
    <3>2. Len(F(at).data) = 0
      BY <1>1
    <3>3. Ahead(l, F(at).offset)
      BY <1>0, <1>1, <2>6, <3>1, <3>2 DEF FileFollows
    <3>4. c = l[1]
      OBVIOUS
    <3> HIDE DEF c, k
    <3>5. Ahead(Tail(l), F(at).offset + k)
      BY <1>0, <2>1, <2>3, <2>6, <3>3, <3>4, AheadTail
    <3> QED
      BY <3>1, <3>5
  <2> HIDE DEF l, c, k, d
  <2>7. (F(at).offset + n) + Len(d) = F(at).offset + k
    BY <1>0, <2>4, <2>5
  <2>8. FileFollows(file'[at])
    BY <2>1, <2>6, <2>7 DEF FileFollows, Becomes
  <2> QED
    BY <1>0, <2>1, <2>8, FollowOne DEF Becomes
<1> QED
  BY <1>2, <1>3, <1>4, <1>5, ReadRecvCases

LEMMA NextFollows ==
  ASSUME Base, Reads, Follows, [Next]_vars
  PROVE  Follows'
<1>0. World /\ at \in Handles
  BY SceneKept DEF Base, Core, Shape
<1> SUFFICES ASSUME scene # "write" PROVE Follows'
  BY <1>0 DEF Follows, World
<1>1. ASSUME NEW f \in Handles, ReadSome(f) PROVE Follows'
  BY <1>1, CallReadFollows, SizeTyped DEF ReadSome
<1>2. ASSUME NEW f \in Handles, NEW o \in {0, 1}, Seek(f, o) PROVE Follows'
  <2>1. o \in Int
    OBVIOUS
  <2> QED
    BY <1>0, <1>2, <2>1, SeekFollows, Zenon
<1>3. ASSUME NEW f \in Handles, CallOp(f) PROVE Follows'
  BY <1>0, <1>3, FollowNone DEF CallOp
<1>4. CASE ReaddirPop \/ SftpInit \/ SftpInitError \/ Shutdown \/ UNCHANGED vars
  BY <1>0, <1>4, Aparts, FollowNone DEF Apart
<1>5. CASE WriteSend \/ WriteAck
  BY <1>5 DEF WriteSend, WriteAck, Base, Core, Place
<1>6. ASSUME NEW f \in Handles, NEW n \in Buffers, CallWrite(f, n) PROVE Follows'
  BY <1>6 DEF CallWrite
<1>7. CASE ReadReturn
  BY <1>0, <1>7, FollowNone DEF ReadReturn, stateVars
<1>8. CASE OpSend
  <2>1. CASE OsAll \/ OsAgain
    BY <1>0, <2>1, FollowNone DEF OsAll, OsAgain
  <2>2. CASE OsPart
    BY <1>0, <2>2, FollowNone, DropFollows DEF OsPart
  <2> QED
    BY <1>8, <2>1, <2>2, OpSendCases
<1>9. CASE OpWait
  <2>1. CASE OwMore \/ OwBack
    BY <1>0, <2>1, FollowNone DEF OwMore, OwBack
  <2>2. ASSUME NEW p, OwAnswer(p) PROVE Follows'
    <3> DEFINE ps == packets \ {p}
    <3>1. Drop(at, ps) \/ file' = file
      BY <2>2 DEF OwAnswer, OpAnswer
    <3> HIDE DEF ps
    <3> QED
      BY <1>0, <3>1, FollowNone, DropFollows
  <2> QED
    BY <1>9, <2>1, <2>2, OpWaitCases
<1> QED
  BY <1>1, <1>2, <1>3, <1>4, <1>5, <1>6, <1>7, <1>8, <1>9, ReadSendFollows, ReadRecvFollows DEF Next

LEMMA InitFollows ==
  ASSUME Init
  PROVE  Follows
<1>1. ASSUME NEW f \in Handles PROVE FileFollows(file[f])
  <2>1. file[f].list = <<>> /\ ~file[f].eof
    BY DEF Init, Fresh
  <2> QED
    BY <2>1, EmptyList DEF FileFollows, Ahead
<1> QED
  BY <1>1 DEF Follows

(* A server that answers as expected does not make sftp_read() fail.        *)
LEMMA NeverBad ==
  ASSUME Base, Reads, Follows, mood # "odd", ReadRecv, NEW p
  PROVE  ~RrBad(p)
<1> SUFFICES ASSUME RrBad(p) PROVE FALSE
  OBVIOUS
<1>0. /\ Shape /\ Owns /\ scene # "write" /\ at \in Handles /\ F(at).list \in Seq(ChunkSet)
      /\ F(at).offset \in Int /\ F(at).eof \in BOOLEAN /\ pc = "rrecv" /\ FileSize \in Nat
  BY FileTyped, SftpAssumption DEF Base, Core, Shape, Place, ReadRecv, F
<1>1. FileFollows(F(at)) /\ F(at).data = <<>> /\ F(at).open
  BY <1>0 DEF Follows, F, Reads, Under
<1> DEFINE l == F(at).list
           c == F(at).list[1]
<1>2. /\ l # <<>> /\ p \in packets /\ p.id = c.id
      /\ p.short \/ (~p.short /\ p.type = "DATA" /\ (p.code = "BAD" \/ c.offset # F(at).offset))
  BY DEF RrBad, First
<1>3. c.offset \in Int /\ c.len \in Nat /\ c.len > 0 /\ 1 \in 1..Len(l)
  BY <1>0, <1>2, FirstTyped
<1>4. /\ ~p.short /\ p.type = "DATA" /\ c.offset # F(at).offset
      /\ Len(p.bytes) \in 1..c.len /\ Len(p.bytes) = Min2(c.len, FileSize - c.offset)
  BY <1>0, <1>2, AnswerRead
<1>5. c.offset < FileSize
  <2> DEFINE k == Len(p.bytes)
  <2>1. k \in 1..c.len /\ k = Min2(c.len, FileSize - c.offset)
    BY <1>4
  <2> HIDE DEF c, k
  <2> QED
    BY <1>0, <1>3, <2>1 DEF Min2
<1>6. Ahead(l, F(at).offset)
  <2>1. Len(F(at).data) = 0
    BY <1>1
  <2>2. ~F(at).eof
    BY <1>1, <1>2 DEF FileFollows
  <2> QED
    BY <1>0, <1>1, <2>1, <2>2 DEF FileFollows
<1>7. c.offset = F(at).offset \/ c.offset >= FileSize
  BY <1>3, <1>6 DEF Ahead, Chain
<1> HIDE DEF c
<1> QED
  BY <1>0, <1>3, <1>4, <1>5, <1>7

LEMMA FollowsHold ==
  ASSUME ~MixHandles, ~MixCalls
  PROVE  Spec => []Follows
<1>1. Init => Follows
  BY InitFollows
<1>2. Base /\ Reads /\ Calm /\ Follows /\ [Next]_vars => Follows'
  BY NextFollows
<1> QED
  BY <1>1, <1>2, BaseHolds, ReadsHold, PTL DEF Spec

-----------------------------------------------------------------------------
(* Answers that are waited for and answers that come, where the server      *)
(* answers as expected and the channel takes whole packets.                 *)

Held(L, x) == \E f \in Handles : \E i \in 1..Len(L[f]) : L[f][i].id = x /\ L[f][i].sent = 2
Waits(L, Z, o, x) == Held(L, x) \/ (o.state = "sent" /\ o.id = x) \/ x \in Z
Coming(Q, P, x) == (\E r \in Q : r.id = x) \/ (\E p \in P : p.id = x)
Even(L, Z, Q, P, o) == \A x : Waits(L, Z, o, x) <=> Coming(Q, P, x)

(* What this needs of who waits for what.                                   *)
Apiece(L, Z, P, o) ==
  /\ o.state = "sent" => o.id \notin Z
  /\ \A f \in Handles : \A i \in 1..Len(L[f]) :
       /\ L[f][i].id \notin Z
       /\ o.state = "sent" => o.id # L[f][i].id
       /\ \A p \in P : p.id = L[f][i].id => p.type \in {"STATUS", "DATA"}
  /\ \A f, g \in Handles : \A i \in 1..Len(L[f]), j \in 1..Len(L[g]) :
       L[f][i].id = L[g][j].id => f = g /\ i = j

LEMMA ComingLess ==
  ASSUME NEW Q, NEW P, One(Q, P), NEW p \in P, NEW x
  PROVE  Coming(Q, P \ {p}, x) <=> (Coming(Q, P, x) /\ x # p.id)
  BY DEF Coming, One

LEMMA ApieceOne ==
  ASSUME NEW L, NEW Z, NEW P, NEW o, Apiece(L, Z, P, o)
  PROVE  \A f, g \in Handles : \A i \in 1..Len(L[f]), j \in 1..Len(L[g]) :
            L[f][i].id = L[g][j].id => f = g /\ i = j
  BY Zenon DEF Apiece

LEMMA ApieceOwned ==
  ASSUME NEW L, NEW n, NEW Z, NEW Q, NEW P, NEW W, NEW o, Owned(L, n, Z, Q, P, W, o)
  PROVE  Apiece(L, Z, P, o)
<1>1. o.state = "sent" => o.id \notin Z
  BY DEF Owned, Distinct
<1>2. ASSUME NEW f \in Handles, NEW i \in 1..Len(L[f])
      PROVE  L[f][i].id \notin Z /\ (o.state = "sent" => o.id # L[f][i].id)
  BY DEF Owned, Distinct
<1>3. ASSUME NEW f \in Handles, NEW i \in 1..Len(L[f]), NEW p \in P, p.id = L[f][i].id
      PROVE  p.type \in {"STATUS", "DATA"}
  <2> DEFINE r == Request(Doing, f, L[f][i])
  <2>1. Fits(p, r, W)
    BY <1>3 DEF Owned, Matched
  <2>2. r.kind = "read" \/ r.kind = "write"
    BY DEF Request, Doing
  <2> HIDE DEF r
  <2> QED
    BY <2>1, <2>2 DEF Fits
<1>4. ASSUME NEW f \in Handles, NEW g \in Handles, NEW i \in 1..Len(L[f]), NEW j \in 1..Len(L[g]),
             L[f][i].id = L[g][j].id
      PROVE  f = g /\ i = j
  BY <1>4, OneOwner
<1> QED
  BY <1>1, <1>2, <1>3, <1>4 DEF Apiece

LEMMA ApieceOp ==
  ASSUME NEW L, NEW Z, NEW P, NEW R, NEW o, NEW q, Apiece(L, Z, P, o), R \subseteq P, q.state # "sent"
  PROVE  Apiece(L, Z, R, q)
  BY DEF Apiece

(* A file loses its first chunk.                                            *)
Shorter(L, M, f) ==
  /\ L \in ListSet /\ f \in Handles /\ L[f] # <<>> /\ M[f] = Tail(L[f])
  /\ \A g \in Handles : g # f => M[g] = L[g]

LEMMA ShorterIs ==
  ASSUME NEW L, NEW M, NEW f, Shorter(L, M, f)
  PROVE  /\ 1 \in 1..Len(L[f])
         /\ \A i \in 1..Len(M[f]) : i + 1 \in 1..Len(L[f]) /\ M[f][i] = L[f][i + 1] /\ i + 1 # 1 /\ i \in Nat
         /\ \A j \in 1..Len(L[f]) : j # 1 => j - 1 \in 1..Len(M[f]) /\ M[f][j - 1] = L[f][j]
<1>1. L[f] \in Seq(ChunkSet) /\ L[f] # <<>> /\ M[f] = Tail(L[f])
  BY DEF Shorter, ListSet
<1>2. /\ 1 \in 1..Len(L[f]) /\ Len(L[f]) \in Nat /\ Len(M[f]) = Len(L[f]) - 1
      /\ \A i \in 1..Len(M[f]) : M[f][i] = L[f][i + 1]
  BY <1>1, TailOf, ChunkTyped
<1>3. ASSUME NEW j \in 1..Len(L[f]), j # 1 PROVE j - 1 \in 1..Len(M[f]) /\ M[f][j - 1] = L[f][j]
  <2>1. j - 1 \in 1..Len(M[f]) /\ (j - 1) + 1 = j
    BY <1>2, <1>3
  <2> QED
    BY <1>2, <2>1
<1>4. ASSUME NEW i \in 1..Len(M[f]) PROVE i + 1 \in 1..Len(L[f]) /\ i + 1 # 1 /\ i \in Nat
  BY <1>2
<1> QED
  BY <1>2, <1>3, <1>4

LEMMA ApieceTail ==
  ASSUME NEW L, NEW M, NEW f, Shorter(L, M, f), NEW Z, NEW P, NEW R, NEW o, Apiece(L, Z, P, o), R \subseteq P
  PROVE  Apiece(M, Z, R, o)
<1> DEFINE up(g, i) == IF g = f THEN i + 1 ELSE i
<1>1. ASSUME NEW g \in Handles, NEW i \in 1..Len(M[g])
      PROVE  up(g, i) \in 1..Len(L[g]) /\ M[g][i] = L[g][up(g, i)]
  BY ShorterIs DEF Shorter
<1>2. ASSUME NEW g \in Handles, NEW i \in 1..Len(M[g]), NEW j \in 1..Len(M[g]), up(g, i) = up(g, j)
      PROVE  i = j
  BY <1>2, ShorterIs
<1> HIDE DEF up
<1>3. o.state = "sent" => o.id \notin Z
  BY DEF Apiece
<1>4. ASSUME NEW g \in Handles, NEW i \in 1..Len(M[g])
      PROVE  /\ M[g][i].id \notin Z
             /\ o.state = "sent" => o.id # M[g][i].id
             /\ \A p \in R : p.id = M[g][i].id => p.type \in {"STATUS", "DATA"}
  BY <1>1 DEF Apiece
<1>5. ASSUME NEW g \in Handles, NEW h \in Handles, NEW i \in 1..Len(M[g]), NEW j \in 1..Len(M[h]),
             M[g][i].id = M[h][j].id
      PROVE  g = h /\ i = j
  <2>1. /\ up(g, i) \in 1..Len(L[g]) /\ up(h, j) \in 1..Len(L[h])
        /\ L[g][up(g, i)].id = L[h][up(h, j)].id
    BY <1>1, <1>5
  <2>2. g = h /\ up(g, i) = up(h, j)
    <3> DEFINE a == up(g, i)
               b == up(h, j)
    <3>1. /\ a \in 1..Len(L[g]) /\ b \in 1..Len(L[h]) /\ L[g][a].id = L[h][b].id
      BY <2>1
    <3> HIDE DEF a, b
    <3>2. g = h /\ a = b
      BY <3>1, ApieceOne
    <3> QED
      BY <3>2 DEF a, b
  <2> QED
    BY <1>2, <2>2
<1> QED
  BY <1>3, <1>4, <1>5 DEF Apiece

LEMMA HeldTail ==
  ASSUME NEW L, NEW M, NEW f, Shorter(L, M, f), NEW Z, NEW P, NEW o, Apiece(L, Z, P, o), NEW x
  PROVE  Held(M, x) <=> (Held(L, x) /\ x # L[f][1].id)
<1>0. f \in Handles /\ 1 \in 1..Len(L[f]) /\ \A g \in Handles : g # f => M[g] = L[g]
  BY ShorterIs DEF Shorter
<1>1. ASSUME NEW g \in Handles, NEW i \in 1..Len(M[g]), M[g][i].id = x, M[g][i].sent = 2
      PROVE  Held(L, x) /\ x # L[f][1].id
  <2>1. CASE g = f
    <3>0. i \in 1..Len(M[f])
      BY <2>1
    <3>1. i + 1 \in 1..Len(L[f]) /\ M[f][i] = L[f][i + 1] /\ i + 1 # 1
      BY <3>0, ShorterIs
    <3>2. L[f][i + 1].id # L[f][1].id
      <4> DEFINE j == i + 1
      <4>1. j \in 1..Len(L[f]) /\ j # 1
        BY <3>1
      <4> HIDE DEF j
      <4>2. L[f][j].id # L[f][1].id
        BY <1>0, <4>1, ApieceOne
      <4> QED
        BY <4>2 DEF j
    <3>3. L[f][i + 1].id = x /\ L[f][i + 1].sent = 2
      BY <1>1, <2>1, <3>1
    <3> QED
      BY <1>0, <3>1, <3>2, <3>3 DEF Held
  <2>2. CASE g # f
    BY <1>0, <1>1, <2>2 DEF Apiece, Held
  <2> QED
    BY <2>1, <2>2
<1>2. ASSUME NEW g \in Handles, NEW j \in 1..Len(L[g]), L[g][j].id = x, L[g][j].sent = 2, x # L[f][1].id
      PROVE  Held(M, x)
  <2>1. CASE g = f
    <3>1. j # 1
      BY <1>2, <2>1
    <3>2. j - 1 \in 1..Len(M[f]) /\ M[f][j - 1] = L[f][j]
      BY <1>2, <2>1, <3>1, ShorterIs
    <3> QED
      BY <1>0, <1>2, <2>1, <3>2 DEF Held
  <2>2. CASE g # f
    BY <1>0, <1>2, <2>2 DEF Held
  <2> QED
    BY <2>1, <2>2
<1> QED
  BY <1>1, <1>2 DEF Held

(* The answer to the first chunk of a list is taken.                        *)
LEMMA EvenTake ==
  ASSUME NEW L, NEW M, NEW f, Shorter(L, M, f), NEW Z, NEW Q, NEW P, NEW o, Apiece(L, Z, P, o), One(Q, P),
         NEW p \in P, p.id = L[f][1].id, Even(L, Z, Q, P, o)
  PROVE  Even(M, Z, Q, P \ {p}, o)
<1>0. f \in Handles /\ 1 \in 1..Len(L[f])
  BY ShorterIs DEF Shorter
<1>1. p.id \notin Z /\ (o.state = "sent" => o.id # p.id)
  BY <1>0 DEF Apiece
<1>2. ASSUME NEW x PROVE Waits(M, Z, o, x) <=> (Waits(L, Z, o, x) /\ x # p.id)
  BY <1>1, HeldTail DEF Waits
<1> QED
  BY <1>2, ComingLess DEF Even

(* The answer to the request of another kind is taken.                      *)
LEMMA EvenOpDone ==
  ASSUME NEW L, NEW Z, NEW Q, NEW P, NEW o, NEW q, Apiece(L, Z, P, o), One(Q, P), o.state = "sent",
         NEW p \in P, p.id = o.id, q.state # "sent", Even(L, Z, Q, P, o)
  PROVE  Even(L, Z, Q, P \ {p}, q)
<1>1. ASSUME NEW x PROVE Waits(L, Z, q, x) <=> (Waits(L, Z, o, x) /\ x # p.id)
  BY DEF Waits, Apiece, Held
<1> QED
  BY <1>1, ComingLess DEF Even

(* The request of another kind is made.                                     *)
LEMMA EvenOpOut ==
  ASSUME NEW L, NEW Z, NEW Q, NEW P, NEW o, NEW q, NEW r, o.state # "sent", q.state = "sent",
         r.id = q.id, Even(L, Z, Q, P, o)
  PROVE  Even(L, Z, Q \cup {r}, P, q)
<1>1. ASSUME NEW x PROVE Waits(L, Z, q, x) <=> (Waits(L, Z, o, x) \/ x = r.id)
  BY DEF Waits
<1>2. ASSUME NEW x PROVE Coming(Q \cup {r}, P, x) <=> (Coming(Q, P, x) \/ x = r.id)
  BY DEF Coming
<1> QED
  BY <1>1, <1>2 DEF Even

(* An answer is received.                                                   *)
LEMMA EvenGot ==
  ASSUME NEW L, NEW Z, NEW Y, NEW Q, NEW P, NEW R, NEW o, Apiece(L, Z, P, o), One(Q, P),
         NEW r \in Q, NEW p, p.id = r.id, Even(L, Z, Q, P, o),
         (p.id \in Z /\ Y = Z \ {p.id} /\ R = P) \/ (Y = Z /\ R = P \cup {p})
  PROVE  Even(L, Y, Q \ {r}, R, o)
<1>1. CASE Y = Z /\ R = P \cup {p}
  <2>1. ASSUME NEW x PROVE Coming(Q \ {r}, R, x) <=> Coming(Q, P, x)
    BY <1>1 DEF Coming
  <2> QED
    BY <1>1, <2>1 DEF Even
<1>2. CASE p.id \in Z /\ Y = Z \ {p.id} /\ R = P
  <2>1. ASSUME NEW x PROVE Coming(Q \ {r}, R, x) <=> (Coming(Q, P, x) /\ x # p.id)
    BY <1>2 DEF Coming, One
  <2>2. ASSUME NEW x PROVE Waits(L, Y, o, x) <=> (Waits(L, Z, o, x) /\ x # p.id)
    BY <1>2 DEF Waits, Apiece, Held
  <2> QED
    BY <2>1, <2>2 DEF Even
<1> QED
  BY <1>1, <1>2

(* A chunk is sent.                                                         *)
LEMMA EvenSent ==
  ASSUME NEW L, NEW M, NEW f \in Handles, NEW i \in 1..Len(L[f]), Marked(L, M, f, i, 2), L[f][i].sent # 2,
         NEW Z, NEW Q, NEW P, NEW o, NEW r, r.id = L[f][i].id, Even(L, Z, Q, P, o)
  PROVE  Even(M, Z, Q \cup {r}, P, o)
<1>1. ASSUME NEW x PROVE Held(M, x) <=> (Held(L, x) \/ x = r.id)
  <2>1. ASSUME NEW g \in Handles, NEW j \in 1..Len(M[g]), M[g][j].id = x, M[g][j].sent = 2
        PROVE  Held(L, x) \/ x = r.id
    BY <2>1 DEF Marked, Held
  <2>2. ASSUME NEW g \in Handles, NEW j \in 1..Len(L[g]), L[g][j].id = x, L[g][j].sent = 2
        PROVE  Held(M, x)
    <3>1. (g # f \/ j # i) /\ j \in 1..Len(M[g])
      BY <2>2 DEF Marked
    <3>2. M[g][j] = L[g][j]
      BY <3>1 DEF Marked
    <3> QED
      BY <2>2, <3>1, <3>2 DEF Held
  <2>3. Held(M, r.id)
    <3>1. i \in 1..Len(M[f]) /\ M[f][i].id = r.id /\ M[f][i].sent = 2
      BY DEF Marked
    <3> QED
      BY <3>1 DEF Held
  <2> QED
    BY <2>1, <2>2, <2>3 DEF Held
<1>2. ASSUME NEW x PROVE Coming(Q \cup {r}, P, x) <=> (Coming(Q, P, x) \/ x = r.id)
  BY DEF Coming
<1> QED
  BY <1>1, <1>2 DEF Even, Waits

(* New chunks wait for nothing.                                             *)
LEMMA EvenGrow ==
  ASSUME NEW L \in ListSet, NEW M, NEW f \in Handles, NEW new \in Seq(ChunkSet), M[f] = L[f] \o new,
         \A g \in Handles : g # f => M[g] = L[g], \A i \in 1..Len(new) : new[i].sent = 0,
         NEW Z, NEW Q, NEW P, NEW o, Even(L, Z, Q, P, o)
  PROVE  Even(M, Z, Q, P, o)
<1>0. L[f] \in Seq(ChunkSet)
  BY DEF ListSet
<1> DEFINE m == Len(L[f])
<1>1. /\ m \in Nat /\ Len(new) \in Nat /\ Len(M[f]) = m + Len(new)
      /\ \A i \in 1..m : M[f][i] = L[f][i]
      /\ \A i \in 1..Len(M[f]) : i \in 1..m \/ (i - m \in 1..Len(new) /\ M[f][i] = new[i - m])
  <2>1. L[f] \o new \in Seq(ChunkSet) /\ Len(L[f] \o new) = Len(L[f]) + Len(new)
    BY <1>0
  <2> QED
    BY <1>0, <2>1, ChunkTyped
<1>2. ASSUME NEW x PROVE Held(M, x) <=> Held(L, x)
  <2>1. ASSUME NEW g \in Handles, NEW j \in 1..Len(M[g]), M[g][j].id = x, M[g][j].sent = 2
        PROVE  Held(L, x)
    <3>1. j \in 1..Len(L[g]) /\ M[g][j] = L[g][j]
      <4>1. CASE g = f
        <5>1. j \in 1..m
          <6>1. \A i \in 1..Len(new) : new[i].sent # 2
            OBVIOUS
          <6> QED
            BY <1>1, <2>1, <4>1, <6>1, ZenonT(60)
        <5> QED
          BY <1>1, <4>1, <5>1
      <4>2. CASE g # f
        BY <4>2
      <4> QED
        BY <4>1, <4>2
    <3> QED
      BY <2>1, <3>1 DEF Held
  <2>2. ASSUME NEW g \in Handles, NEW j \in 1..Len(L[g]), L[g][j].id = x, L[g][j].sent = 2
        PROVE  Held(M, x)
    <3>1. j \in 1..Len(M[g]) /\ M[g][j] = L[g][j]
      <4>1. CASE g = f
        BY <1>1, <2>2, <4>1
      <4>2. CASE g # f
        BY <4>2
      <4> QED
        BY <4>1, <4>2
    <3> QED
      BY <2>2, <3>1 DEF Held
  <2> QED
    BY <2>1, <2>2 DEF Held
<1> QED
  BY <1>2 DEF Even, Waits

(* The chunks of a file are given up: sftp_packetlist_flush().              *)
Flush(l, Z, P, Y, R) ==
  /\ \A p : p \in R <=> (p \in P /\ ~(p.type \in {"STATUS", "DATA"} /\ \E i \in 1..Len(l) : l[i].id = p.id))
  /\ \A x : x \in Y <=> \/ x \in Z
                        \/ /\ \E i \in 1..Len(l) : l[i].id = x /\ l[i].sent > 0
                           /\ ~\E p \in P : p.type \in {"STATUS", "DATA"} /\ p.id = x

LEMMA FlushIs ==
  ASSUME NEW l \in Seq(ChunkSet), NEW ps, PacketlistFlush(l, ps)
  PROVE  Flush(l, zombies, ps, zombies', packets')
<1>1. DOMAIN l = 1..Len(l)
  BY ChunkTyped
<1> DEFINE came == {p \in ps : p.type \in {"STATUS", "DATA"} /\ \E c \in Range(l) : c.id = p.id}
           sent == {c.id : c \in {d \in Range(l) : d.sent > 0}}
<1>2. packets' = ps \ came /\ zombies' = zombies \cup (sent \ {p.id : p \in came})
  BY DEF PacketlistFlush
<1>3. \A c : c \in Range(l) <=> \E i \in 1..Len(l) : c = l[i]
  BY <1>1 DEF Range
<1>4. \A p : p \in came <=> (p \in ps /\ p.type \in {"STATUS", "DATA"} /\ \E i \in 1..Len(l) : l[i].id = p.id)
  BY <1>3
<1>5. \A x : x \in sent <=> \E i \in 1..Len(l) : l[i].id = x /\ l[i].sent > 0
  BY <1>3
<1> HIDE DEF came, sent
<1>6. ASSUME NEW p
      PROVE  p \in packets' <=>
                (p \in ps /\ ~(p.type \in {"STATUS", "DATA"} /\ \E i \in 1..Len(l) : l[i].id = p.id))
  BY <1>2, <1>4
<1>7. ASSUME NEW x
      PROVE  x \in zombies' <=> \/ x \in zombies
                                \/ /\ \E i \in 1..Len(l) : l[i].id = x /\ l[i].sent > 0
                                   /\ ~\E p \in ps : p.type \in {"STATUS", "DATA"} /\ p.id = x
  BY <1>2, <1>4, <1>5
<1> QED
  BY <1>6, <1>7 DEF Flush

LEMMA EvenFlush ==
  ASSUME NEW L \in ListSet, NEW M, NEW f \in Handles, M[f] = <<>>, \A g \in Handles : g # f => M[g] = L[g],
         NEW Z, NEW Y, NEW Q, NEW P, NEW R, NEW o, Flush(L[f], Z, P, Y, R), Apiece(L, Z, P, o), One(Q, P),
         \A i \in 1..Len(L[f]) : L[f][i].sent = 2 \/ L[f][i].sent = 0, Even(L, Z, Q, P, o)
  PROVE  Even(M, Y, Q, R, o)
<1>0. \A i \in 1..Len(L[f]) : L[f][i].sent > 0 <=> L[f][i].sent = 2
  OBVIOUS
<1>e. \A i : i \notin 1..Len(M[f])
  BY EmptyList
<1>1. ASSUME NEW x, \A i \in 1..Len(L[f]) : L[f][i].id # x
      PROVE  Waits(M, Y, o, x) <=> Coming(Q, R, x)
  <2>1. Held(M, x) <=> Held(L, x)
    BY <1>1, <1>e DEF Held
  <2>2. x \in Y <=> x \in Z
    BY <1>1 DEF Flush
  <2>3. Coming(Q, R, x) <=> Coming(Q, P, x)
    BY <1>1 DEF Flush, Coming
  <2> QED
    BY <2>1, <2>2, <2>3 DEF Even, Waits
<1>2. ASSUME NEW x, NEW i \in 1..Len(L[f]), L[f][i].id = x
      PROVE  Waits(M, Y, o, x) <=> Coming(Q, R, x)
  <2>1. /\ x \notin Z /\ (o.state = "sent" => o.id # x) /\ \A p \in P : p.id = x => p.type \in {"STATUS", "DATA"}
        /\ \A g \in Handles : \A j \in 1..Len(L[g]) : L[g][j].id = x => g = f /\ j = i
    BY <1>2 DEF Apiece
  <2>2. ~Held(M, x)
    BY <1>e, <2>1 DEF Held
  <2>3. Held(L, x) <=> L[f][i].sent = 2
    BY <1>2, <2>1 DEF Held
  <2>4. x \in Y <=> (L[f][i].sent = 2 /\ ~\E p \in P : p.id = x)
    BY <1>0, <1>2, <2>1 DEF Flush
  <2>5. ~\E p \in R : p.id = x
    BY <1>2, <2>1 DEF Flush
  <2>6. L[f][i].sent = 2 <=> Coming(Q, P, x)
    BY <2>1, <2>3 DEF Even, Waits
  <2>7. (\E p \in P : p.id = x) => ~\E r \in Q : r.id = x
    BY DEF One
  <2> QED
    BY <2>1, <2>2, <2>4, <2>5, <2>6, <2>7 DEF Waits, Coming
<1> QED
  BY <1>1, <1>2 DEF Even

Whole(l) == \A i \in 1..Len(l) : l[i].sent # 1

Plain ==
  mood = "plain" =>
    /\ half = 0 /\ ~garbled /\ \A f \in Handles : Whole(file[f].list)
    /\ init_state # "down" => Even(Lists, zombies, pending, packets, op)

LEMMA PlainFacts ==
  ASSUME Base, Once, mood = "plain"
  PROVE  /\ Apiece(Lists, zombies, packets, op) /\ One(pending, packets)
         /\ Lists \in ListSet /\ \A f \in Handles : Lists[f] = F(f).list /\ F(f).list \in Seq(ChunkSet)
<1>1. Apiece(Lists, zombies, packets, op)
  BY ApieceOwned DEF Base, Core, Owns
<1> QED
  BY <1>1, ListsTyped DEF Base, Core, Once, F

LEMMA PlainNext ==
  ASSUME World, init_state' = init_state, half' = 0, ~garbled',
         \A f \in Handles : Whole(file'[f].list),
         init_state # "down" => Even(Lists', zombies', pending', packets', op')
  PROVE  Plain'
<1>1. Even(Lists', zombies', pending', packets', op') => Even(Lists, zombies, pending, packets, op)'
  BY DEF Even, Waits, Held, Coming
<1> QED
  BY <1>1 DEF Plain, Whole, World

LEMMA WholeOne ==
  ASSUME Plain, mood = "plain", NEW f \in Handles, OtherFiles(f), Whole(file'[f].list)
  PROVE  \A g \in Handles : Whole(file'[g].list)
  BY DEF Plain, OtherFiles

(* Nothing is sent, received or given up.                                   *)
LEMMA PlainQuiet ==
  ASSUME Plain, World, UNCHANGED <<half, garbled, pending, packets, zombies, init_state>>,
         \A f \in Handles : file'[f].list = file[f].list,
         op' = op \/ (op.state # "sent" /\ op'.state # "sent")
  PROVE  Plain'
<1> SUFFICES ASSUME mood = "plain" PROVE Plain'
  BY DEF Plain, World
<1>1. Lists' = Lists
  BY DEF Lists
<1>2. \A x : Waits(Lists, zombies, op', x) <=> Waits(Lists, zombies, op, x)
  BY DEF Waits
<1>3. init_state # "down" => Even(Lists', zombies', pending', packets', op')
  BY <1>1, <1>2 DEF Plain, Even
<1>4. half' = 0 /\ ~garbled' /\ \A f \in Handles : Whole(file'[f].list)
  BY DEF Plain
<1> QED
  BY <1>3, <1>4, PlainNext

LEMMA PlainGrow ==
  ASSUME Base, Once, Plain, World, UNCHANGED <<half, garbled, pending, packets, zombies, init_state, op>>,
         NEW f \in Handles, OtherFiles(f), NEW new, NEW x, Built(new, x), file'[f].list = F(f).list \o new
  PROVE  Plain'
<1> SUFFICES ASSUME mood = "plain" PROVE Plain'
  BY DEF Plain, World
<1>1. /\ Lists \in ListSet /\ Lists[f] = F(f).list /\ new \in Seq(ChunkSet) /\ F(f).list \in Seq(ChunkSet)
      /\ \A i \in 1..Len(new) : new[i].sent = 0
  BY PlainFacts DEF Built
<1> DEFINE M == Lists'
<1>2. M[f] = Lists[f] \o new /\ \A g \in Handles : g # f => M[g] = Lists[g]
  BY <1>1 DEF Lists, OtherFiles
<1> HIDE DEF M
<1>3. init_state # "down" => Even(M, zombies, pending, packets, op)
  BY <1>1, <1>2, EvenGrow DEF Plain
<1>4. Whole(F(f).list \o new)
  <2>1. Whole(F(f).list) /\ Whole(new)
    BY <1>1 DEF Plain, F, Whole
  <2> QED
    BY <1>1, <2>1, JoinOf DEF Whole
<1>5. \A g \in Handles : Whole(file'[g].list)
  BY <1>4, WholeOne
<1>6. half' = 0 /\ ~garbled'
  BY DEF Plain
<1> QED
  BY <1>3, <1>5, <1>6, PlainNext DEF M

LEMMA PlainSend ==
  ASSUME Base, Once, Plain, World, UNCHANGED <<packets, zombies, init_state, op>>, NEW i, NEW v, SendOut(i, v)
  PROVE  Plain'
<1> SUFFICES ASSUME mood = "plain" PROVE Plain'
  BY DEF Plain, World
<1> DEFINE r == Request(Doing, at, F(at).list[i])
           M == Lists'
           l == F(at).list
           m == file'[at].list
<1>1. /\ Lists \in ListSet /\ at \in Handles /\ Lists[at] = l /\ l \in Seq(ChunkSet) /\ r.id = l[i].id
      /\ half = 0 /\ ~garbled
  BY PlainFacts DEF Base, Core, Shape, Plain, Request
<1>2. /\ v = 2 /\ pending' = pending \cup {r} /\ half' = 0 /\ ~garbled' /\ l[i].sent # 2
      /\ i \in 1..Len(l) /\ OtherFiles(at) /\ Like(l, m, i, 2)
  BY <1>1, ChunkTyped DEF SendOut, SentFile, Passed, Becomes
<1>3. M[at] = m /\ \A g \in Handles : g # at => M[g] = Lists[g]
  BY <1>1, <1>2 DEF Lists, OtherFiles
<1>4. m \in Seq(ChunkSet) /\ Len(m) = Len(l) /\ \A j \in 1..Len(l) : j # i => m[j] = l[j]
  <2>1. m \in Seq(ChunkSet) /\ Len(m) = Len(l)
    BY <1>2 DEF Like
  <2>2. ASSUME NEW j \in 1..Len(l), j # i PROVE m[j] = l[j]
    <3>1. m[j] \in ChunkSet /\ l[j] \in ChunkSet
      BY <1>1, <2>1, ChunkTyped
    <3>2. /\ m[j].id = l[j].id /\ m[j].offset = l[j].offset /\ m[j].len = l[j].len /\ m[j].from = l[j].from
          /\ m[j].sent = l[j].sent
      BY <1>2, <2>2 DEF Like
    <3> HIDE DEF l, m
    <3>3. \A c, d \in ChunkSet :
            (c.id = d.id /\ c.offset = d.offset /\ c.len = d.len /\ c.from = d.from /\ c.sent = d.sent)
            => c = d
      BY DEF ChunkSet
    <3> QED
      BY <3>1, <3>2, <3>3
  <2> QED
    BY <2>1, <2>2
<1>5. /\ m[i].id = l[i].id /\ m[i].offset = l[i].offset
      /\ m[i].len = l[i].len /\ m[i].from = l[i].from /\ m[i].sent = 2
  BY <1>2 DEF Like
<1>6. \A g \in Handles : Whole(file'[g].list)
  <2>1. Whole(l)
    BY <1>1 DEF Plain, F
  <2>2. Whole(m)
    BY <1>4, <1>5, <2>1 DEF Whole
  <2> QED
    BY <1>1, <1>2, <2>2, WholeOne
<1> HIDE DEF M, l, m, r
<1>7. Marked(Lists, M, at, i, 2)
  BY <1>1, <1>3, <1>4, <1>5 DEF Marked
<1>8. init_state # "down" => Even(M, zombies, pending \cup {r}, packets, op)
  BY <1>1, <1>2, <1>7, EvenSent DEF Plain
<1> QED
  BY <1>2, <1>6, <1>8, PlainNext DEF M

LEMMA PlainReceive ==
  ASSUME Base, Once, Plain, World, UNCHANGED <<half, garbled, init_state, op, file>>, PacketRead
  PROVE  Plain'
<1> SUFFICES ASSUME mood = "plain" PROVE Plain'
  BY DEF Plain, World
<1>1. Apiece(Lists, zombies, packets, op) /\ One(pending, packets) /\ Shape /\ mood # "odd"
  BY PlainFacts DEF Base, Core
<1>2. PICK r \in pending : \E p : pending' = pending \ {r} /\ Came(r, p)
  BY <1>1, Served
<1>3. PICK p : pending' = pending \ {r} /\ Came(r, p)
  BY <1>2
<1> DEFINE Y == zombies'
           R == packets'
<1>4. /\ p.id = r.id
      /\ (p.id \in zombies /\ Y = zombies \ {p.id} /\ R = packets) \/ (Y = zombies /\ R = packets \cup {p})
  BY <1>3 DEF Came, PacketAdd
<1> HIDE DEF Y, R
<1>5. init_state # "down" => Even(Lists, Y, pending \ {r}, R, op)
  BY <1>1, <1>4, EvenGot DEF Plain
<1>6. Lists' = Lists
  BY DEF Lists
<1>7. half' = 0 /\ ~garbled' /\ \A f \in Handles : Whole(file'[f].list)
  BY DEF Plain
<1> QED
  BY <1>3, <1>5, <1>6, <1>7, PlainNext DEF Y, R

(* The answer to the first chunk is taken.                                  *)
LEMMA PlainTake ==
  ASSUME Base, Once, Plain, World, UNCHANGED <<half, garbled, init_state, op, pending, zombies>>,
         NEW p, First(p), OtherFiles(at), file'[at].list = Tail(F(at).list), packets' = packets \ {p}
  PROVE  Plain'
<1> SUFFICES ASSUME mood = "plain" PROVE Plain'
  BY DEF Plain, World
<1>1. /\ Apiece(Lists, zombies, packets, op) /\ One(pending, packets) /\ at \in Handles
      /\ Lists \in ListSet /\ Lists[at] = F(at).list /\ F(at).list \in Seq(ChunkSet)
  BY PlainFacts DEF Base, Core, Shape
<1>2. F(at).list # <<>> /\ p \in packets /\ p.id = F(at).list[1].id
  BY DEF First
<1> DEFINE M == Lists'
<1>3. Shorter(Lists, M, at)
  BY <1>1, <1>2 DEF Shorter, Lists, OtherFiles
<1> HIDE DEF M
<1>4. init_state # "down" => Even(M, zombies, pending, packets \ {p}, op)
  BY <1>1, <1>2, <1>3, EvenTake DEF Plain
<1>5. Whole(Tail(F(at).list))
  <2>1. Whole(F(at).list)
    BY <1>1 DEF Plain, F
  <2> QED
    BY <1>1, <1>2, <2>1, TailOf DEF Whole
<1>6. \A g \in Handles : Whole(file'[g].list)
  BY <1>1, <1>5, WholeOne
<1>7. half' = 0 /\ ~garbled'
  BY DEF Plain
<1> QED
  BY <1>4, <1>6, <1>7, PlainNext DEF M

(* The chunks of f, from those of L[f], are given up; L, P and q are what   *)
(* was there when the answer at hand was taken.                             *)
LEMMA PlainFlush ==
  ASSUME Plain, mood = "plain", World, UNCHANGED <<half, garbled, init_state, pending>>,
         NEW f \in Handles, OtherFiles(f), file'[f].list = <<>>,
         NEW L \in ListSet, \A g \in Handles : g # f => L[g] = Lists[g], Whole(L[f]),
         NEW P, PacketlistFlush(L[f], P), Apiece(L, zombies, P, op'), One(pending, P),
         init_state # "down" => Even(L, zombies, pending, P, op')
  PROVE  Plain'
<1> DEFINE M == Lists'
           Y == zombies'
           R == packets'
           q == op'
<1>1. L[f] \in Seq(ChunkSet)
  BY DEF ListSet
<1>2. Flush(L[f], zombies, P, Y, R)
  BY <1>1, FlushIs
<1>3. M[f] = <<>> /\ \A g \in Handles : g # f => M[g] = L[g]
  BY DEF Lists, OtherFiles
<1>4. \A i \in 1..Len(L[f]) : L[f][i].sent = 2 \/ L[f][i].sent = 0
  BY <1>1, ChunkTyped DEF Whole
<1>5. Apiece(L, zombies, P, q) /\ (init_state # "down" => Even(L, zombies, pending, P, q))
  OBVIOUS
<1> HIDE DEF M, Y, R, q
<1>6. init_state # "down" => Even(M, Y, pending, R, q)
  BY <1>2, <1>3, <1>4, <1>5, EvenFlush
<1>7. Whole(<<>>)
  BY EmptyList DEF Whole
<1>8. \A g \in Handles : Whole(file'[g].list)
  BY <1>7, WholeOne
<1>9. half' = 0 /\ ~garbled'
  BY DEF Plain
<1> QED
  BY <1>6, <1>8, <1>9, PlainNext DEF M, Y, R, q

LEMMA CallReadPlain ==
  ASSUME Base, Once, Plain, NEW f \in Handles, NEW b \in Nat \ {0}, CallRead(f, b)
  PROVE  Plain'
<1>0. Shape /\ World /\ UNCHANGED <<half, garbled, pending, packets, zombies, init_state, op>>
  BY DEF Base, Core, CallRead, World, worldVars, wireVars
<1>1. ASSUME NEW n, RLeft(f, b, n) PROVE Plain'
  <2>1. \A g \in Handles : file'[g].list = file[g].list
    BY <1>1 DEF RLeft, Becomes, OtherFiles, F
  <2> QED
    BY <1>0, <2>1, PlainQuiet
<1>2. ASSUME NEW new, RBuild(f, b, new) PROVE Plain'
  <2> DEFINE x == F(f).offset_sent
  <2>1. OtherFiles(f) /\ Built(new, x) /\ file'[f].list = F(f).list \o new
    BY <1>2 DEF RBuild, Becomes
  <2> HIDE DEF x
  <2> QED
    BY <1>0, <2>1, PlainGrow
<1>3. CASE RResume
  BY <1>0, <1>3, PlainQuiet DEF RResume
<1> QED
  BY <1>0, <1>1, <1>2, <1>3, CallReadCases

LEMMA CallWritePlain ==
  ASSUME Base, Once, Plain, NEW f \in Handles, NEW n \in Nat, CallWrite(f, n)
  PROVE  Plain'
<1>0. Shape /\ World /\ UNCHANGED <<half, garbled, pending, packets, zombies, init_state, op>>
  BY DEF Base, Core, CallWrite, World, worldVars, wireVars
<1>1. ASSUME NEW new, WBuild(f, n, new) PROVE Plain'
  <2> DEFINE x == F(f).offset_sent
  <2>1. OtherFiles(f) /\ Built(new, x) /\ file'[f].list = F(f).list \o new
    BY <1>1 DEF WBuild, Becomes
  <2> HIDE DEF x
  <2> QED
    BY <1>0, <2>1, PlainGrow
<1>2. CASE WResume
  BY <1>0, <1>2, PlainQuiet DEF WResume
<1> QED
  BY <1>0, <1>1, <1>2, CallWriteCases

LEMMA SeekPlain ==
  ASSUME Base, Once, Plain, NEW f \in Handles, NEW o \in Int, Seek(f, o)
  PROVE  Plain'
<1>0. /\ Shape /\ World /\ UNCHANGED <<half, garbled, pending, init_state, op>>
      /\ PacketlistFlush(F(f).list, packets)
  BY DEF Base, Core, Seek, World, worldVars, wireVars, F
<1> SUFFICES ASSUME mood = "plain" PROVE Plain'
  BY <1>0 DEF Plain, World
<1>1. OtherFiles(f) /\ file'[f].list = <<>>
  BY <1>0, SeekCases DEF Becomes
<1>2. /\ Apiece(Lists, zombies, packets, op') /\ One(pending, packets)
      /\ Lists \in ListSet /\ Lists[f] = F(f).list /\ Whole(F(f).list)
      /\ init_state # "down" => Even(Lists, zombies, pending, packets, op')
  BY <1>0, PlainFacts DEF Plain, F
<1> DEFINE L == Lists
<1>3. /\ L \in ListSet /\ (\A g \in Handles : g # f => L[g] = Lists[g]) /\ Whole(L[f])
      /\ PacketlistFlush(L[f], packets) /\ Apiece(L, zombies, packets, op')
      /\ init_state # "down" => Even(L, zombies, pending, packets, op')
  BY <1>0, <1>2
<1> HIDE DEF L
<1> QED
  BY <1>0, <1>1, <1>2, <1>3, PlainFlush

LEMMA CallOpPlain ==
  ASSUME Base, Plain, NEW f \in Handles, CallOp(f)
  PROVE  Plain'
<1>0. World /\ UNCHANGED <<half, garbled, pending, packets, zombies, init_state, file>>
  BY DEF CallOp, World, worldVars, wireVars
<1>1. op' = op \/ (op.state = "idle" /\ op'.state = "created")
  BY DEF CallOp
<1> QED
  BY <1>0, <1>1, PlainQuiet

LEMMA ReadSendPlain ==
  ASSUME Base, Once, Plain, ReadSend
  PROVE  Plain'
<1>0. World /\ UNCHANGED <<packets, zombies, init_state, op>>
  BY DEF ReadSend, World, worldVars
<1>1. CASE RsDone \/ RsAgain
  BY <1>0, <1>1, PlainQuiet DEF RsDone, RsAgain
<1>2. ASSUME NEW i, NEW v, RsOut(i, v) PROVE Plain'
  BY <1>0, <1>2, PlainSend DEF RsOut
<1> QED
  BY <1>1, <1>2, ReadSendCases

LEMMA WriteSendPlain ==
  ASSUME Base, Once, Plain, WriteSend
  PROVE  Plain'
<1>0. World /\ UNCHANGED <<packets, zombies, init_state, op>>
  BY DEF WriteSend, World, worldVars, sftpVars
<1>1. CASE WsDone \/ WsAgain
  BY <1>0, <1>1, PlainQuiet DEF WsDone, WsAgain
<1>2. ASSUME NEW i, NEW v, WsOut(i, v) PROVE Plain'
  BY <1>0, <1>2, PlainSend DEF WsOut
<1> QED
  BY <1>1, <1>2, WriteSendCases

LEMMA ReadRecvPlain ==
  ASSUME Base, Once, Plain, Reads, Follows, ReadRecv
  PROVE  Plain'
<1>0. World /\ Shape /\ at \in Handles /\ UNCHANGED <<init_state, op, half, garbled>>
  BY DEF Base, Core, Shape, ReadRecv, World, worldVars
<1> SUFFICES ASSUME mood = "plain" PROVE Plain'
  BY <1>0 DEF Plain, World
<1>1. CASE RrEnd \/ RrAgain
  BY <1>0, <1>1, PlainQuiet DEF RrEnd, RrAgain
<1>2. CASE RrMore
  BY <1>0, <1>2, PlainReceive DEF RrMore
<1>3. ASSUME NEW p, RrBad(p) PROVE FALSE
  BY <1>3, NeverBad
<1>4. ASSUME NEW p, NEW n, RrGot, RrData(p, n) PROVE Plain'
  BY <1>0, <1>4, PlainTake DEF RrGot, RrData, Becomes
<1>5. ASSUME NEW p, RrGot, RrStatus(p) PROVE Plain'
  <2>1. /\ F(at).list # <<>> /\ p \in packets /\ p.id = F(at).list[1].id
        /\ PacketlistFlush(Tail(F(at).list), packets \ {p}) /\ OtherFiles(at) /\ file'[at].list = <<>>
        /\ pending' = pending
    BY <1>5 DEF RrStatus, RrGot, First, Becomes
  <2>2. /\ Apiece(Lists, zombies, packets, op) /\ One(pending, packets)
        /\ Lists \in ListSet /\ Lists[at] = F(at).list /\ Whole(F(at).list) /\ F(at).list \in Seq(ChunkSet)
        /\ init_state # "down" => Even(Lists, zombies, pending, packets, op)
    BY <1>0, PlainFacts DEF Plain, F
  <2> DEFINE M == [Lists EXCEPT ![at] = Tail(@)]
             P == packets \ {p}
  <2>3. /\ M \in ListSet /\ Shorter(Lists, M, at) /\ M[at] = Tail(F(at).list)
        /\ \A g \in Handles : g # at => M[g] = Lists[g]
    <3>1. Tail(F(at).list) \in Seq(ChunkSet)
      BY <2>1, <2>2, TailOf
    <3> QED
      BY <1>0, <2>1, <2>2, <3>1 DEF Shorter, ListSet
  <2>4. Whole(Tail(F(at).list))
    BY <2>1, <2>2, TailOf DEF Whole
  <2>5. P \subseteq packets /\ PacketlistFlush(M[at], P)
    BY <2>1, <2>3
  <2>6. One(pending, P)
    BY <2>2, OneLess
  <2> HIDE DEF M
  <2>7. init_state # "down" => Even(M, zombies, pending, P, op)
    BY <2>1, <2>2, <2>3, EvenTake
  <2> HIDE DEF P
  <2>8. Apiece(M, zombies, P, op)
    BY <2>2, <2>3, <2>5, ApieceTail
  <2> QED
    BY <1>0, <2>1, <2>3, <2>4, <2>5, <2>6, <2>7, <2>8, PlainFlush
<1> QED
  BY <1>1, <1>2, <1>3, <1>4, <1>5, ReadRecvCases

LEMMA WriteAckPlain ==
  ASSUME Base, Once, Plain, WriteAck
  PROVE  Plain'
<1>0. World /\ Shape /\ Owns /\ at \in Handles /\ scene = "write" /\ UNCHANGED <<init_state, op, half, garbled>>
  BY DEF Base, Core, Shape, Place, WriteAck, World, worldVars
<1> SUFFICES ASSUME mood = "plain" PROVE Plain'
  BY <1>0 DEF Plain, World
<1>1. ASSUME NEW r, WaReport(r) PROVE Plain'
  <2>1. \A g \in Handles : file'[g].list = file[g].list
    BY <1>1 DEF WaReport, Becomes, OtherFiles, F
  <2> QED
    BY <1>0, <1>1, <2>1, PlainQuiet DEF WaReport
<1>2. CASE WaAgain
  BY <1>0, <1>2, PlainQuiet DEF WaAgain
<1>3. CASE WaMore
  BY <1>0, <1>3, PlainReceive DEF WaMore
<1>4. ASSUME NEW p, WaShort(p) \/ WaFail(p) PROVE FALSE
  <2>1. F(at).list # <<>> /\ p \in packets /\ p.id = F(at).list[1].id /\ (p.short \/ p.code # "OK")
    BY <1>4 DEF WaShort, WaFail, First
  <2> QED
    BY <1>0, <2>1, AnswerWrite
<1>5. ASSUME NEW p, NEW r, WaGot, WaOk(p, r) PROVE Plain'
  BY <1>0, <1>5, PlainTake DEF WaGot, WaOk, Becomes
<1> QED
  BY <1>1, <1>2, <1>3, <1>4, <1>5, WriteAckCases

LEMMA OpSendWire ==
  ASSUME Base, OpSend, mood = "plain", half = 0, ~garbled
  PROVE  half' = 0 /\ ~garbled'
<1>1. PICK rc \in WriteResults : Write(OsRequest, OpRest, rc)
  BY Zenon DEF OpSend, OsRequest
<1>2. Goes(OsRequest, OpRest, rc)
  BY <1>1, OpGoes DEF OpSend
<1> QED
  BY <1>2 DEF Goes

LEMMA OpSendPlain ==
  ASSUME Base, Plain, OpSend
  PROVE  Plain'
<1>0. World /\ Shape /\ op.state = "created" /\ init_state' = init_state
  BY DEF Base, Core, Shape, Place, OpSend, World, worldVars
<1> SUFFICES ASSUME mood = "plain" PROVE Plain'
  BY <1>0 DEF Plain, World
<1>1. half = 0 /\ ~garbled /\ half' = 0 /\ ~garbled'
  BY OpSendWire DEF Plain
<1>2. CASE OsAll
  <2> DEFINE q == op'
             r == OsRequest
  <2>1. /\ q.state = "sent" /\ r.id = q.id /\ pending' = pending \cup {r}
        /\ UNCHANGED <<packets, zombies, file>>
    BY <1>0, <1>1, <1>2 DEF OsAll, OsRequest, Shape, OpSet
  <2> HIDE DEF q, r
  <2>2. init_state # "down" => Even(Lists, zombies, pending \cup {r}, packets, q)
    BY <1>0, <2>1, EvenOpOut DEF Plain
  <2>3. Lists' = Lists /\ \A f \in Handles : Whole(file'[f].list)
    BY <2>1 DEF Lists, Plain
  <2> QED
    BY <1>0, <1>1, <2>1, <2>2, <2>3, PlainNext DEF q
<1>3. CASE OsAgain
  <2>1. UNCHANGED <<op, pending, packets, zombies, file>>
    BY <1>3 DEF OsAgain
  <2>2. Lists' = Lists /\ \A f \in Handles : Whole(file'[f].list)
    BY <2>1 DEF Lists, Plain
  <2>3. init_state # "down" => Even(Lists', zombies', pending', packets', op')
    BY <2>1, <2>2 DEF Plain
  <2> QED
    BY <1>0, <1>1, <2>2, <2>3, PlainNext
<1>4. CASE OsPart
  BY <1>4 DEF OsPart
<1> QED
  BY <1>2, <1>3, <1>4, OpSendCases

LEMMA OpWaitPlain ==
  ASSUME Base, Once, Plain, OpWait
  PROVE  Plain'
<1>0. World /\ Shape /\ Owns /\ at \in Handles /\ op.state = "sent" /\ UNCHANGED <<init_state, half, garbled>>
  BY DEF Base, Core, Shape, Place, OpWait, World, worldVars
<1> SUFFICES ASSUME mood = "plain" PROVE Plain'
  BY <1>0 DEF Plain, World
<1>1. CASE OwMore
  BY <1>0, <1>1, PlainReceive DEF OwMore
<1>2. CASE OwBack
  BY <1>0, <1>2, PlainQuiet DEF OwBack
<1>3. ASSUME NEW p, OwAnswer(p) PROVE Plain'
  <2> DEFINE P == packets \ {p}
             q == op'
  <2>1. p \in packets /\ p.id = op.id /\ OpAnswer(p) /\ pending' = pending
    BY <1>3 DEF OwAnswer
  <2>2. /\ ~p.short /\ ~(OpKind = "open" /\ p.code = "OK" /\ p.type = "STATUS")
    <3>1. PICK r : r.kind = OpKind /\ Fits(p, r, written)
      BY <1>0, <2>1 DEF Owns, Owned, OpMatched
    <3>2. OpKind \in DOMAIN AllKinds
      BY <1>0, OpKinds DEF Shape
    <3> QED
      BY <3>1, <3>2 DEF Fits
  <2>3. /\ op' = IdleOp
        /\ \/ Drop(at, P)
           \/ packets' = P /\ UNCHANGED <<zombies, file>>
    BY <2>1, <2>2 DEF OpAnswer
  <2>4. q.state # "sent"
    BY <2>3 DEF IdleOp
  <2>5. /\ Apiece(Lists, zombies, packets, op) /\ One(pending, packets)
        /\ Lists \in ListSet /\ Lists[at] = F(at).list /\ Whole(F(at).list) /\ F(at).list \in Seq(ChunkSet)
        /\ init_state # "down" => Even(Lists, zombies, pending, packets, op)
    BY <1>0, PlainFacts DEF Plain, F
  <2>6. P \subseteq packets /\ One(pending, P)
    BY <2>5, OneLess
  <2>q. q = op'
    OBVIOUS
  <2> HIDE DEF q
  <2>7. init_state # "down" => Even(Lists, zombies, pending, P, q)
    BY <1>0, <2>1, <2>4, <2>5, EvenOpDone
  <2> HIDE DEF P
  <2>8. Apiece(Lists, zombies, P, q)
    BY <2>4, <2>5, <2>6, ApieceOp
  <2>9. CASE Drop(at, P)
    <3> DEFINE L == Lists
    <3>1. OtherFiles(at) /\ file'[at].list = <<>> /\ PacketlistFlush(L[at], P)
      BY <1>0, <2>5, <2>9, DropCases DEF Becomes, Drop, F
    <3>2. /\ L \in ListSet /\ (\A g \in Handles : g # at => L[g] = Lists[g]) /\ Whole(L[at])
          /\ Apiece(L, zombies, P, op')
          /\ init_state # "down" => Even(L, zombies, pending, P, op')
      BY <2>5, <2>7, <2>8, <2>q
    <3> HIDE DEF L
    <3> QED
      BY <1>0, <2>1, <2>6, <3>1, <3>2, PlainFlush
  <2>10. CASE packets' = P /\ UNCHANGED <<zombies, file>>
    <3>1. Lists' = Lists /\ \A f \in Handles : Whole(file'[f].list)
      BY <2>10 DEF Lists, Plain
    <3>2. half' = 0 /\ ~garbled'
      BY <1>0 DEF Plain
    <3> QED
      BY <1>0, <2>1, <2>7, <2>10, <2>q, <3>1, <3>2, PlainNext
  <2> QED
    BY <2>3, <2>9, <2>10
<1> QED
  BY <1>1, <1>2, <1>3, OpWaitCases

LEMMA ApartPlain ==
  ASSUME Plain, ReaddirPop \/ SftpInit \/ SftpInitError \/ Shutdown \/ UNCHANGED vars
  PROVE  Plain'
<1>1. CASE ReaddirPop \/ UNCHANGED vars
  <2>1. World /\ UNCHANGED <<half, garbled, pending, packets, zombies, init_state, file, op>>
    BY <1>1 DEF ReaddirPop, vars, World, worldVars, wireVars, sftpVars, stateVars
  <2> QED
    BY <2>1, PlainQuiet
<1>2. CASE SftpInit \/ SftpInitError
  <2>1. /\ World /\ UNCHANGED <<half, garbled, pending, packets, zombies, file, op>>
        /\ init_state # "down"
    BY <1>2 DEF SftpInit, SftpInitError, World, worldVars, wireVars, sftpVars, InitOrder, Range
  <2>2. Lists' = Lists
    BY <2>1 DEF Lists
  <2>3. Even(Lists, zombies, pending, packets, op) => Even(Lists, zombies, pending, packets, op)'
    BY <2>1, <2>2 DEF Even, Waits, Held, Coming
  <2> QED
    BY <2>1, <2>3 DEF Plain, World
<1>3. CASE Shutdown
  <2>1. World /\ UNCHANGED <<half, garbled, file>> /\ init_state' = "down"
    BY <1>3 DEF Shutdown, World, worldVars, wireVars
  <2> QED
    BY <2>1 DEF Plain, World
<1> QED
  BY <1>1, <1>2, <1>3

LEMMA NextPlain ==
  ASSUME Base, Once, Plain, Reads, Follows, [Next]_vars
  PROVE  Plain'
<1>1. ASSUME NEW f \in Handles, ReadSome(f) PROVE Plain'
  BY <1>1, CallReadPlain, SizeTyped DEF ReadSome
<1>2. ASSUME NEW f \in Handles, NEW o \in {0, 1}, Seek(f, o) PROVE Plain'
  <2>1. o \in Int
    OBVIOUS
  <2> QED
    BY <1>2, <2>1, SeekPlain, Zenon
<1>3. ASSUME NEW f \in Handles, NEW n \in Buffers, CallWrite(f, n) PROVE Plain'
  <2>1. n \in Nat
    BY SftpAssumption
  <2> QED
    BY <1>3, <2>1, CallWritePlain
<1>4. CASE ReadReturn
  <2>1. World /\ UNCHANGED <<half, garbled, pending, packets, zombies, init_state, file, op>>
    BY <1>4 DEF ReadReturn, World, worldVars, wireVars, sftpVars, stateVars
  <2> QED
    BY <2>1, PlainQuiet
<1> QED
  BY <1>1, <1>2, <1>3, <1>4, CallOpPlain, ReadSendPlain, WriteSendPlain, ReadRecvPlain, WriteAckPlain,
     OpSendPlain, OpWaitPlain, ApartPlain DEF Next

LEMMA InitPlain ==
  ASSUME Init
  PROVE  Plain
<1>1. \A f \in Handles : file[f].list = <<>>
  BY DEF Init, Fresh
<1>2. \A f \in Handles : \A i : i \notin 1..Len(file[f].list)
  BY <1>1, EmptyList
<1>3. \A f \in Handles : Lists[f] = file[f].list
  BY DEF Lists
<1>4. \A x : ~Held(Lists, x)
  BY <1>2, <1>3 DEF Held
<1>5. op.state # "sent" /\ zombies = {} /\ pending = {} /\ packets = {} /\ half = 0 /\ ~garbled
  BY DEF Init, IdleOp
<1>6. Even(Lists, zombies, pending, packets, op)
  BY <1>4, <1>5 DEF Even, Waits, Coming
<1>7. \A f \in Handles : Whole(file[f].list)
  BY <1>2 DEF Whole
<1> QED
  BY <1>5, <1>6, <1>7 DEF Plain

LEMMA PlainOwned ==
  ASSUME Base, Plain
  PROVE  RepliesOwned
<1> SUFFICES ASSUME mood = "plain", init_state = "up" PROVE Waiting = OnTheWay
  BY DEF RepliesOwned
<1>1. \A x : Waits(Lists, zombies, op, x) <=> Coming(pending, packets, x)
  BY DEF Plain, Even
<1>2. \A f \in Handles : Lists[f] = file[f].list /\ file[f].list \in Seq(ChunkSet)
  BY ListsTyped DEF Base, Core
<1>3. ASSUME NEW f \in Handles, NEW d PROVE d \in Range(file[f].list) <=> \E i \in 1..Len(Lists[f]) : d = Lists[f][i]
  <2>1. DOMAIN file[f].list = 1..Len(file[f].list)
    BY <1>2, ChunkTyped
  <2> QED
    BY <1>2, <2>1 DEF Range
<1> DEFINE All == UNION {Range(file[f].list) : f \in Handles}
<1>4. \A d : d \in All <=> \E f \in Handles : \E i \in 1..Len(Lists[f]) : d = Lists[f][i]
  <2>1. \A d : d \in All <=> \E f \in Handles : d \in Range(file[f].list)
    BY Zenon
  <2> HIDE DEF All
  <2>2. ASSUME NEW d, NEW f \in Handles, d \in Range(file[f].list)
        PROVE  \E i \in 1..Len(Lists[f]) : d = Lists[f][i]
    BY <1>3, <2>2, Zenon
  <2>3. ASSUME NEW d, NEW f \in Handles, \E i \in 1..Len(Lists[f]) : d = Lists[f][i]
        PROVE  d \in Range(file[f].list)
    BY <1>3, <2>3, Zenon
  <2> QED
    BY <2>1, <2>2, <2>3, Zenon
<1> HIDE DEF All
<1> DEFINE S == {c.id : c \in {d \in All : d.sent = 2}}
<1>5. \A x : x \in S <=> Held(Lists, x)
  <2>1. \A x : x \in S <=> \E c \in All : c.sent = 2 /\ c.id = x
    OBVIOUS
  <2>2. ASSUME NEW x PROVE (\E c \in All : c.sent = 2 /\ c.id = x) <=> Held(Lists, x)
    BY <1>4 DEF Held
  <2> QED
    BY <2>1, <2>2
<1> HIDE DEF S
<1>6. Waiting = S \cup (IF op.state = "sent" THEN {op.id} ELSE {}) \cup zombies
  BY DEF Waiting, S, All
<1>7. \A x : x \in Waiting <=> Waits(Lists, zombies, op, x)
  BY <1>5, <1>6 DEF Waits
<1>8. \A x : x \in OnTheWay <=> Coming(pending, packets, x)
  BY DEF OnTheWay, Coming
<1> QED
  BY <1>1, <1>7, <1>8

(* Of servers that answer as expected and channels that take whole packets: *)
(* the answers somebody waits for, chunks, calls and zombies, are exactly   *)
(* those that can still come or have come.  So no call waits in vain, and   *)
(* no answer stays in the queue of packets for good, though a request may   *)
(* be half sent when a call returns EAGAIN.  The application finishes a     *)
(* read that got EAGAIN first, and makes a call that left a request half    *)
(* sent again before any other that sends: a close in its place would take  *)
(* the old request's packet for its own and leave its reply to nobody.      *)
THEOREM RepliesAreOwned ==
  ASSUME ~MixHandles, ~MixCalls
  PROVE  Spec => []RepliesOwned
<1>1. Init => Plain
  BY InitPlain
<1>2. Base /\ Once /\ Reads /\ Calm /\ Follows /\ Plain /\ [Next]_vars => Plain'
  BY NextPlain
<1>3. Base /\ Plain => RepliesOwned
  BY PlainOwned
<1> QED
  BY <1>1, <1>2, <1>3, BaseHolds, OnceHolds, ReadsHold, FollowsHold, PTL DEF Spec
=============================================================================
