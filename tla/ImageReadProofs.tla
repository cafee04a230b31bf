--------------------------- MODULE ImageReadProofs ---------------------------
(***************************************************************************)
(* For every image of raw sectors, with any number of tracks of any        *)
(* lengths, and every sequence of seeks, reads and sector reads:           *)
(* cdio_read_data_sectors stores the data of the sectors asked for, and a  *)
(* read after a seek the bytes of the image's data from there on.          *)
(*                                                                         *)
(* Data laid out sector after sector are a sequence of pieces of one size  *)
(* put one behind the other (FlattenSeq), so the proof is about places in  *)
(* such a row: which piece a byte is in, and where in it.  FlattenSeq and  *)
(* Begin are recursive functions: a solution of their equations is given,  *)
(* and two solutions would first differ at some least number.              *)
(***************************************************************************)
EXTENDS ImageRead, NaturalsInduction, WellFoundedInduction, TLAPS

(* Every non-empty set of natural numbers has a least member.              *)
LEMMA LeastNatural ==
  ASSUME NEW S \in SUBSET Nat, S # {}
  PROVE  \E m \in S : \A k \in S : m <= k
<1> DEFINE R == {ss \in Nat \X Nat : ss[1] < ss[2]}
<1>1. IsWellFoundedOn(R, Nat)
  BY NatLessThanWellFounded DEF OpToRel
<1>2. \A x \in Nat, y \in Nat : y < x => <<y, x>> \in R
  OBVIOUS
<1> HIDE DEF R
<1>3. PICK x \in S : \A y \in S : ~ (<<y, x>> \in R)
  BY <1>1, WFMin
<1>4. ASSUME NEW k \in S
      PROVE  x <= k
  <2>1. x \in Nat /\ k \in Nat
    BY <1>3
  <2>2. ~ (k < x)
    BY <1>2, <1>3, <2>1
  <2> QED BY <2>1, <2>2
<1> QED BY <1>3, <1>4

(* The place x of a row of pieces of size bytes: in which piece it is, and *)
(* where in that piece.                                                    *)
Piece(x, size) == (x - 1) \div size
Within(x, size) == (x - 1) % size

LEMMA PlaceOf ==
  ASSUME NEW size \in Nat \ {0}, NEW x \in Nat \ {0}
  PROVE  /\ Piece(x, size) \in Nat /\ Within(x, size) \in 0 .. size - 1
         /\ x = Piece(x, size) * size + Within(x, size) + 1
  BY DEF Piece, Within

LEMMA Division ==
  ASSUME NEW n \in Nat, NEW d \in Nat \ {0}
  PROVE  n \div d \in Nat /\ n % d \in 0 .. d - 1 /\ n = (n \div d) * d + (n % d)
<1> DEFINE x == n + 1
<1>1. x \in Nat \ {0} /\ x - 1 = n
  OBVIOUS
<1> HIDE DEF x
<1>2. /\ Piece(x, d) \in Nat /\ Within(x, d) \in 0 .. d - 1
      /\ x = Piece(x, d) * d + Within(x, d) + 1
  BY <1>1, PlaceOf
<1>3. Piece(x, d) = n \div d /\ Within(x, d) = n % d
  BY <1>1 DEF Piece, Within
<1> DEFINE q == n \div d
           r == n % d
           p == q * d
<1>4. q \in Nat /\ r \in 0 .. d - 1 /\ x = p + r + 1
  BY <1>2, <1>3, Zenon
<1>5. p \in Nat
  <2> HIDE DEF q
  <2> QED BY <1>4
<1>6. n = p + r
  <2> HIDE DEF p, r
  <2> QED BY <1>1, <1>4, <1>5 DEF x
<1> QED BY <1>4, <1>6

LEMMA SamePlace ==
  ASSUME NEW size \in Nat \ {0}
  PROVE  \A p \in Nat, q \in Nat, a \in 0 .. size - 1, b \in 0 .. size - 1 :
           p * size + a = q * size + b => p = q /\ a = b
<1> SUFFICES ASSUME NEW p \in Nat, NEW q \in Nat, NEW a \in 0 .. size - 1, NEW b \in 0 .. size - 1,
                    p * size + a = q * size + b
             PROVE  p = q /\ a = b
  OBVIOUS
<1>1. ASSUME NEW u \in Nat, NEW v \in Nat, u < v PROVE u * size + size <= v * size
  <2>1. v * size = u * size + (v - u) * size
    OBVIOUS
  <2>2. (v - u) * size >= size
    <3>1. v - u - 1 \in Nat /\ (v - u) * size = (v - u - 1) * size + size
      BY <1>1
    <3>2. (v - u - 1) * size >= 0
      BY <3>1
    <3> QED BY <3>1, <3>2
  <2>3. u * size \in Nat /\ v * size \in Nat /\ (v - u) * size \in Int
    OBVIOUS
  <2> QED BY <2>1, <2>2, <2>3
<1>2. p * size \in Nat /\ q * size \in Nat
  OBVIOUS
<1>3. ~ (p < q)
  BY <1>1, <1>2
<1>4. ~ (q < p)
  BY <1>1, <1>2
<1> QED BY <1>3, <1>4

LEMMA Concatenation ==
  ASSUME NEW a \in Seq(Int), NEW b \in Seq(Int)
  PROVE  a \o b = [x \in 1 .. Len(a) + Len(b) |-> IF x <= Len(a) THEN a[x] ELSE b[x - Len(a)]]
<1>1. a \o b \in Seq(Int) /\ Len(a \o b) = Len(a) + Len(b)
  OBVIOUS
<1>2. \A x \in 1 .. Len(a) + Len(b) : (a \o b)[x] = IF x <= Len(a) THEN a[x] ELSE b[x - Len(a)]
  OBVIOUS
<1> DEFINE c == a \o b
           n == Len(a) + Len(b)
<1>3. c \in Seq(Int) /\ Len(c) = n
  BY <1>1
<1> HIDE DEF c, n
<1>4. c = [x \in 1 .. n |-> c[x]]
  BY <1>3
<1> QED BY <1>2, <1>4 DEF c, n

(* Pieces of one size, put one after the other.                            *)
Row(seqs, size, n) == [x \in 1 .. n * size |-> seqs[Piece(x, size) + 1][Within(x, size) + 1]]
IsFlatten(g, seqs) == g = [i \in 1 .. Len(seqs) |-> IF i = 1 THEN seqs[i] ELSE g[i - 1] \o seqs[i]]

LEMMA RowGrows ==
  ASSUME NEW size \in Nat \ {0}, NEW seqs \in Seq(Seq(Int)), \A i \in 1 .. Len(seqs) : Len(seqs[i]) = size,
         NEW n \in Nat, n < Len(seqs)
  PROVE  Row(seqs, size, n + 1) = Row(seqs, size, n) \o seqs[n + 1]
<1> DEFINE a == Row(seqs, size, n)
           b == seqs[n + 1]
           m == n * size
<1>1. m \in Nat /\ (n + 1) * size = m + size
  OBVIOUS
<1>2. b \in Seq(Int) /\ Len(b) = size
  OBVIOUS
<1>3. \A x \in 1 .. (n + 1) * size : Piece(x, size) \in 0 .. n /\ Within(x, size) \in 0 .. size - 1
  <2> TAKE x \in 1 .. (n + 1) * size
  <2>1. x \in Nat \ {0}
    BY <1>1
  <2>2. /\ Piece(x, size) \in Nat /\ Within(x, size) \in 0 .. size - 1
        /\ x = Piece(x, size) * size + Within(x, size) + 1
    BY <2>1, PlaceOf
  <2> DEFINE p == Piece(x, size)
  <2> HIDE DEF p
  <2>3. p \in Nat /\ p * size \in Nat /\ p * size < m + size
    BY <1>1, <2>2 DEF p
  <2>4. ~ (p > n)
    <3> SUFFICES ASSUME p > n PROVE FALSE
      OBVIOUS
    <3>1. p - n - 1 \in Nat /\ p * size = m + size + (p - n - 1) * size
      BY <2>3
    <3>2. (p - n - 1) * size \in Nat
      BY <3>1
    <3> QED BY <1>1, <2>3, <3>1, <3>2
  <2> QED BY <2>2, <2>3, <2>4 DEF p
<1> HIDE DEF m
<1>4. \A x \in 1 .. m : Piece(x, size) < n
  <2> TAKE x \in 1 .. m
  <2>1. x \in 1 .. (n + 1) * size /\ x \in Nat \ {0}
    BY <1>1
  <2>2. x = Piece(x, size) * size + Within(x, size) + 1
    BY <2>1, PlaceOf
  <2>3. ASSUME Piece(x, size) = n PROVE FALSE
    <3>1. x = m + Within(x, size) + 1
      BY <2>2, <2>3 DEF m
    <3> QED BY <1>1, <1>3, <2>1, <3>1
  <2> QED BY <1>3, <2>1, <2>3
<1>5. \A x \in m + 1 .. m + size : Piece(x, size) = n /\ Within(x, size) = x - m - 1
  <2> TAKE x \in m + 1 .. m + size
  <2>1. x \in Nat \ {0} /\ x - m - 1 \in 0 .. size - 1
    BY <1>1
  <2>2. /\ Piece(x, size) \in Nat /\ Within(x, size) \in 0 .. size - 1
        /\ x = Piece(x, size) * size + Within(x, size) + 1
    BY <2>1, PlaceOf
  <2>3. Piece(x, size) * size \in Nat
    BY <2>2
  <2> DEFINE z == Piece(x, size) * size
             w == Within(x, size)
  <2>a. z \in Nat /\ w \in Nat /\ x = z + w + 1
    BY <2>2, <2>3
  <2> HIDE DEF z, w
  <2>b. z + w = m + (x - m - 1)
    BY <1>1, <2>1, <2>a
  <2>4. Piece(x, size) * size + Within(x, size) = m + (x - m - 1)
    BY <2>b DEF z, w
  <2>5. Piece(x, size) * size + Within(x, size) = n * size + (x - m - 1)
    BY <2>4 DEF m
  <2> DEFINE y == x - m - 1
  <2> HIDE DEF y
  <2>6. y \in 0 .. size - 1 /\ Piece(x, size) * size + Within(x, size) = n * size + y
    BY <2>1, <2>5 DEF y
  <2>7. Piece(x, size) = n /\ Within(x, size) = y
    BY <2>2, <2>6, SamePlace
  <2> QED BY <2>7 DEF y
<1>6. a \in Seq(Int) /\ Len(a) = m
  <2>1. \A x \in 1 .. m : seqs[Piece(x, size) + 1][Within(x, size) + 1] \in Int
    <3> TAKE x \in 1 .. m
    <3>1. x \in 1 .. (n + 1) * size
      BY <1>1
    <3>2. Piece(x, size) \in 0 .. n /\ Within(x, size) \in 0 .. size - 1
      BY <1>3, <3>1
    <3> DEFINE s == seqs[Piece(x, size) + 1]
    <3>3. s \in Seq(Int) /\ Len(s) = size
      BY <3>2
    <3> HIDE DEF s
    <3>4. s[Within(x, size) + 1] \in Int
      BY <3>2, <3>3
    <3> QED BY <3>4 DEF s
  <2>2. a = [x \in 1 .. m |-> seqs[Piece(x, size) + 1][Within(x, size) + 1]]
    BY DEF Row, m
  <2> QED BY <1>1, <2>1, <2>2
<1> DEFINE whole == [x \in 1 .. m + size |-> seqs[Piece(x, size) + 1][Within(x, size) + 1]]
<1>7. Row(seqs, size, n + 1) = whole
  BY <1>1 DEF Row
<1>8. \A x \in 1 .. m : a[x] = seqs[Piece(x, size) + 1][Within(x, size) + 1]
  BY DEF Row, m
<1> HIDE DEF a, b
<1>9. a \o b = [x \in 1 .. m + size |-> IF x <= m THEN a[x] ELSE b[x - m]]
  <2>1. a \o b = [x \in 1 .. Len(a) + Len(b) |-> IF x <= Len(a) THEN a[x] ELSE b[x - Len(a)]]
    BY <1>2, <1>6, Concatenation
  <2> QED BY <1>2, <1>6, <2>1
<1>10. \A x \in 1 .. m + size : (IF x <= m THEN a[x] ELSE b[x - m]) = seqs[Piece(x, size) + 1][Within(x, size) + 1]
  <2> TAKE x \in 1 .. m + size
  <2>1. CASE x <= m
    BY <1>1, <1>8, <2>1
  <2>2. CASE ~(x <= m)
    <3>1. Piece(x, size) = n /\ Within(x, size) = x - m - 1
      BY <1>1, <1>5, <2>2
    <3>2. Within(x, size) + 1 = x - m
      BY <1>1, <3>1
    <3> QED BY <2>2, <3>1, <3>2 DEF b
  <2> QED BY <2>1, <2>2
<1>11. a \o b = whole
  BY <1>9, <1>10
<1> QED BY <1>7, <1>11 DEF a, b

LEMMA FlattenOfPieces ==
  ASSUME NEW size \in Nat \ {0}, NEW seqs \in Seq(Seq(Int)), \A i \in 1 .. Len(seqs) : Len(seqs[i]) = size
  PROVE  FlattenSeq(seqs) = Row(seqs, size, Len(seqs))
<1> DEFINE N == Len(seqs)
           F == [i \in 1 .. N |-> Row(seqs, size, i)]
<1>1. N \in Nat
  OBVIOUS
<1>2. Row(seqs, size, 0) = << >>
  <2>1. 0 * size = 0
    OBVIOUS
  <2> QED BY <2>1 DEF Row
<1>3. \A i \in 1 .. N : Row(seqs, size, i) = IF i = 1 THEN seqs[i] ELSE Row(seqs, size, i - 1) \o seqs[i]
  <2> TAKE i \in 1 .. N
  <2>1. i - 1 \in Nat /\ i - 1 < N /\ i - 1 + 1 = i
    BY <1>1
  <2>2. Row(seqs, size, i - 1 + 1) = Row(seqs, size, i - 1) \o seqs[i - 1 + 1]
    BY <2>1, RowGrows
  <2>3. Row(seqs, size, i) = Row(seqs, size, i - 1) \o seqs[i]
    BY <2>1, <2>2
  <2>4. CASE i = 1
    <3>1. Row(seqs, size, i) = << >> \o seqs[i]
      BY <1>2, <2>3, <2>4
    <3>2. seqs[i] \in Seq(Int)
      OBVIOUS
    <3>3. << >> \o seqs[i] = seqs[i]
      BY <3>2
    <3> QED BY <2>4, <3>1, <3>3
  <2> QED BY <2>3, <2>4
<1>4. CASE N = 0
  <2>1. seqs = << >>
    BY <1>4
  <2> QED BY <1>2, <1>4, <2>1 DEF FlattenSeq
<1>5. CASE N # 0
  <2>1. IsFlatten(F, seqs)
    <3>1. \A i \in 1 .. N : F[i] = IF i = 1 THEN seqs[i] ELSE F[i - 1] \o seqs[i]
      <4>1. \A i \in 1 .. N : i # 1 => i - 1 \in 1 .. N
        BY <1>1
      <4> QED BY <1>3, <4>1
    <3> QED BY <3>1 DEF IsFlatten
  <2> DEFINE G == CHOOSE g : IsFlatten(g, seqs)
  <2>2. IsFlatten(G, seqs)
    BY <2>1
  <2>3. FlattenSeq(seqs) = G[N]
    BY <1>5 DEF FlattenSeq, IsFlatten
  <2> HIDE DEF G
  <2>4. \A i \in 1 .. N : G[i] = IF i = 1 THEN seqs[i] ELSE G[i - 1] \o seqs[i]
    BY <2>2 DEF IsFlatten
  <2> DEFINE Bad == {i \in 1 .. N : G[i] # Row(seqs, size, i)}
  <2>5. ASSUME Bad # {} PROVE FALSE
    <3>1. Bad \in SUBSET Nat
      BY <1>1
    <3>2. PICK m \in Bad : \A k \in Bad : m <= k
      BY <2>5, <3>1, LeastNatural
    <3>3. m \in 1 .. N /\ m - 1 \notin Bad
      BY <1>1, <3>2
    <3>4. m # 1 => G[m - 1] = Row(seqs, size, m - 1)
      BY <1>1, <3>3
    <3>5. G[m] = Row(seqs, size, m)
      BY <1>3, <2>4, <3>3, <3>4
    <3> QED BY <3>2, <3>5
  <2>6. N \notin Bad
    BY <2>5
  <2> QED BY <1>1, <1>5, <2>3, <2>6
<1> QED BY <1>4, <1>5

(* Some of the pieces of a row, from piece from + 1 on.                    *)
LEMMA FlattenOfSome ==
  ASSUME NEW size \in Nat \ {0}
  PROVE  \A all \in Seq(Seq(Int)), some \in Seq(Seq(Int)), from \in Nat :
           /\ \A i \in 1 .. Len(all) : Len(all[i]) = size
           /\ from + Len(some) <= Len(all)
           /\ \A i \in 1 .. Len(some) : some[i] = all[from + i]
           => FlattenSeq(some) = SubSeq(FlattenSeq(all), from * size + 1, (from + Len(some)) * size)
<1> SUFFICES ASSUME NEW all \in Seq(Seq(Int)), NEW some \in Seq(Seq(Int)), NEW from \in Nat,
                    \A i \in 1 .. Len(all) : Len(all[i]) = size,
                    from + Len(some) <= Len(all),
                    \A i \in 1 .. Len(some) : some[i] = all[from + i]
             PROVE  FlattenSeq(some) = SubSeq(FlattenSeq(all), from * size + 1, (from + Len(some)) * size)
  OBVIOUS
<1> DEFINE A == Len(all)
           S == Len(some)
           f == from * size
<1>1. A \in Nat /\ S \in Nat /\ f \in Nat
  OBVIOUS
<1>2. \A i \in 1 .. S : Len(some[i]) = size
  <2> TAKE i \in 1 .. S
  <2> HIDE DEF f
  <2>1. from + i \in 1 .. A
    BY <1>1
  <2> QED BY <2>1
<1>3. FlattenSeq(some) = Row(some, size, S) /\ FlattenSeq(all) = Row(all, size, A)
  BY <1>2, FlattenOfPieces
<1>4. /\ S * size \in Nat /\ A * size \in Nat /\ (from + S) * size = f + S * size
      /\ f + S * size <= A * size
  <2>1. A - (from + S) \in Nat /\ A * size = (from + S) * size + (A - (from + S)) * size
    BY <1>1
  <2>2. (A - (from + S)) * size \in Nat
    BY <2>1
  <2>3. (from + S) * size = f + S * size /\ S * size \in Nat /\ A * size \in Nat
    BY <1>1
  <2> HIDE DEF A, S, f
  <2> DEFINE w == A * size
             x == S * size
             y == (from + S) * size
             z == (A - (from + S)) * size
  <2>4. w = y + z /\ z \in Nat /\ y = f + x /\ x \in Nat /\ w \in Nat
    BY <2>1, <2>2, <2>3
  <2> HIDE DEF w, x, y, z
  <2>5. f + x <= w
    BY <1>1, <2>4
  <2> QED BY <2>3, <2>5 DEF w, x
<1>5. \A x \in 1 .. S * size : Piece(x, size) \in 0 .. S - 1 /\ Within(x, size) \in 0 .. size - 1
                            /\ Piece(f + x, size) = from + Piece(x, size) /\ Within(f + x, size) = Within(x, size)
  <2> TAKE x \in 1 .. S * size
  <2> DEFINE p == Piece(x, size)
             w == Within(x, size)
             t == p * size
  <2>1. x \in Nat \ {0} /\ f + x \in Nat \ {0}
    <3> DEFINE y == S * size
    <3>1. y \in Nat /\ x \in 1 .. y
      BY <1>4
    <3> HIDE DEF f, y
    <3> QED BY <1>1, <3>1
  <2>2. /\ p \in Nat /\ w \in 0 .. size - 1 /\ x = t + w + 1
        /\ Piece(f + x, size) \in Nat /\ Within(f + x, size) \in 0 .. size - 1
        /\ f + x = Piece(f + x, size) * size + Within(f + x, size) + 1
    BY <2>1, PlaceOf
  <2>3. t \in Nat /\ (from + p) * size = f + t /\ Piece(f + x, size) * size \in Nat
    <3> HIDE DEF p
    <3>1. p \in Nat
      BY <2>2
    <3>2. t \in Nat /\ (from + p) * size = f + t
      BY <3>1
    <3>3. Piece(f + x, size) * size \in Nat
      <4> DEFINE y == Piece(f + x, size)
      <4>1. y \in Nat
        BY <2>2
      <4> HIDE DEF y
      <4>2. y * size \in Nat
        BY <4>1
      <4> QED BY <4>2 DEF y
    <3> QED BY <3>2, <3>3
  <2> HIDE DEF p, w, t, f
  <2>4. Piece(f + x, size) * size + Within(f + x, size) = (from + p) * size + w
    <3> DEFINE y == Piece(f + x, size) * size
               v == Within(f + x, size)
               u == (from + p) * size
    <3>1. /\ y \in Nat /\ v \in Nat /\ u = f + t /\ f + x = y + v + 1 /\ x = t + w + 1
          /\ w \in Nat /\ t \in Nat /\ f \in Nat
      BY <1>1, <2>2, <2>3
    <3> HIDE DEF y, v, u
    <3>2. y + v = u + w
      BY <3>1
    <3> QED BY <3>2 DEF y, v, u
  <2>5. Piece(f + x, size) = from + p /\ Within(f + x, size) = w
    <3>1. from + p \in Nat
      BY <2>2
    <3> DEFINE y == Piece(f + x, size)
               v == Within(f + x, size)
               u == from + p
    <3>2. y \in Nat /\ u \in Nat /\ v \in 0 .. size - 1 /\ w \in 0 .. size - 1 /\ y * size + v = u * size + w
      BY <2>2, <2>4, <3>1
    <3> HIDE DEF y, v, u
    <3>3. y = u /\ v = w
      <4>1. \A i \in Nat, j \in Nat, a \in 0 .. size - 1, b \in 0 .. size - 1 :
              i * size + a = j * size + b => i = j /\ a = b
        BY SamePlace, Zenon
      <4>2. v \in 0 .. size - 1 /\ w \in 0 .. size - 1 /\ y \in Nat /\ u \in Nat
        BY <3>2
      <4>3. y * size + v = u * size + w => y = u /\ v = w
        BY <4>1, <4>2, Zenon
      <4> QED BY <3>2, <4>3
    <3> QED BY <3>3 DEF y, v, u
  <2>6. ~ (p >= S)
    <3> SUFFICES ASSUME p >= S PROVE FALSE
      OBVIOUS
    <3> HIDE DEF S
    <3>1. p - S \in Nat /\ p * size = S * size + (p - S) * size
      BY <1>1, <2>2
    <3>2. (p - S) * size \in Nat
      BY <3>1
    <3> DEFINE y == S * size
               z == (p - S) * size
    <3>3. t = y + z /\ z \in Nat /\ y \in Nat /\ x <= y /\ x = t + w + 1 /\ w \in Nat /\ t \in Nat
      BY <1>4, <2>2, <2>3, <3>1, <3>2 DEF t
    <3> HIDE DEF y, z
    <3> QED BY <3>3
  <2> QED BY <1>1, <2>2, <2>5, <2>6 DEF p, w
<1>6. Row(some, size, S) = [x \in 1 .. S * size |-> Row(all, size, A)[f + x]]
  <2>1. \A x \in 1 .. S * size :
          some[Piece(x, size) + 1][Within(x, size) + 1] = Row(all, size, A)[f + x]
    <3> TAKE x \in 1 .. S * size
    <3> HIDE DEF S, A, f
    <3>1. f + x \in 1 .. A * size
      <4> DEFINE y == S * size
                 z == A * size
      <4>1. y \in Nat /\ z \in Nat /\ f + y <= z /\ x \in 1 .. y /\ f \in Nat
        BY <1>1, <1>4
      <4> HIDE DEF y, z
      <4>2. f + x \in 1 .. z
        BY <4>1
      <4> QED BY <4>2 DEF z
    <3>2. Row(all, size, A)[f + x] = all[Piece(f + x, size) + 1][Within(f + x, size) + 1]
      BY <3>1 DEF Row
    <3>3. /\ Piece(x, size) + 1 \in 1 .. S /\ Piece(f + x, size) + 1 = from + (Piece(x, size) + 1)
          /\ Within(f + x, size) = Within(x, size)
      <4> DEFINE y == Piece(x, size)
      <4>1. y \in 0 .. S - 1 /\ Piece(f + x, size) = from + y
        BY <1>5
      <4> HIDE DEF y
      <4>2. y + 1 \in 1 .. S /\ Piece(f + x, size) + 1 = from + (y + 1)
        BY <1>1, <4>1
      <4> QED BY <1>5, <4>2 DEF y
    <3>4. some[Piece(x, size) + 1] = all[Piece(f + x, size) + 1]
      BY <3>3 DEF S
    <3> QED BY <3>2, <3>3, <3>4
  <2> QED BY <2>1 DEF Row
<1> DEFINE R == Row(all, size, A)
<1>7. SubSeq(R, f + 1, f + S * size) = [x \in 1 .. S * size |-> R[f + x]]
  <2> HIDE DEF R, f
  <2> DEFINE u == S * size
  <2>1. u \in Nat
    BY <1>4
  <2> HIDE DEF u
  <2>2. SubSeq(R, f + 1, f + u) = [x \in 1 .. (f + u) - (f + 1) + 1 |-> R[(f + 1) + x - 1]]
    BY <1>1, <2>1
  <2>3. (f + u) - (f + 1) + 1 = u /\ \A x \in 1 .. u : (f + 1) + x - 1 = f + x
    BY <1>1, <2>1
  <2> QED BY <2>2, <2>3 DEF u
<1> QED BY <1>3, <1>4, <1>6, <1>7

-----------------------------------------------------------------------------
(* Where the tracks of an image of raw sectors lie in its BIN file.        *)
IsBegin(g) ==
  g = [t \in DOMAIN tracks |->
         IF t = 1 THEN tracks[1].start * tracks[1].blocksize
         ELSE g[t - 1] + Length(t - 1) * tracks[t - 1].blocksize]

LEMMA TracksAre ==
  ASSUME image \in Images, OfRawSectors(image)
  PROVE  /\ tracks \in Seq(Track) /\ DOMAIN tracks = 1 .. Len(tracks) /\ Len(tracks) \in Nat
         /\ image.size \in Nat /\ lead \in Nat /\ Raw \in Nat \ {0} /\ Frame \in Nat \ {0}
         /\ lead * Raw <= image.size
         /\ \A t \in DOMAIN tracks :
              /\ tracks[t].start \in Nat /\ tracks[t].start <= lead /\ tracks[t].blocksize = Raw
              /\ t > 1 => tracks[t].start > tracks[t - 1].start
<1>1. IsImage(image) /\ OfRawSectors(image) /\ Raw \in Nat \ {0} /\ Frame \in Nat \ {0}
  BY ImageReadAssumption DEF ImageReadAssumption
<1>2. /\ tracks \in Seq(Track) /\ image.size \in Nat
      /\ \A t \in DOMAIN tracks : t > 1 => tracks[t].start > tracks[t - 1].start
  BY <1>1 DEF IsImage, tracks
<1>3. \A t \in DOMAIN tracks : tracks[t].start <= lead /\ tracks[t].blocksize = Raw
  BY <1>1 DEF OfRawSectors, tracks, lead
<1>4. lead \in Nat /\ lead * Raw <= image.size
  <2> DEFINE n == image.size
             q == n \div Raw
             p == q * Raw
             r == n % Raw
  <2>1. n \in Nat
    BY <1>2
  <2>2. q \in Nat /\ r \in Nat /\ n = p + r
    <3> HIDE DEF n
    <3> QED BY <1>1, <2>1, Division
  <2>3. p \in Int
    <3> HIDE DEF q
    <3> QED BY <1>1, <2>2
  <2> HIDE DEF p, r
  <2>4. p <= n
    BY <2>1, <2>2, <2>3
  <2> QED BY <2>2, <2>4 DEF p, lead
<1>5. \A t \in DOMAIN tracks : tracks[t] \in Track
  BY <1>2
<1>6. \A t \in DOMAIN tracks : tracks[t].start \in Nat
  BY <1>5 DEF Track
<1>7. DOMAIN tracks = 1 .. Len(tracks) /\ Len(tracks) \in Nat
  BY <1>2
<1> QED BY <1>1, <1>2, <1>3, <1>4, <1>6, <1>7

LEMMA TracksBegin ==
  ASSUME image \in Images, OfRawSectors(image)
  PROVE  \A t \in DOMAIN tracks : Begin[t] = tracks[t].start * Raw
<1> DEFINE T == DOMAIN tracks
           F == [t \in T |-> tracks[t].start * Raw]
           N == Len(tracks)
<1>1. T = 1 .. N /\ N \in Nat
  BY TracksAre
<1>2. \A t \in T : t # 1 => t - 1 \in T /\ t > 1 /\ t - 1 < N /\ t - 1 + 1 = t
  BY <1>1
<1>3. \A t \in T : tracks[t].start \in Nat /\ tracks[t].blocksize = Raw /\ Raw \in Nat
  BY TracksAre
<1>4. ASSUME NEW t \in T, t # 1
      PROVE  tracks[t].start * Raw
               = tracks[t - 1].start * Raw + Length(t - 1) * tracks[t - 1].blocksize
  <2> DEFINE a == tracks[t - 1].start
             b == tracks[t].start
  <2>1. Length(t - 1) = b - a
    BY <1>2, <1>4 DEF Length
  <2>2. a \in Nat /\ b \in Nat /\ tracks[t - 1].blocksize = Raw /\ Raw \in Nat
    BY <1>2, <1>3, <1>4
  <2> HIDE DEF a, b
  <2>3. b * Raw = a * Raw + (b - a) * Raw
    BY <2>2
  <2> QED BY <2>1, <2>2, <2>3 DEF a, b
<1>5. \A t \in T : t = 1 => tracks[t].start * Raw = tracks[1].start * tracks[1].blocksize
  BY <1>3
<1>6. IsBegin(F)
  <2>1. \A t \in T : F[t] = IF t = 1 THEN tracks[1].start * tracks[1].blocksize
                            ELSE F[t - 1] + Length(t - 1) * tracks[t - 1].blocksize
    <3> TAKE t \in T
    <3>1. CASE t = 1
      BY <1>5, <3>1
    <3>2. CASE t # 1
      <4>1. t - 1 \in T
        BY <1>2, <3>2
      <4>2. F[t - 1] = tracks[t - 1].start * Raw /\ F[t] = tracks[t].start * Raw
        BY <4>1
      <4> QED BY <1>4, <3>2, <4>2
    <3> QED BY <3>1, <3>2
  <2> HIDE DEF T
  <2>2. F = [t \in T |-> IF t = 1 THEN tracks[1].start * tracks[1].blocksize
                         ELSE F[t - 1] + Length(t - 1) * tracks[t - 1].blocksize]
    BY <2>1
  <2> QED BY <2>2 DEF IsBegin, T
<1>7. Begin = CHOOSE g : IsBegin(g)
  BY DEF Begin, IsBegin
<1>8. IsBegin(Begin)
  <2> HIDE DEF F
  <2> QED BY <1>6, <1>7
<1>9. \A t \in T : Begin[t] = IF t = 1 THEN tracks[1].start * tracks[1].blocksize
                                  ELSE Begin[t - 1] + Length(t - 1) * tracks[t - 1].blocksize
  BY <1>8 DEF IsBegin
<1> DEFINE Bad == {t \in T : Begin[t] # tracks[t].start * Raw}
<1>10. ASSUME Bad # {} PROVE FALSE
  <2>1. Bad \in SUBSET Nat
    BY <1>1
  <2>2. PICK m \in Bad : \A k \in Bad : m <= k
    BY <1>10, <2>1, LeastNatural
  <2>3. m \in T
    BY <2>2
  <2>4. CASE m = 1
    BY <1>5, <1>9, <2>2, <2>3, <2>4
  <2>5. CASE m # 1
    <3>1. m - 1 \in T /\ m - 1 \notin Bad
      <4>1. m - 1 \in T /\ ~(m <= m - 1)
        BY <1>1, <1>2, <2>3, <2>5
      <4> HIDE DEF T, Bad
      <4> QED BY <2>2, <4>1
    <3>2. Begin[m - 1] = tracks[m - 1].start * Raw
      BY <3>1
    <3> QED BY <1>4, <1>9, <2>2, <2>3, <2>5, <3>2
  <2> QED BY <2>4, <2>5
<1> QED BY <1>10

(* No sector lies in two tracks.                                           *)
LEMMA OneTrack ==
  ASSUME image \in Images, OfRawSectors(image), NEW lsn \in Int
  PROVE  \A s \in TrackOf(lsn), t \in TrackOf(lsn) : s = t
<1> DEFINE N == Len(tracks)
           start(t) == tracks[t].start
<1>1. /\ DOMAIN tracks = 1 .. N /\ N \in Nat
      /\ \A t \in 1 .. N : start(t) \in Nat
      /\ \A t \in 1 .. N : t > 1 => start(t) > start(t - 1)
  BY TracksAre
<1>2. ASSUME NEW s \in 1 .. N PROVE \A t \in 1 .. N : s < t => start(s) < start(t)
  <2> DEFINE Bad == {t \in 1 .. N : s < t /\ ~(start(s) < start(t))}
  <2> HIDE DEF N, start
  <2>1. ASSUME Bad # {} PROVE FALSE
    <3>1. Bad \in SUBSET Nat
      BY <1>1
    <3>2. PICK m \in Bad : \A k \in Bad : m <= k
      BY <2>1, <3>1, LeastNatural
    <3>3. m \in 1 .. N /\ s < m /\ ~(start(s) < start(m)) /\ m - 1 \in 1 .. N /\ m > 1
      BY <1>1, <3>2
    <3>4. start(m) > start(m - 1) /\ start(m) \in Nat /\ start(m - 1) \in Nat /\ start(s) \in Nat
      BY <1>1, <3>3
    <3>5. ~(m <= m - 1) /\ m - 1 \notin Bad
      BY <1>1, <3>2, <3>3
    <3>6. ~(s < m - 1) \/ start(s) < start(m - 1)
      BY <3>3, <3>5
    <3>7. s = m - 1 \/ start(s) < start(m - 1)
      BY <1>1, <3>3, <3>6
    <3> QED BY <3>3, <3>4, <3>7
  <2> QED BY <2>1
<1>3. ASSUME NEW s \in TrackOf(lsn), NEW t \in TrackOf(lsn), s < t PROVE FALSE
  <2>1. s \in 1 .. N /\ t \in 1 .. N /\ start(t) <= lsn
    BY <1>1 DEF TrackOf
  <2>2. s < N /\ s + 1 \in 1 .. N /\ lsn < start(s + 1)
    <3>1. s < N
      BY <1>1, <1>3, <2>1
    <3> QED BY <1>1, <2>1, <3>1 DEF TrackOf
  <2> HIDE DEF N, start
  <2>3. s + 1 = t \/ s + 1 < t
    BY <1>1, <1>3, <2>1
  <2>4. start(s + 1) <= start(t)
    BY <1>1, <1>2, <2>1, <2>2, <2>3
  <2> QED BY <1>1, <2>1, <2>2, <2>4
<1>4. TrackOf(lsn) \subseteq Nat
  BY <1>1 DEF TrackOf
<1> QED BY <1>3, <1>4

-----------------------------------------------------------------------------
(* What the sector routines copy out of sectors that the file has.         *)
LEMMA BytesInFile ==
  ASSUME NEW o \in Nat, NEW n \in Nat, image.size \in Nat, o + n <= image.size
  PROVE  Bytes(o, n) = [b \in 1 .. n |-> o + b - 1]
<1> DEFINE room == IF o < image.size THEN image.size - o ELSE 0
<1>1. Smaller(n, room) = n
  BY DEF Smaller
<1> QED BY <1>1 DEF Bytes

LEMMA SectorsOfTrack ==
  ASSUME image \in Images, OfRawSectors(image), NEW lsn \in Nat, NEW n \in Nat, NEW t \in TrackOf(lsn),
         NEW part, part.from \in Nat, part.from + Frame <= Raw, part.size = Frame,
         tracks[t].datastart = part.from, tracks[t].datasize = Frame,
         lsn - tracks[t].start + n <= Length(t)
  PROVE  Sectors(lsn, n, part)
           = SubSeq(TrackData(t), (lsn - tracks[t].start) * Frame + 1,
                                      ((lsn - tracks[t].start) + n) * Frame)
<1> DEFINE start == tracks[t].start
           k == lsn - start
           m == Length(t)
           from == part.from
           some == [i \in 1 .. n |-> Bytes((lsn + i - 1) * Raw + part.from, part.size)]
           all == [i \in 1 .. m |-> SectorData(t, i)]
<1>1. /\ t \in DOMAIN tracks /\ start \in Nat /\ k \in Nat /\ m \in Nat /\ k + n <= m /\ lsn + n <= lead
      /\ tracks[t].blocksize = Raw /\ Begin[t] = start * Raw
      /\ image.size \in Nat /\ lead \in Nat /\ Raw \in Nat \ {0} /\ Frame \in Nat \ {0}
      /\ lead * Raw <= image.size
  <2>1. t \in DOMAIN tracks /\ start <= lsn
    BY DEF TrackOf
  <2>2. /\ DOMAIN tracks = 1 .. Len(tracks) /\ Len(tracks) \in Nat
        /\ image.size \in Nat /\ lead \in Nat /\ Raw \in Nat \ {0} /\ Frame \in Nat \ {0}
        /\ lead * Raw <= image.size
        /\ \A s \in DOMAIN tracks :
             /\ tracks[s].start \in Nat /\ tracks[s].start <= lead /\ tracks[s].blocksize = Raw
             /\ s > 1 => tracks[s].start > tracks[s - 1].start
    BY TracksAre
  <2> DEFINE end == IF t < Len(tracks) THEN tracks[t + 1].start ELSE lead
  <2>3. end \in Nat /\ end <= lead /\ m = end - start
    <3>1. t < Len(tracks) => t + 1 \in DOMAIN tracks
      BY <2>1, <2>2
    <3> QED BY <2>2, <3>1 DEF Length
  <2>4. lsn < end
    BY DEF TrackOf
  <2> HIDE DEF end, start
  <2>5. start \in Nat
    BY <2>1, <2>2 DEF start
  <2>6. Begin[t] = start * Raw
    BY <2>1, TracksBegin DEF start
  <2>7. k \in Nat /\ m \in Nat
    BY <2>1, <2>3, <2>4, <2>5
  <2>8. k + n <= m
    BY DEF start
  <2>9. lsn + n <= lead
    <3> HIDE DEF m
    <3>1. lsn - start + n <= end - start
      BY <2>3, <2>8
    <3> QED BY <2>2, <2>3, <2>5, <3>1
  <2> HIDE DEF k, m
  <2> QED BY <2>1, <2>2, <2>5, <2>6, <2>7, <2>8, <2>9
<1> HIDE DEF m
<1> DEFINE whole(j) == [b \in 1 .. Frame |-> j * Raw + from + b - 1]
<1>2. \A j \in Nat : whole(j) \in Seq(Int) /\ Len(whole(j)) = Frame
  <2> TAKE j \in Nat
  <2> DEFINE o == j * Raw
  <2>1. o \in Nat
    BY <1>1
  <2> HIDE DEF o
  <2>2. \A b \in 1 .. Frame : o + from + b - 1 \in Int
    BY <1>1, <2>1
  <2>3. [b \in 1 .. Frame |-> o + from + b - 1] \in Seq(Int)
    BY <1>1, <2>2
  <2>4. Len([b \in 1 .. Frame |-> o + from + b - 1]) = Frame
    BY <1>1
  <2> QED BY <2>3, <2>4 DEF o
<1>3. \A i \in 1 .. m : all[i] = whole(start + i - 1)
  <2> TAKE i \in 1 .. m
  <2>1. i \in Int
    BY <1>1
  <2>2. Begin[t] + (i - 1) * tracks[t].blocksize = (start + i - 1) * Raw
    <3> HIDE DEF start
    <3>1. (start + i - 1) * Raw = start * Raw + (i - 1) * Raw
      BY <1>1, <2>1
    <3> QED BY <1>1, <3>1
  <2>3. SectorData(t, i) = [b \in 1 .. Frame |-> (start + i - 1) * Raw + from + b - 1]
    <3> DEFINE o == Begin[t] + (i - 1) * tracks[t].blocksize
    <3>1. SectorData(t, i) = [b \in 1 .. tracks[t].datasize |-> o + tracks[t].datastart + b - 1]
      BY DEF SectorData
    <3> HIDE DEF o
    <3> QED BY <2>2, <3>1 DEF o
  <2> QED BY <2>3
<1>4. \A i \in 1 .. n : some[i] = whole(lsn + i - 1)
  <2> TAKE i \in 1 .. n
  <2> DEFINE o == (lsn + i - 1) * Raw
  <2>1. o \in Nat /\ o + Raw <= lead * Raw
    <3>1. lsn + i - 1 \in Nat /\ lsn + i \in Nat /\ lead - (lsn + i) \in Nat
      BY <1>1
    <3>2. o \in Nat /\ o + Raw = (lsn + i) * Raw
      BY <1>1, <3>1
    <3>3. lead * Raw = (lsn + i) * Raw + (lead - (lsn + i)) * Raw
      BY <1>1, <3>1
    <3>4. (lead - (lsn + i)) * Raw \in Nat
      BY <1>1, <3>1
    <3> DEFINE x == lead * Raw
               y == (lsn + i) * Raw
               z == (lead - (lsn + i)) * Raw
    <3>5. x = y + z /\ z \in Nat /\ o + Raw = y /\ o \in Nat
      BY <3>2, <3>3, <3>4
    <3> HIDE DEF x, y, z, o
    <3>6. o + Raw <= x
      BY <1>1, <3>5
    <3> QED BY <3>5, <3>6 DEF x
  <2> DEFINE x == lead * Raw
  <2>2. x \in Int /\ x <= image.size /\ o \in Nat /\ o + Raw <= x
    BY <1>1, <2>1
  <2> HIDE DEF o, x
  <2>3. o + from \in Nat /\ o + from + Frame <= image.size
    BY <1>1, <2>2
  <2>4. Bytes(o + from, Frame) = [b \in 1 .. Frame |-> o + from + b - 1]
    BY <1>1, <2>3, BytesInFile
  <2> QED BY <2>4 DEF o
<1>5. all \in Seq(Seq(Int)) /\ Len(all) = m /\ \A i \in 1 .. m : Len(all[i]) = Frame
  <2>1. \A i \in 1 .. m : start + i - 1 \in Nat
    BY <1>1
  <2>2. \A i \in 1 .. m : all[i] \in Seq(Int) /\ Len(all[i]) = Frame
    <3> HIDE DEF all, whole
    <3> QED BY <1>2, <1>3, <2>1
  <2>3. all = [i \in 1 .. m |-> all[i]]
    OBVIOUS
  <2>4. m \in Nat
    BY <1>1
  <2> HIDE DEF all
  <2>5. all \in Seq(Seq(Int)) /\ Len(all) = m
    BY <2>2, <2>3, <2>4
  <2> QED BY <2>2, <2>5
<1>6. some \in Seq(Seq(Int)) /\ Len(some) = n
  <2>1. \A i \in 1 .. n : lsn + i - 1 \in Nat
    OBVIOUS
  <2>2. \A i \in 1 .. n : some[i] \in Seq(Int)
    <3> HIDE DEF some, whole
    <3> QED BY <1>2, <1>4, <2>1
  <2>3. some = [i \in 1 .. n |-> some[i]]
    OBVIOUS
  <2> HIDE DEF some
  <2> QED BY <2>2, <2>3
<1>7. \A i \in 1 .. n : some[i] = all[k + i]
  <2> TAKE i \in 1 .. n
  <2>1. k + i \in 1 .. m /\ start + (k + i) - 1 = lsn + i - 1
    <3> HIDE DEF start
    <3> QED BY <1>1
  <2> HIDE DEF some, all, whole, k
  <2> QED BY <1>3, <1>4, <2>1
<1>8. Sectors(lsn, n, part) = FlattenSeq(some) /\ TrackData(t) = FlattenSeq(all)
  BY DEF Sectors, TrackData, m
<1> HIDE DEF some, all, k
<1>9. FlattenSeq(some) = SubSeq(FlattenSeq(all), k * Frame + 1, (k + n) * Frame)
  <2>1. Frame \in Nat \ {0} /\ k \in Nat /\ k + Len(some) <= Len(all)
    BY <1>1, <1>5, <1>6 DEF k
  <2>2. /\ \A i \in 1 .. Len(all) : Len(all[i]) = Frame
        /\ \A i \in 1 .. Len(some) : some[i] = all[k + i]
    BY <1>5, <1>6, <1>7
  <2>3. all \in Seq(Seq(Int)) /\ some \in Seq(Seq(Int))
    BY <1>5, <1>6
  <2>4. \A a \in Seq(Seq(Int)), s \in Seq(Seq(Int)), f \in Nat :
          /\ \A i \in 1 .. Len(a) : Len(a[i]) = Frame
          /\ f + Len(s) <= Len(a)
          /\ \A i \in 1 .. Len(s) : s[i] = a[f + i]
          => FlattenSeq(s) = SubSeq(FlattenSeq(a), f * Frame + 1, (f + Len(s)) * Frame)
    BY <2>1, FlattenOfSome, Zenon
  <2>5. FlattenSeq(some) = SubSeq(FlattenSeq(all), k * Frame + 1, (k + Len(some)) * Frame)
    BY <2>1, <2>2, <2>3, <2>4, Zenon
  <2> QED BY <1>6, <2>5
<1> QED BY <1>8, <1>9 DEF k

-----------------------------------------------------------------------------
(* A read that is under way is none of cdio_read_data_sectors.             *)
InPlace ==
  /\ image \in Images
  /\ left # 0 => call.op # "data"
  /\ SectorReadsInPlace

(* What is stored when sectors are read for the data routine.              *)
DataStored(lsn, n) ==
  \/ call'.rc # Success
  \/ /\ n = 0 /\ call'.got = << >>
  \/ /\ lsn \in Nat /\ OnDisc(lsn)
     /\ \E t \in TrackOf(lsn), op \in {"mode1", "mode2"} :
          /\ tracks[t].format = IF op = "mode1" THEN "DATA" ELSE "XA"
          /\ \/ call'.got = Sectors(lsn, Clipped(lsn, n), PartOf(op, "no"))
             \/ Clipped(lsn, n) = 0 /\ call'.got = << >>

LEMMA ReadDataStores ==
  ASSUME NEW lsn \in Int, NEW n \in Nat, ReadDataSectors(lsn, n)
  PROVE  /\ call'.op = "data" /\ call'.at = lsn /\ call'.n = n /\ DataStored(lsn, n)
         /\ image' = image /\ left = 0 /\ left' = 0
<1>1. image' = image /\ left = 0 /\ left' = 0
  BY DEF ReadDataSectors, Idle
<1>2. ASSUME NEW op, NEW form2, ReadSectors("data", op, form2, lsn, n)
      PROVE  /\ call'.op = "data" /\ call'.at = lsn /\ call'.n = n
             /\ \/ call'.rc # Success
                \/ /\ lsn \in Nat /\ OnDisc(lsn)
                   /\ \/ call'.got = Sectors(lsn, Clipped(lsn, n), PartOf(op, form2))
                      \/ Clipped(lsn, n) = 0 /\ call'.got = << >>
  <2> DEFINE blocks == Clipped(lsn, n)
             got == Sectors(lsn, blocks, PartOf(op, form2))
             rc == IF op = "audio" /\ got = << >> THEN 1 ELSE Success
  <2>1. \/ call' = Call("data", lsn, n, Error, << >>)
        \/ /\ OnDisc(lsn) /\ lsn >= 0 /\ blocks = 0
           /\ call' = Call("data", lsn, n, Success, << >>)
        \/ /\ OnDisc(lsn) /\ lsn >= 0
           /\ call' = Call("data", lsn, n, rc, got)
    BY <1>2 DEF ReadSectors
  <2> HIDE DEF blocks, got, rc
  <2>2. /\ call'.op = "data" /\ call'.at = lsn /\ call'.n = n
        /\ \/ call'.rc = Error
           \/ OnDisc(lsn) /\ lsn >= 0 /\ blocks = 0 /\ call'.got = << >>
           \/ OnDisc(lsn) /\ lsn >= 0 /\ call'.got = got
    BY <2>1 DEF Call
  <2> QED BY <2>2 DEF blocks, got, Error, Success
<1>3. \/ call' = Call("data", lsn, n, Error, << >>)
      \/ n = 0 /\ call' = Call("data", lsn, n, Success, << >>)
      \/ \E t \in TrackOf(lsn) :
           \/ tracks[t].format = "DATA" /\ ReadSectors("data", "mode1", "no", lsn, n)
           \/ tracks[t].format = "XA" /\ ReadSectors("data", "mode2", "no", lsn, n)
  BY DEF ReadDataSectors
<1>4. CASE call' = Call("data", lsn, n, Error, << >>)
  BY <1>1, <1>4 DEF Call, Error, Success, DataStored
<1>5. CASE n = 0 /\ call' = Call("data", lsn, n, Success, << >>)
  BY <1>1, <1>5 DEF Call, DataStored
<1>6. ASSUME NEW t \in TrackOf(lsn), NEW op \in {"mode1", "mode2"},
             tracks[t].format = IF op = "mode1" THEN "DATA" ELSE "XA",
             ReadSectors("data", op, "no", lsn, n)
      PROVE  call'.op = "data" /\ call'.at = lsn /\ call'.n = n /\ DataStored(lsn, n)
  BY <1>2, <1>6 DEF DataStored
<1> QED BY <1>1, <1>3, <1>4, <1>5, <1>6

LEMMA StoredIsInPlace ==
  ASSUME image \in Images, OfRawSectors(image), NEW lsn \in Int, NEW n \in Nat, NEW t \in TrackOf(lsn),
         call'.rc = Success, DataStored(lsn, n),
         lsn - tracks[t].start + n <= Length(t)
  PROVE  call'.got = SubSeq(TrackData(t), (lsn - tracks[t].start) * tracks[t].datasize + 1,
                            ((lsn - tracks[t].start) + n) * tracks[t].datasize)
<1> DEFINE k == lsn - tracks[t].start
           size == tracks[t].datasize
<1>1. /\ t \in DOMAIN tracks /\ tracks[t].start \in Nat /\ k \in Nat /\ size \in Nat
      /\ lsn + n <= lead /\ lead \in Nat /\ lsn \in Nat
  <2>1. /\ t \in DOMAIN tracks /\ tracks[t].start <= lsn
        /\ lsn < IF t < Len(tracks) THEN tracks[t + 1].start ELSE lead
    BY DEF TrackOf
  <2>2. /\ DOMAIN tracks = 1 .. Len(tracks) /\ Len(tracks) \in Nat
        /\ lead \in Nat /\ tracks \in Seq(Track)
        /\ \A s \in DOMAIN tracks : tracks[s].start \in Nat /\ tracks[s].start <= lead
    BY TracksAre
  <2>3. tracks[t] \in Track
    BY <2>1, <2>2
  <2>4. size \in Nat
    BY <2>3 DEF Track
  <2>5. t < Len(tracks) => t + 1 \in DOMAIN tracks
    BY <2>1, <2>2
  <2>6. lsn + n <= lead
    BY <2>1, <2>2, <2>5 DEF Length
  <2> QED BY <2>1, <2>2, <2>4, <2>6
<1>2. ASSUME n = 0, call'.got = << >>
      PROVE  call'.got = SubSeq(TrackData(t), k * size + 1, (k + n) * size)
  <2> HIDE DEF k, size
  <2> DEFINE a == k * size
  <2>1. a \in Nat /\ (k + n) * size = a
    BY <1>1, <1>2
  <2> HIDE DEF a
  <2>2. SubSeq(TrackData(t), a + 1, a) = << >>
    BY <2>1
  <2> QED BY <1>2, <2>1, <2>2 DEF a
<1>3. Clipped(lsn, n) = n
  <2>1. lsn + n \in 0 .. lead + 1
    BY <1>1
  <2> QED BY <2>1 DEF Clipped
<1>4. ASSUME NEW s \in TrackOf(lsn), NEW op \in {"mode1", "mode2"},
             tracks[s].format = IF op = "mode1" THEN "DATA" ELSE "XA",
             call'.got = Sectors(lsn, n, PartOf(op, "no"))
      PROVE  call'.got = SubSeq(TrackData(t), k * size + 1, (k + n) * size)
  <2>1. s = t
    BY OneTrack
  <2> DEFINE part == PartOf(op, "no")
  <2>2. /\ Header \in Nat /\ Subheader \in Nat /\ Frame \in Nat \ {0} /\ Raw \in Nat \ {0}
        /\ Raw >= Header + Subheader + Frame
    BY ImageReadAssumption DEF ImageReadAssumption
  <2>3. part.from = (IF op = "mode1" THEN Header ELSE Header + Subheader) /\ part.size = Frame
    BY DEF PartOf, Mode1Part, Mode2Part
  <2>4. tracks[t].datastart = part.from /\ size = Frame
    <3>2. /\ tracks[t].format = "DATA" => tracks[t].datastart = Header /\ tracks[t].datasize = Frame
          /\ tracks[t].format = "XA" =>
               tracks[t].datastart = Header + Subheader /\ tracks[t].datasize = Frame
      BY <1>1 DEF OfRawSectors, tracks
    <3> HIDE DEF part
    <3> QED BY <1>4, <2>1, <2>3, <3>2
  <2>5. part.from \in Nat /\ part.from + Frame <= Raw
    <3> HIDE DEF part
    <3> QED BY <2>2, <2>3
  <2> HIDE DEF part
  <2>6. Sectors(lsn, n, part)
          = SubSeq(TrackData(t), (lsn - tracks[t].start) * Frame + 1,
                                     ((lsn - tracks[t].start) + n) * Frame)
    <3>1. lsn \in Nat /\ tracks[t].datasize = Frame
      BY <1>1, <2>4
    <3>2. \A p : p.from \in Nat /\ p.from + Frame <= Raw /\ p.size = Frame /\ tracks[t].datastart = p.from
            => Sectors(lsn, n, p)
                 = SubSeq(TrackData(t), (lsn - tracks[t].start) * Frame + 1,
                                            ((lsn - tracks[t].start) + n) * Frame)
      BY <3>1, SectorsOfTrack
    <3> QED BY <2>3, <2>4, <2>5, <3>2
  <2> QED BY <1>4, <2>4, <2>6 DEF part
<1> QED BY <1>2, <1>3, <1>4 DEF DataStored

LEMMA NextInPlace ==
  ASSUME InPlace, [Next]_vars
  PROVE  InPlace'
<1> USE DEF InPlace
<1>1. ASSUME NEW lsn \in Lsns, NEW n \in Blocks, ReadDataSectors(lsn, n) PROVE InPlace'
  <2>1. lsn \in Int /\ n \in Nat
    BY ImageReadAssumption DEF ImageReadAssumption
  <2>2. /\ call'.op = "data" /\ call'.at = lsn /\ call'.n = n /\ DataStored(lsn, n)
        /\ image' = image /\ left = 0 /\ left' = 0
    BY <1>1, <2>1, ReadDataStores
  <2>3. ASSUME OfRawSectors(image), call'.rc = Success, NEW t \in TrackOf(lsn), lsn - tracks[t].start + n <= Length(t)
        PROVE  call'.got = SubSeq(TrackData(t), (lsn - tracks[t].start) * tracks[t].datasize + 1,
                                  ((lsn - tracks[t].start) + n) * tracks[t].datasize)
    BY <2>1, <2>2, <2>3, StoredIsInPlace
  <2>4. /\ tracks' = tracks /\ TrackOf(lsn)' = TrackOf(lsn)
        /\ \A t : Length(t)' = Length(t) /\ TrackData(t)' = TrackData(t)
    BY <2>2 DEF tracks, TrackOf, Length, TrackData, SectorData, Begin, lead
  <2>5. SectorReadsInPlace'
    BY <2>2, <2>3, <2>4 DEF SectorReadsInPlace
  <2> QED BY <2>2, <2>5
(* No other call is one of cdio_read_data_sectors, or it is the same one.  *)
<1>2. ASSUME image' = image,
             \/ call'.op # "data"
             \/ left # 0 /\ call'.op = call.op
             \/ UNCHANGED <<call, left>>
      PROVE  InPlace'
  <2>1. CASE call'.op # "data"
    BY <1>2, <2>1 DEF SectorReadsInPlace
  <2>2. CASE left # 0 /\ call'.op = call.op
    BY <1>2, <2>2 DEF SectorReadsInPlace
  <2>3. CASE UNCHANGED <<call, left>>
    <3>1. SectorReadsInPlace' = SectorReadsInPlace
      BY <1>2, <2>3 DEF SectorReadsInPlace, tracks, TrackOf, Length, TrackData,
                        SectorData, Begin, lead
    <3> QED BY <1>2, <2>3, <3>1
  <2> QED BY <1>2, <2>1, <2>2, <2>3
<1>3. ASSUME NEW op \in {"audio", "mode1", "mode2"}, NEW form2, NEW lsn \in Lsns, NEW n \in Blocks,
             CdioReadSectors(op, form2, lsn, n)
      PROVE  InPlace'
  <2>1. image' = image /\ call'.op = op
    BY <1>3 DEF CdioReadSectors, ReadSectors, Call
  <2> QED BY <1>2, <2>1
<1>4. ASSUME NEW off, Lseek(off) PROVE InPlace'
  <2>1. image' = image /\ call'.op \in {"seek", "undefined"}
    BY <1>4 DEF Lseek, Call
  <2> QED BY <1>2, <2>1
<1>5. ASSUME NEW size, Read(size) PROVE InPlace'
  <2>1. image' = image /\ call'.op \in {"read", "read_on"}
    BY <1>5 DEF Read, Call
  <2> QED BY <1>2, <2>1
<1>6. CASE LastTurn \/ Turn
  <2>1. image' = image /\ left > 0 /\ \E got : call' = [call EXCEPT !.got = got]
    BY <1>6 DEF LastTurn, Turn
  <2>2. left # 0
    BY <2>1
  <2>3. call'.op = call.op
    BY <2>1
  <2> QED BY <1>2, <2>1, <2>2, <2>3
<1>7. CASE UNCHANGED vars
  BY <1>2, <1>7 DEF vars
<1> QED BY <1>1, <1>3, <1>4, <1>5, <1>6, <1>7 DEF Next

(* Whatever was sought and read before, and for every image whose tracks   *)
(* are of raw sectors, what cdio_read_data_sectors stores when it succeeds *)
(* is the data of the sectors asked for, of the track that they are in     *)
(* (read_data_sectors_image of image_common.c, over _read_mode1_sectors    *)
(* and _read_mode2_sectors of bincue.c).                                   *)
THEOREM ImageSectorsInPlace == Spec => []SectorReadsInPlace
<1>1. Init => InPlace
  BY DEF Init, InPlace, SectorReadsInPlace, Call
<1>2. InPlace /\ [Next]_vars => InPlace'
  BY NextInPlace
<1>3. InPlace => SectorReadsInPlace
  BY DEF InPlace
<1> QED BY <1>1, <1>2, <1>3, PTL DEF Spec

-----------------------------------------------------------------------------
(* Sums of sizes, and sequences of any lengths put one behind the other:   *)
(* the solutions of both recursive equations exist, for a shortest one     *)
(* without a solution would be an extension of one that has it.            *)
IsSum(f, sizes, n) ==
  f = [k \in 1 .. n + 1 |-> IF k = 1 THEN 0 ELSE f[k - 1] + sizes[k - 1]]

LEMMA SumsExist ==
  ASSUME NEW sizes \in Seq(Nat)
  PROVE  \A n \in 0 .. Len(sizes) : \E f : IsSum(f, sizes, n) /\ \A k \in 1 .. n + 1 : f[k] \in Nat
<1> DEFINE N == Len(sizes)
           Has(n) == \E f : IsSum(f, sizes, n) /\ \A k \in 1 .. n + 1 : f[k] \in Nat
           Bad == {n \in 0 .. N : ~Has(n)}
<1>0. N \in Nat /\ \A k \in 1 .. N : sizes[k] \in Nat
  OBVIOUS
<1>1. Has(0)
  <2> DEFINE f == [k \in 1 .. 1 |-> 0]
  <2>1. IsSum(f, sizes, 0)
    BY DEF IsSum
  <2>2. \A k \in 1 .. 0 + 1 : f[k] \in Nat
    OBVIOUS
  <2> QED BY <2>1, <2>2
<1>2. ASSUME NEW m \in 1 .. N, Has(m - 1) PROVE Has(m)
  <2>1. PICK f : IsSum(f, sizes, m - 1) /\ \A k \in 1 .. m - 1 + 1 : f[k] \in Nat
    BY <1>2
  <2> DEFINE g == [k \in 1 .. m + 1 |-> IF k = m + 1 THEN f[m] + sizes[m] ELSE f[k]]
  <2>2. \A k \in 1 .. m : f[k] = IF k = 1 THEN 0 ELSE f[k - 1] + sizes[k - 1]
    BY <2>1 DEF IsSum
  <2>3. \A k \in 1 .. m + 1 : g[k] = IF k = 1 THEN 0 ELSE g[k - 1] + sizes[k - 1]
    BY <2>2
  <2>4. \A k \in 1 .. m + 1 : g[k] \in Nat
    BY <1>0, <2>1
  <2>5. IsSum(g, sizes, m)
    BY <2>3 DEF IsSum
  <2> HIDE DEF g
  <2> QED BY <2>4, <2>5
<1> HIDE DEF Has, N
<1>3. ASSUME Bad # {} PROVE FALSE
  <2>1. Bad \in SUBSET Nat
    BY <1>0
  <2>2. PICK m \in Bad : \A k \in Bad : m <= k
    BY <1>3, <2>1, LeastNatural
  <2>3. m \in 0 .. N /\ ~Has(m)
    OBVIOUS
  <2>4. m # 0 /\ m \in 1 .. N
    BY <1>0, <1>1, <2>3
  <2>5. m - 1 \in 0 .. N /\ ~(m <= m - 1)
    BY <1>0, <2>4
  <2>6. Has(m - 1)
    BY <2>2, <2>5
  <2> QED BY <1>2, <2>3, <2>4, <2>6
<1>4. \A n \in 0 .. N : Has(n)
  BY <1>3
<1> QED BY <1>4 DEF Has, N

LEMMA SumsAre ==
  ASSUME NEW sizes \in Seq(Nat)
  PROVE  /\ SumBefore(sizes, 1) = 0
         /\ \A t \in 1 .. Len(sizes) + 1 : SumBefore(sizes, t) \in Nat
         /\ \A t \in 1 .. Len(sizes) : SumBefore(sizes, t + 1) = SumBefore(sizes, t) + sizes[t]
<1> DEFINE N == Len(sizes)
           S == CHOOSE f : IsSum(f, sizes, N)
<1>0. N \in Nat /\ \A k \in 1 .. N : sizes[k] \in Nat
  OBVIOUS
<1>1. \A t : SumBefore(sizes, t) = S[t]
  BY DEF SumBefore, IsSum
<1>2. PICK f : IsSum(f, sizes, N) /\ \A k \in 1 .. N + 1 : f[k] \in Nat
  BY <1>0, SumsExist
<1>3. IsSum(S, sizes, N)
  BY <1>2
<1> HIDE DEF S, N
<1>4. \A k \in 1 .. N + 1 : S[k] = IF k = 1 THEN 0 ELSE S[k - 1] + sizes[k - 1]
  BY <1>3 DEF IsSum
<1>5. S[1] = 0 /\ \A t \in 1 .. N : S[t + 1] = S[t] + sizes[t]
  <2>1. 1 \in 1 .. N + 1 /\ \A t \in 1 .. N : t + 1 \in 1 .. N + 1 /\ t + 1 # 1 /\ t + 1 - 1 = t
    BY <1>0
  <2> QED BY <1>4, <2>1
<1> DEFINE Bad == {k \in 1 .. N + 1 : S[k] \notin Nat}
<1>6. ASSUME Bad # {} PROVE FALSE
  <2>1. Bad \in SUBSET Nat
    BY <1>0
  <2>2. PICK m \in Bad : \A k \in Bad : m <= k
    BY <1>6, <2>1, LeastNatural
  <2>3. m \in 1 .. N + 1 /\ S[m] \notin Nat /\ m # 1
    BY <1>5
  <2>4. m - 1 \in 1 .. N /\ ~(m <= m - 1) /\ m - 1 \in 1 .. N + 1 /\ m - 1 + 1 = m
    BY <1>0, <2>3
  <2>5. S[m - 1] \in Nat
    BY <2>2, <2>4
  <2>6. S[m] = S[m - 1] + sizes[m - 1]
    BY <1>5, <2>4
  <2> QED BY <1>0, <2>3, <2>4, <2>5, <2>6
<1>7. \A k \in 1 .. N + 1 : S[k] \in Nat
  BY <1>6
<1> QED BY <1>1, <1>5, <1>7 DEF N

LEMMA SumsGrow ==
  ASSUME NEW sizes \in Seq(Nat), NEW s \in 1 .. Len(sizes) + 1
  PROVE  \A t \in 1 .. Len(sizes) + 1 : s <= t => SumBefore(sizes, s) <= SumBefore(sizes, t)
<1> DEFINE N == Len(sizes)
           S(t) == SumBefore(sizes, t)
           Bad == {t \in 1 .. N + 1 : s <= t /\ ~(S(s) <= S(t))}
<1>1. /\ N \in Nat /\ s \in 1 .. N + 1 /\ \A k \in 1 .. N : sizes[k] \in Nat
      /\ \A t \in 1 .. N + 1 : S(t) \in Nat
      /\ \A t \in 1 .. N : S(t + 1) = S(t) + sizes[t]
  BY SumsAre
<1> HIDE DEF S, N
<1>2. ASSUME Bad # {} PROVE FALSE
  <2>1. Bad \in SUBSET Nat
    BY <1>1
  <2>2. PICK m \in Bad : \A k \in Bad : m <= k
    BY <1>2, <2>1, LeastNatural
  <2>3. m \in 1 .. N + 1 /\ s <= m /\ ~(S(s) <= S(m)) /\ m # s
    BY <1>1
  <2>4. m - 1 \in 1 .. N /\ ~(m <= m - 1) /\ m - 1 \in 1 .. N + 1 /\ m - 1 + 1 = m /\ s <= m - 1
    BY <1>1, <2>3
  <2>5. S(s) <= S(m - 1)
    BY <2>2, <2>4
  <2>6. S(m) = S(m - 1) + sizes[m - 1]
    BY <1>1, <2>4
  <2> QED BY <1>1, <2>3, <2>4, <2>5, <2>6
<1> QED BY <1>2 DEF S, N

(* Sums of what is the same up to a place are the same up to there.        *)
LEMMA SumsAgree ==
  ASSUME NEW a \in Seq(Nat), NEW b \in Seq(Nat), Len(a) = Len(b), NEW n \in 1 .. Len(a) + 1,
         \A t \in 1 .. n - 1 : a[t] = b[t]
  PROVE  \A t \in 1 .. n : SumBefore(a, t) = SumBefore(b, t)
<1> DEFINE N == Len(a)
           A(t) == SumBefore(a, t)
           B(t) == SumBefore(b, t)
           Bad == {t \in 1 .. n : A(t) # B(t)}
<1>1. /\ N \in Nat /\ n \in 1 .. N + 1 /\ A(1) = 0 /\ B(1) = 0
      /\ \A t \in 1 .. N : A(t + 1) = A(t) + a[t] /\ B(t + 1) = B(t) + b[t]
  BY SumsAre
<1> HIDE DEF A, B, N
<1>2. ASSUME Bad # {} PROVE FALSE
  <2>1. Bad \in SUBSET Nat
    BY <1>1
  <2>2. PICK m \in Bad : \A k \in Bad : m <= k
    BY <1>2, <2>1, LeastNatural
  <2>3. m \in 1 .. n /\ A(m) # B(m) /\ m # 1
    BY <1>1
  <2>4. m - 1 \in 1 .. N /\ ~(m <= m - 1) /\ m - 1 \in 1 .. n /\ m - 1 + 1 = m /\ m - 1 \in 1 .. n - 1
    BY <1>1, <2>3
  <2>5. A(m - 1) = B(m - 1)
    BY <2>2, <2>4
  <2>6. A(m) = A(m - 1) + a[m - 1] /\ B(m) = B(m - 1) + b[m - 1]
    BY <1>1, <2>4
  <2> QED BY <2>3, <2>4, <2>5, <2>6
<1> QED BY <1>2 DEF A, B

FlattenTo(g, seqs, n) == g = [i \in 1 .. n |-> IF i = 1 THEN seqs[i] ELSE g[i - 1] \o seqs[i]]

LEMMA FlattenExists ==
  ASSUME NEW seqs \in Seq(Seq(Int))
  PROVE  \A n \in 1 .. Len(seqs) : \E g : FlattenTo(g, seqs, n)
<1> DEFINE N == Len(seqs)
           Has(n) == \E g : FlattenTo(g, seqs, n)
           Bad == {n \in 1 .. N : ~Has(n)}
<1>0. N \in Nat
  OBVIOUS
<1>1. Has(1)
  <2> DEFINE g == [i \in 1 .. 1 |-> seqs[i]]
  <2>1. FlattenTo(g, seqs, 1)
    BY DEF FlattenTo
  <2> QED BY <2>1
<1>2. ASSUME NEW m \in 2 .. N, Has(m - 1) PROVE Has(m)
  <2>1. PICK f : FlattenTo(f, seqs, m - 1)
    BY <1>2
  <2> DEFINE g == [i \in 1 .. m |-> IF i = m THEN f[m - 1] \o seqs[m] ELSE f[i]]
  <2>2. \A i \in 1 .. m - 1 : f[i] = IF i = 1 THEN seqs[i] ELSE f[i - 1] \o seqs[i]
    BY <2>1 DEF FlattenTo
  <2>3. \A i \in 1 .. m : g[i] = IF i = 1 THEN seqs[i] ELSE g[i - 1] \o seqs[i]
    BY <2>2
  <2>4. FlattenTo(g, seqs, m)
    BY <2>3 DEF FlattenTo
  <2> QED BY <2>4
<1> HIDE DEF Has, N
<1>3. ASSUME Bad # {} PROVE FALSE
  <2>1. Bad \in SUBSET Nat
    BY <1>0
  <2>2. PICK m \in Bad : \A k \in Bad : m <= k
    BY <1>3, <2>1, LeastNatural
  <2>3. m \in 1 .. N /\ ~Has(m)
    OBVIOUS
  <2>4. m # 1 /\ m \in 2 .. N
    BY <1>0, <1>1, <2>3
  <2>5. m - 1 \in 1 .. N /\ ~(m <= m - 1)
    BY <1>0, <2>4
  <2>6. Has(m - 1)
    BY <2>2, <2>5
  <2> QED BY <1>2, <2>3, <2>4, <2>6
<1>4. \A n \in 1 .. N : Has(n)
  BY <1>3
<1> QED BY <1>4 DEF Has, N

LEMMA Joined ==
  ASSUME NEW a \in Seq(Int), NEW b \in Seq(Int)
  PROVE  a \o b \in Seq(Int) /\ Len(a \o b) = Len(a) + Len(b)
OBVIOUS

(* Byte x of part t stands behind the parts before it.                     *)
LEMMA FlattenOfParts ==
  ASSUME NEW seqs \in Seq(Seq(Int)), NEW sizes \in Seq(Nat), Len(sizes) = Len(seqs), seqs # << >>,
         \A t \in 1 .. Len(seqs) : Len(seqs[t]) = sizes[t]
  PROVE  /\ FlattenSeq(seqs) \in Seq(Int) /\ Len(FlattenSeq(seqs)) = SumBefore(sizes, Len(seqs) + 1)
         /\ \A t \in 1 .. Len(seqs) : \A x \in 1 .. sizes[t] :
              FlattenSeq(seqs)[SumBefore(sizes, t) + x] = seqs[t][x]
<1> DEFINE N == Len(seqs)
           S(t) == SumBefore(sizes, t)
           G == CHOOSE g : FlattenTo(g, seqs, N)
           Laid(i) == /\ G[i] \in Seq(Int) /\ Len(G[i]) = S(i + 1)
                      /\ \A t \in 1 .. i : \A x \in 1 .. sizes[t] : G[i][S(t) + x] = seqs[t][x]
           Bad == {i \in 1 .. N : ~Laid(i)}
<1>1. /\ N \in Nat \ {0} /\ N = Len(sizes) /\ \A t \in 1 .. N : seqs[t] \in Seq(Int) /\ sizes[t] \in Nat
      /\ S(1) = 0 /\ \A t \in 1 .. N + 1 : S(t) \in Nat
      /\ \A t \in 1 .. N : S(t + 1) = S(t) + sizes[t] /\ Len(seqs[t]) = sizes[t]
  BY SumsAre
<1>2. FlattenSeq(seqs) = G[N]
  BY <1>1 DEF FlattenSeq, FlattenTo
<1>3. FlattenTo(G, seqs, N)
  <2>1. N \in 1 .. N /\ \A n \in 1 .. N : \E g : FlattenTo(g, seqs, n)
    BY <1>1, FlattenExists
  <2> QED BY <2>1
<1>4. \A s \in 1 .. N + 1, t \in 1 .. N + 1 : s <= t => S(s) <= S(t)
  BY <1>1, SumsGrow
<1> HIDE DEF G, N, S
<1>5. \A i \in 1 .. N : G[i] = IF i = 1 THEN seqs[i] ELSE G[i - 1] \o seqs[i]
  BY <1>3 DEF FlattenTo
<1>6. Laid(1)
  <2>0. 1 \in 1 .. N
    BY <1>1
  <2>1. G[1] = seqs[1] /\ S(1 + 1) = sizes[1] /\ S(1) = 0
    BY <1>1, <1>5, <2>0
  <2> QED BY <1>1, <2>1
<1>7. ASSUME NEW m \in 2 .. N, Laid(m - 1) PROVE Laid(m)
  <2> DEFINE a == G[m - 1]
             b == seqs[m]
  <2>0. m \in 1 .. N /\ m - 1 \in 1 .. N /\ m - 1 + 1 = m /\ m # 1
    BY <1>1
  <2>1. G[m] = a \o b
    BY <1>5, <2>0
  <2>2. a \in Seq(Int) /\ b \in Seq(Int) /\ Len(a) = S(m) /\ Len(b) = sizes[m] /\ S(m + 1) = S(m) + sizes[m]
    BY <1>1, <1>7, <2>0
  <2>3. \A t \in 1 .. m - 1 : \A x \in 1 .. sizes[t] : a[S(t) + x] = seqs[t][x]
    BY <1>7
  <2>7. b = seqs[m]
    OBVIOUS
  <2> HIDE DEF a, b
  <2>4. G[m] \in Seq(Int) /\ Len(G[m]) = S(m + 1)
    <3>1. Len(a \o b) = Len(a) + Len(b) /\ a \o b \in Seq(Int)
      BY <2>2, Joined
    <3> QED BY <2>1, <2>2, <3>1
  <2>5. G[m] = [x \in 1 .. Len(a) + Len(b) |-> IF x <= Len(a) THEN a[x] ELSE b[x - Len(a)]]
    BY <2>1, <2>2, Concatenation
  <2>6. ASSUME NEW t \in 1 .. m, NEW x \in 1 .. sizes[t] PROVE G[m][S(t) + x] = seqs[t][x]
    <3>0. t \in 1 .. N /\ t \in 1 .. N + 1
      BY <1>1, <2>0
    <3>1. S(t) \in Nat /\ sizes[t] \in Nat /\ S(t + 1) = S(t) + sizes[t]
      BY <1>1, <3>0
    <3>2. CASE t = m
      <4>0. x \in 1 .. Len(b) /\ Len(b) \in Nat /\ Len(a) \in Nat /\ S(t) = Len(a)
        BY <2>2, <3>1, <3>2
      <4>1. G[m][S(t) + x] = b[x]
        <5> DEFINE y == S(t) + x
        <5>1. y \in 1 .. Len(a) + Len(b) /\ ~(y <= Len(a)) /\ y - Len(a) = x
          BY <4>0
        <5> HIDE DEF y
        <5>2. G[m][y] = b[y - Len(a)]
          BY <2>5, <5>1
        <5> QED BY <5>1, <5>2 DEF y
      <4> QED BY <2>7, <3>2, <4>1
    <3>3. CASE t # m
      <4>1. t \in 1 .. m - 1 /\ t + 1 \in 1 .. N + 1 /\ m \in 1 .. N + 1 /\ t + 1 <= m
        BY <1>1, <2>0, <3>0, <3>3
      <4>2. S(t + 1) <= S(m)
        BY <1>4, <4>1
      <4>3. S(t) + x \in 1 .. Len(a) + Len(b) /\ S(t) + x <= Len(a)
        <5>1. sizes[m] \in Nat /\ S(m) \in Nat
          BY <1>1, <2>0, <4>1
        <5>2. x \in Nat \ {0} /\ x <= sizes[t] /\ Len(a) = S(m) /\ Len(b) = sizes[m]
          BY <2>2, <3>1
        <5>3. \A p \in Nat, q \in Nat, r \in Nat, u \in Nat :
                p + x <= q /\ q <= r => p + x \in 1 .. r + u /\ p + x <= r
          BY <5>2
        <5>4. S(t) + x <= S(t + 1) /\ S(t + 1) \in Nat
          BY <3>1, <5>2
        <5> QED BY <3>1, <4>2, <5>1, <5>2, <5>3, <5>4
      <4> QED BY <2>3, <2>5, <4>1, <4>3
    <3> QED BY <3>2, <3>3
  <2> QED BY <2>4, <2>6
<1> HIDE DEF Laid
<1>8. ASSUME Bad # {} PROVE FALSE
  <2>1. Bad \in SUBSET Nat
    BY <1>1
  <2>2. PICK m \in Bad : \A k \in Bad : m <= k
    BY <1>8, <2>1, LeastNatural
  <2>3. m \in 1 .. N /\ ~Laid(m)
    OBVIOUS
  <2>4. m # 1 /\ m \in 2 .. N
    BY <1>1, <1>6, <2>3
  <2>5. m - 1 \in 1 .. N /\ ~(m <= m - 1)
    BY <1>1, <2>4
  <2>6. Laid(m - 1)
    BY <2>2, <2>5
  <2> QED BY <1>7, <2>3, <2>4, <2>6
<1>9. N \in 1 .. N /\ Laid(N)
  BY <1>1, <1>8
<1> QED BY <1>1, <1>2, <1>9 DEF Laid, N, S

-----------------------------------------------------------------------------
(* The data of an image, byte by byte.                                     *)
Sectors1(t) == Length(t) * tracks[t].datasize
Lens == [t \in DOMAIN tracks |-> Sectors1(t)]

LEMMA TrackFacts ==
  ASSUME image \in Images, OfRawSectors(image)
  PROVE  /\ Raw \in Nat \ {0} /\ lead \in Nat /\ image.size \in Nat /\ lead * Raw <= image.size
         /\ DOMAIN tracks = 1 .. Len(tracks) /\ Len(tracks) \in Nat \ {0}
         /\ \A t \in 1 .. Len(tracks) :
              /\ tracks[t].start \in Nat /\ tracks[t].blocksize = Raw /\ tracks[t].sec_count \in Nat
              /\ tracks[t].datastart \in Nat /\ tracks[t].datasize \in Nat \ {0}
              /\ tracks[t].datastart + tracks[t].datasize <= Raw
              /\ Begin[t] = tracks[t].start * Raw /\ Length(t) \in Nat
              /\ tracks[t].start + Length(t) <= lead
              /\ t = Len(tracks) => tracks[t].start + Length(t) = lead
              /\ t < Len(tracks) => tracks[t + 1].start = tracks[t].start + Length(t) /\ Length(t) # 0
<1> DEFINE N == Len(tracks)
<1>1. /\ tracks \in Seq(Track) /\ DOMAIN tracks = 1 .. N /\ N \in Nat
      /\ image.size \in Nat /\ lead \in Nat /\ Raw \in Nat \ {0} /\ Frame \in Nat \ {0}
      /\ lead * Raw <= image.size
      /\ \A t \in 1 .. N :
           /\ tracks[t].start \in Nat /\ tracks[t].start <= lead /\ tracks[t].blocksize = Raw
           /\ t > 1 => tracks[t].start > tracks[t - 1].start
  BY TracksAre
<1>2. IsImage(image) /\ OfRawSectors(image)
  BY ImageReadAssumption DEF ImageReadAssumption
<1>3. N # 0
  <2>1. tracks # << >>
    BY <1>2 DEF IsImage, tracks
  <2> QED BY <1>1, <2>1
<1>4. \A t \in 1 .. N : tracks[t] \in Track
  BY <1>1
<1>5. \A t \in 1 .. N : tracks[t].sec_count \in Nat /\ tracks[t].datastart \in Nat
                        /\ tracks[t].format \in {"AUDIO", "DATA", "XA"}
  BY <1>4 DEF Track
<1>6. \A t \in 1 .. N : /\ tracks[t].datastart + tracks[t].datasize <= Raw
                        /\ tracks[t].datasize \in Nat \ {0}
  <2>1. {Header, Subheader} \subseteq Nat /\ Raw >= Header + Subheader + Frame
    BY ImageReadAssumption DEF ImageReadAssumption
  <2>2. \A t \in 1 .. N :
          /\ tracks[t].format = "DATA" => tracks[t].datastart = Header /\ tracks[t].datasize = Frame
          /\ tracks[t].format = "XA" => tracks[t].datastart = Header + Subheader /\ tracks[t].datasize = Frame
          /\ tracks[t].format = "AUDIO" => tracks[t].datastart = 0 /\ tracks[t].datasize = Raw
    BY <1>1, <1>2 DEF OfRawSectors, tracks
  <2>4. Header \in Nat /\ Subheader \in Nat /\ Header + Frame <= Raw /\ Header + Subheader + Frame <= Raw
        /\ 0 + Raw <= Raw
    BY <1>1, <2>1
  <2> TAKE t \in 1 .. N
  <2>5. CASE tracks[t].format = "DATA"
    <3>1. tracks[t].datastart = Header /\ tracks[t].datasize = Frame
      BY <2>2, <2>5
    <3> QED BY <1>1, <2>4, <3>1, Zenon
  <2>6. CASE tracks[t].format = "XA"
    <3>1. tracks[t].datastart = Header + Subheader /\ tracks[t].datasize = Frame
      BY <2>2, <2>6
    <3> QED BY <1>1, <2>4, <3>1, Zenon
  <2>7. CASE tracks[t].format = "AUDIO"
    <3>1. tracks[t].datastart = 0 /\ tracks[t].datasize = Raw
      BY <2>2, <2>7
    <3> QED BY <1>1, <2>4, <3>1, Zenon
  <2> QED BY <1>5, <2>5, <2>6, <2>7
<1>7. \A t \in 1 .. N :
        /\ t = N => Length(t) = lead - tracks[t].start
        /\ t < N => Length(t) = tracks[t + 1].start - tracks[t].start
  <2> TAKE t \in 1 .. N
  <2>1. CASE t = N
    <3>1. ~(t < Len(tracks))
      BY <1>1, <2>1
    <3> QED BY <1>1, <2>1, <3>1 DEF Length
  <2>2. CASE t < N
    <3>1. t # N
      <4> HIDE DEF N
      <4> QED BY <1>1, <2>2
    <3> QED BY <2>2, <3>1 DEF Length
  <2>3. t = N \/ t < N
    <3> HIDE DEF N
    <3> QED BY <1>1
  <2> QED BY <1>1, <2>1, <2>2, <2>3
<1>8. \A t \in 1 .. N :
        /\ Length(t) \in Nat /\ tracks[t].start + Length(t) <= lead
        /\ t = N => tracks[t].start + Length(t) = lead
        /\ t < N => tracks[t + 1].start = tracks[t].start + Length(t) /\ Length(t) # 0
  <2> TAKE t \in 1 .. N
  <2> HIDE DEF N
  <2>1. CASE t = N
    BY <1>1, <1>7, <2>1
  <2>2. CASE t < N
    <3>1. t + 1 \in 1 .. N /\ t + 1 > 1 /\ t + 1 - 1 = t
      BY <1>1, <2>2
    <3>2. tracks[t + 1].start > tracks[t].start /\ tracks[t + 1].start \in Nat /\ tracks[t].start \in Nat
          /\ tracks[t + 1].start <= lead
      BY <1>1, <3>1
    <3> QED BY <1>1, <1>7, <2>2, <3>2
  <2> QED BY <1>1, <2>1, <2>2
<1>9. \A t \in 1 .. N : Begin[t] = tracks[t].start * Raw
  BY <1>1, TracksBegin
<1> QED BY <1>1, <1>3, <1>5, <1>6, <1>8, <1>9

LEMMA DataOfTrack ==
  ASSUME image \in Images, OfRawSectors(image), NEW t \in DOMAIN tracks
  PROVE  /\ TrackData(t) \in Seq(Int) /\ Len(TrackData(t)) = Sectors1(t)
         /\ \A k \in 0 .. Length(t) - 1, x \in 1 .. tracks[t].datasize :
              /\ k * tracks[t].datasize + x \in 1 .. Sectors1(t)
              /\ TrackData(t)[k * tracks[t].datasize + x]
                   = tracks[t].start * Raw + k * Raw + tracks[t].datastart + x - 1
<1> DEFINE m == Length(t)
           d == tracks[t].datasize
           from == tracks[t].datastart
           start == tracks[t].start
           all == [k \in 1 .. m |-> SectorData(t, k)]
<1>1. /\ m \in Nat /\ d \in Nat \ {0} /\ from \in Nat /\ start \in Nat /\ Raw \in Nat \ {0}
      /\ Begin[t] = start * Raw /\ tracks[t].blocksize = Raw
  BY TrackFacts
<1>2. TrackData(t) = FlattenSeq(all)
  BY DEF TrackData
<1>3. \A k \in 1 .. m : all[k] = [b \in 1 .. d |-> start * Raw + (k - 1) * Raw + from + b - 1]
  BY <1>1 DEF SectorData
<1> HIDE DEF all, m, d, from, start
<1>4. \A k \in 1 .. m : all[k] \in Seq(Int) /\ Len(all[k]) = d
  <2> TAKE k \in 1 .. m
  <2> DEFINE o == start * Raw + (k - 1) * Raw
  <2>1. o \in Int
    BY <1>1
  <2>2. all[k] = [b \in 1 .. d |-> o + from + b - 1]
    BY <1>3
  <2> HIDE DEF o
  <2>3. \A b \in 1 .. d : o + from + b - 1 \in Int
    BY <1>1, <2>1
  <2> QED BY <1>1, <2>2, <2>3
<1>5. all \in Seq(Seq(Int)) /\ Len(all) = m
  <2>1. all = [k \in 1 .. m |-> all[k]]
    BY DEF all
  <2>2. \A k \in 1 .. m : all[k] \in Seq(Int)
    BY <1>4
  <2>3. [k \in 1 .. m |-> all[k]] \in Seq(Seq(Int)) /\ Len([k \in 1 .. m |-> all[k]]) = m
    <3> DEFINE q == [k \in 1 .. m |-> all[k]]
    <3>1. q \in [1 .. m -> Seq(Int)]
      BY <2>2
    <3>2. q \in Seq(Seq(Int))
      <4> HIDE DEF q
      <4> QED BY <1>1, <3>1
    <3> QED BY <1>1, <3>2
  <2> QED BY <2>1, <2>3, Zenon
<1>6. FlattenSeq(all) = Row(all, d, m)
  <2>1. \A k \in 1 .. Len(all) : Len(all[k]) = d
    BY <1>4, <1>5
  <2> QED BY <1>1, <1>5, <2>1, FlattenOfPieces
<1>7. m * d \in Nat
  BY <1>1
<1>8. \A y \in 1 .. m * d : Piece(y, d) \in 0 .. m - 1 /\ Within(y, d) \in 0 .. d - 1
                            /\ y = Piece(y, d) * d + Within(y, d) + 1
  <2> TAKE y \in 1 .. m * d
  <2> DEFINE p == Piece(y, d)
             w == Within(y, d)
             pd == p * d
  <2>1. y \in Nat \ {0} /\ y <= m * d
    BY <1>7
  <2>2. p \in Nat /\ w \in 0 .. d - 1 /\ y = pd + w + 1
    BY <1>1, <2>1, PlaceOf
  <2> HIDE DEF p, w
  <2>3. ~(m <= p)
    <3>1. ASSUME m <= p PROVE FALSE
      <4>1. p * d = m * d + (p - m) * d /\ (p - m) * d \in Nat
        BY <1>1, <2>2, <3>1
      <4>2. p * d \in Nat
        BY <1>1, <2>2
      <4> DEFINE u == p * d
                 v == m * d
                 z == (p - m) * d
      <4>3. u \in Nat /\ v \in Nat /\ z \in Nat /\ u = v + z /\ y = u + w + 1 /\ y <= v
        BY <1>7, <2>1, <2>2, <4>1, <4>2
      <4> HIDE DEF u, v, z
      <4> QED BY <1>1, <2>1, <2>2, <4>3
    <3> QED BY <3>1
  <2> QED BY <1>1, <2>2, <2>3 DEF p, w
<1>9. \A y \in 1 .. m * d : all[Piece(y, d) + 1][Within(y, d) + 1] \in Int
  <2> TAKE y \in 1 .. m * d
  <2>1. Piece(y, d) + 1 \in 1 .. m /\ Within(y, d) + 1 \in 1 .. d
    BY <1>1, <1>8
  <2> QED BY <1>4, <2>1
<1>10. FlattenSeq(all) \in Seq(Int) /\ Len(FlattenSeq(all)) = m * d
  BY <1>6, <1>7, <1>9 DEF Row
<1>11. ASSUME NEW k \in 0 .. m - 1, NEW x \in 1 .. d
       PROVE  /\ k * d + x \in 1 .. m * d
              /\ FlattenSeq(all)[k * d + x] = start * Raw + k * Raw + from + x - 1
  <2> DEFINE kd == k * d
             y == kd + x
  <2>1. kd \in Nat /\ k \in Nat
    BY <1>1
  <2>2. m * d = kd + d + (m - k - 1) * d /\ (m - k - 1) * d \in Nat
    BY <1>1
  <2>3. y \in 1 .. m * d
    <3> DEFINE v == m * d
               z == (m - k - 1) * d
    <3>1. v \in Nat /\ z \in Nat /\ v = kd + d + z
      BY <1>7, <2>2
    <3> HIDE DEF kd, v, z
    <3>2. y \in 1 .. v
      BY <1>1, <2>1, <3>1
    <3> QED BY <3>2 DEF v
  <2>4. Piece(y, d) = k /\ Within(y, d) = x - 1
    <3>1. Piece(y, d) \in Nat /\ Within(y, d) \in 0 .. d - 1 /\ x - 1 \in 0 .. d - 1
          /\ y = Piece(y, d) * d + Within(y, d) + 1
      BY <1>1, <1>8, <2>3
    <3> DEFINE p == Piece(y, d)
               w == Within(y, d)
               pd == p * d
    <3>2. pd \in Nat
      BY <1>1, <3>1
    <3>3. pd + w = kd + (x - 1)
      <4>1. kd + x = pd + w + 1 /\ w \in Nat /\ x \in Nat
        BY <1>1, <3>1
      <4> HIDE DEF kd, pd, w
      <4> QED BY <2>1, <3>2, <4>1
    <3> HIDE DEF y
    <3> DEFINE x1 == x - 1
    <3>4. p \in Nat /\ w \in 0 .. d - 1 /\ x1 \in 0 .. d - 1 /\ p * d + w = k * d + x1
      BY <3>1, <3>3
    <3> HIDE DEF p, w, x1
    <3>5. p = k /\ w = x1
      <4>1. \A i \in Nat, j \in Nat, a \in 0 .. d - 1, b \in 0 .. d - 1 :
              i * d + a = j * d + b => i = j /\ a = b
        BY <1>1, SamePlace, Zenon
      <4>2. p \in Nat /\ k \in Nat /\ w \in 0 .. d - 1 /\ x1 \in 0 .. d - 1
        BY <2>1, <3>4
      <4>3. p * d + w = k * d + x1 => p = k /\ w = x1
        BY <4>1, <4>2, Zenon
      <4> QED BY <3>4, <4>3
    <3> QED BY <3>5 DEF p, w, x1
  <2>5. FlattenSeq(all)[y] = all[k + 1][(x - 1) + 1]
    <3> HIDE DEF y
    <3> QED BY <1>6, <2>3, <2>4 DEF Row
  <2>6. k + 1 \in 1 .. m /\ (k + 1) - 1 = k /\ (x - 1) + 1 = x
    BY <1>1
  <2>7. all[k + 1] = [b \in 1 .. d |-> start * Raw + k * Raw + from + b - 1]
    BY <1>3, <2>6
  <2> QED BY <2>3, <2>5, <2>6, <2>7
<1> QED BY <1>2, <1>10, <1>11 DEF Sectors1, m, d, from, start

LEMMA SizesAre ==
  ASSUME image \in Images, OfRawSectors(image)
  PROVE  /\ Data \in Seq(Nat) /\ File \in Seq(Nat) /\ Lens \in Seq(Nat)
         /\ Len(Data) = Len(tracks) /\ Len(File) = Len(tracks) /\ Len(Lens) = Len(tracks)
         /\ \A t \in 1 .. Len(tracks) :
              /\ Data[t] = tracks[t].sec_count * tracks[t].datasize
              /\ File[t] = tracks[t].sec_count * Raw
              /\ Lens[t] = Sectors1(t)
<1> DEFINE N == Len(tracks)
<1>1. /\ N \in Nat /\ DOMAIN tracks = 1 .. N
      /\ \A t \in 1 .. N : /\ tracks[t].sec_count \in Nat /\ tracks[t].datasize \in Nat /\ Raw \in Nat
                           /\ Length(t) \in Nat /\ tracks[t].blocksize = Raw
  BY TrackFacts
<1>2. \A a \in Nat, b \in Nat : a * b \in Nat
  OBVIOUS
<1>3. \A t \in 1 .. N : /\ tracks[t].sec_count * tracks[t].datasize \in Nat
                        /\ tracks[t].sec_count * Raw \in Nat /\ Sectors1(t) \in Nat
  BY <1>1, <1>2, Zenon DEF Sectors1
<1>4. \A f : f \in [1 .. N -> Nat] => f \in Seq(Nat) /\ Len(f) = N
  <2> HIDE DEF N
  <2> QED BY <1>1
<1>5. \A t \in 1 .. N : /\ Data[t] = tracks[t].sec_count * tracks[t].datasize
                        /\ File[t] = tracks[t].sec_count * Raw
                        /\ Lens[t] = Sectors1(t)
  BY <1>1, Zenon DEF Data, File, Lens
<1>6. Data \in [1 .. N -> Nat]
  BY <1>1, <1>3, Zenon DEF Data
<1>7. File \in [1 .. N -> Nat]
  <2>1. \A t \in 1 .. N : tracks[t].sec_count * tracks[t].blocksize \in Nat
    BY <1>1, <1>3, Zenon
  <2> QED BY <1>1, <2>1, Zenon DEF File
<1>8. Lens \in [1 .. N -> Nat]
  BY <1>1, <1>3, Zenon DEF Lens
<1> QED BY <1>4, <1>5, <1>6, <1>7, <1>8, Zenon

(* Where a track starts, when the ones before it count all their sectors.  *)
LEMMA TracksCounted ==
  ASSUME image \in Images, OfRawSectors(image), NEW t \in DOMAIN tracks, tracks[1].start = 0,
         \A u \in 1 .. t - 1 : tracks[u].sec_count = Length(u)
  PROVE  SumBefore(File, t) = tracks[t].start * Raw /\ SumBefore(Data, t) = SumBefore(Lens, t)
<1> DEFINE N == Len(tracks)
           F(u) == SumBefore(File, u)
           start(u) == tracks[u].start
           Bad == {u \in 1 .. t : F(u) # start(u) * Raw}
<1>1. /\ N \in Nat /\ t \in 1 .. N /\ Raw \in Nat \ {0}
      /\ \A u \in 1 .. N :
           /\ start(u) \in Nat /\ Length(u) \in Nat
           /\ u < N => start(u + 1) = start(u) + Length(u)
  BY TrackFacts
<1>2. /\ Data \in Seq(Nat) /\ File \in Seq(Nat) /\ Lens \in Seq(Nat)
      /\ Len(Data) = N /\ Len(File) = N /\ Len(Lens) = N
      /\ \A u \in 1 .. N : /\ Data[u] = tracks[u].sec_count * tracks[u].datasize
                           /\ File[u] = tracks[u].sec_count * Raw
                           /\ Lens[u] = Sectors1(u)
  BY SizesAre
<1>3. F(1) = 0 /\ \A u \in 1 .. N : F(u + 1) = F(u) + File[u]
  BY <1>2, SumsAre
<1> HIDE DEF N, F
<1>4. SumBefore(Data, t) = SumBefore(Lens, t)
  <2>1. \A u \in 1 .. t - 1 : Data[u] = Lens[u]
    <3> TAKE u \in 1 .. t - 1
    <3>1. u \in 1 .. N
      BY <1>1
    <3> QED BY <1>2, <3>1 DEF Sectors1
  <2>2. t \in 1 .. Len(Data) + 1 /\ t \in 1 .. t
    BY <1>1, <1>2
  <2> QED BY <1>2, <2>1, <2>2, SumsAgree
<1>5. ASSUME Bad # {} PROVE FALSE
  <2>1. Bad \in SUBSET Nat
    BY <1>1
  <2>2. PICK m \in Bad : \A k \in Bad : m <= k
    BY <1>5, <2>1, LeastNatural
  <2>3. m \in 1 .. t /\ F(m) # start(m) * Raw
    BY <2>2
  <2>4. m # 1
    <3>1. start(1) * Raw = 0
      <4>1. start(1) = 0
        OBVIOUS
      <4> HIDE DEF start
      <4> QED BY <1>1, <4>1
    <3> QED BY <1>3, <2>3, <3>1
  <2> DEFINE u == m - 1
  <2>5. u \in 1 .. N /\ u \in 1 .. t - 1 /\ u \in 1 .. t /\ u + 1 = m /\ u < N /\ ~(m <= u)
    BY <1>1, <2>3, <2>4
  <2> HIDE DEF u
  <2>6. F(u) = start(u) * Raw
    BY <2>2, <2>5
  <2>7. File[u] = Length(u) * Raw
    BY <1>2, <2>5
  <2>8. start(m) = start(u) + Length(u) /\ start(u) \in Nat /\ Length(u) \in Nat
    <3> HIDE DEF start
    <3>1. start(u + 1) = start(u) + Length(u)
      BY <1>1, <2>5
    <3> QED BY <1>1, <2>5, <3>1
  <2>9. F(m) = F(u) + File[u]
    <3>1. F(u + 1) = F(u) + File[u]
      BY <1>3, <2>5
    <3> QED BY <2>5, <3>1
  <2>10. \A a \in Nat, b \in Nat : a * Raw + b * Raw = (a + b) * Raw
    BY <1>1
  <2>11. start(u) * Raw + Length(u) * Raw = start(m) * Raw
    <3> HIDE DEF start
    <3> QED BY <2>8, <2>10, Zenon
  <2>12. F(m) = start(u) * Raw + Length(u) * Raw
    BY <2>6, <2>7, <2>9, Zenon
  <2> QED BY <2>3, <2>11, <2>12, Zenon
<1>6. t \notin Bad
  BY <1>5
<1>7. t \in 1 .. t
  BY <1>1
<1> QED BY <1>4, <1>6, <1>7 DEF F

(* Byte x of sector k of track u, in the data of the image.                *)
LEMMA ImageDataIs ==
  ASSUME image \in Images, OfRawSectors(image)
  PROVE  /\ ImageData \in Seq(Int) /\ Len(ImageData) = SumBefore(Lens, Len(tracks) + 1)
         /\ \A u \in 1 .. Len(tracks) :
            \A k \in 0 .. Length(u) - 1, x \in 1 .. tracks[u].datasize :
              ImageData[SumBefore(Lens, u) + (k * tracks[u].datasize + x)]
                = tracks[u].start * Raw + k * Raw + tracks[u].datastart + x - 1
<1> DEFINE N == Len(tracks)
           seqs == [t \in DOMAIN tracks |-> TrackData(t)]
<1>1. N \in Nat \ {0} /\ DOMAIN tracks = 1 .. N
  BY TrackFacts
<1>2. /\ Lens \in Seq(Nat) /\ Len(Lens) = N /\ \A u \in 1 .. N : Lens[u] = Sectors1(u)
  BY SizesAre
<1>3. \A u \in 1 .. N :
        /\ TrackData(u) \in Seq(Int) /\ Len(TrackData(u)) = Sectors1(u)
        /\ \A k \in 0 .. Length(u) - 1, x \in 1 .. tracks[u].datasize :
              /\ k * tracks[u].datasize + x \in 1 .. Sectors1(u)
              /\ TrackData(u)[k * tracks[u].datasize + x]
                   = tracks[u].start * Raw + k * Raw + tracks[u].datastart + x - 1
  BY <1>1, DataOfTrack
<1>4. \A u \in 1 .. N : seqs[u] = TrackData(u)
  BY <1>1
<1>5. seqs \in Seq(Seq(Int)) /\ Len(seqs) = N /\ seqs # << >>
  <2>1. seqs \in [1 .. N -> Seq(Int)]
    BY <1>1, <1>3
  <2> HIDE DEF seqs, N
  <2>2. seqs \in Seq(Seq(Int)) /\ Len(seqs) = N
    BY <1>1, <2>1
  <2> QED BY <1>1, <2>2
<1>6. ImageData = FlattenSeq(seqs)
  BY DEF ImageData
<1> HIDE DEF seqs, N
<1>7. /\ FlattenSeq(seqs) \in Seq(Int) /\ Len(FlattenSeq(seqs)) = SumBefore(Lens, Len(seqs) + 1)
      /\ \A t \in 1 .. Len(seqs) : \A x \in 1 .. Lens[t] :
           FlattenSeq(seqs)[SumBefore(Lens, t) + x] = seqs[t][x]
  <2>1. \A t \in 1 .. Len(seqs) : Len(seqs[t]) = Lens[t]
    BY <1>2, <1>3, <1>4, <1>5
  <2>2. Len(Lens) = Len(seqs)
    BY <1>2, <1>5
  <2> QED BY <1>2, <1>5, <2>1, <2>2, FlattenOfParts
<1>8. ASSUME NEW u \in 1 .. N, NEW k \in 0 .. Length(u) - 1, NEW x \in 1 .. tracks[u].datasize
      PROVE  ImageData[SumBefore(Lens, u) + (k * tracks[u].datasize + x)]
               = tracks[u].start * Raw + k * Raw + tracks[u].datastart + x - 1
  <2> DEFINE y == k * tracks[u].datasize + x
             val == tracks[u].start * Raw + k * Raw + tracks[u].datastart + x - 1
  <2>1. y \in 1 .. Lens[u] /\ TrackData(u)[y] = val
    BY <1>2, <1>3, Zenon
  <2> HIDE DEF y, val
  <2>2. ImageData[SumBefore(Lens, u) + y] = seqs[u][y]
    BY <1>5, <1>6, <1>7, <2>1
  <2>3. seqs[u][y] = val
    BY <1>4, <2>1
  <2> QED BY <2>2, <2>3 DEF y, val
<1> QED BY <1>5, <1>6, <1>7, <1>8 DEF N

LEMMA Fits ==
  ASSUME NEW a \in Nat, NEW b \in Nat, NEW r \in Nat, NEW n \in Nat, NEW d \in Nat, NEW m \in Nat,
         NEW all \in Nat, r + n <= d, b + d <= m, a + m <= all
  PROVE  a + b + r \in Nat /\ a + b + r + n <= all
OBVIOUS

LEMMA SmallerIs ==
  ASSUME NEW a \in Nat, NEW b \in Nat, a <= b
  PROVE  Smaller(a, b) = a
BY DEF Smaller

LEMMA ByteAt ==
  ASSUME NEW a \in Nat, NEW c \in Nat, NEW r \in Nat, NEW n \in Nat, NEW d \in Nat, NEW b \in 1 .. n, r + n <= d
  PROVE  r + b \in 1 .. d /\ a + c + r + b = a + (c + (r + b)) /\ a + c + (r + b) - 1 = a + c + r + b - 1
OBVIOUS

LEMMA AtMost ==
  ASSUME NEW a \in Nat, NEW b \in Nat, NEW c \in Nat, NEW d \in Nat, a + b <= c, c <= d
  PROVE  a + b <= d
OBVIOUS

LEMMA Numbered ==
  ASSUME NEW n \in Nat, NEW i \in 1 .. n
  PROVE  i + 1 \in 1 .. n + 1 /\ n + 1 \in 1 .. n + 1 /\ i \in 1 .. n + 1 /\ i + 1 <= n + 1
OBVIOUS

LEMMA PartIs ==
  ASSUME NEW s, NEW at \in Nat, NEW n \in Nat
  PROVE  SubSeq(s, at + 1, at + n) = [b \in 1 .. n |-> s[at + b]]
<1>1. SubSeq(s, at + 1, at + n) = [b \in 1 .. (at + n) - (at + 1) + 1 |-> s[(at + 1) + b - 1]]
  OBVIOUS
<1>2. (at + n) - (at + 1) + 1 = n /\ \A b \in 1 .. n : (at + 1) + b - 1 = at + b
  OBVIOUS
<1> QED BY <1>1, <1>2

(* Bytes within sector k of track u, in the file and in the data.          *)
LEMMA InSector ==
  ASSUME image \in Images, OfRawSectors(image), NEW u \in 1 .. Len(tracks), NEW k \in Nat, k < Length(u),
         NEW r \in Nat, NEW n \in Nat, r + n <= tracks[u].datasize
  PROVE  \A at, o :
           /\ at = SumBefore(Lens, u) + k * tracks[u].datasize + r
           /\ o = tracks[u].start * Raw + k * Raw + tracks[u].datastart + r
           => Bytes(o, n) = SubSeq(ImageData, at + 1, Smaller(at + n, Len(ImageData)))
<1> DEFINE N == Len(tracks)
           S(t) == SumBefore(Lens, t)
           d == tracks[u].datasize
           from == tracks[u].datastart
           m == Length(u)
           start == tracks[u].start
           total == Len(ImageData)
           kd == k * d
           place == start * Raw + k * Raw
           at == S(u) + kd + r
           o == place + from + r
<1>1. /\ N \in Nat /\ u \in 1 .. N /\ d \in Nat \ {0} /\ from \in Nat /\ from + d <= Raw /\ m \in Nat
      /\ start \in Nat /\ start + m <= lead /\ lead \in Nat /\ Raw \in Nat
      /\ image.size \in Nat /\ lead * Raw <= image.size
  BY TrackFacts
<1>2. /\ total = S(N + 1)
      /\ \A x \in 1 .. d : ImageData[S(u) + (kd + x)] = place + from + x - 1
  <2>1. k \in 0 .. m - 1
    BY <1>1
  <2> QED BY <1>1, <2>1, ImageDataIs, Zenon
<1>3. /\ S(u) \in Nat /\ S(u) + m * d = S(u + 1) /\ S(u + 1) \in Nat /\ S(N + 1) \in Nat
      /\ S(u + 1) <= S(N + 1)
  <2>1. Lens \in Seq(Nat) /\ Len(Lens) = N /\ Lens[u] = m * d
    BY SizesAre DEF Sectors1
  <2> HIDE DEF N, m, d
  <2>2. u \in 1 .. Len(Lens) /\ u + 1 \in 1 .. Len(Lens) + 1 /\ N + 1 \in 1 .. Len(Lens) + 1
        /\ u \in 1 .. Len(Lens) + 1 /\ u + 1 <= N + 1
    BY <1>1, <2>1, Numbered, Zenon
  <2>3. S(u) \in Nat /\ S(u + 1) = S(u) + Lens[u] /\ S(u + 1) \in Nat /\ S(N + 1) \in Nat
    BY <2>1, <2>2, SumsAre
  <2>4. S(u + 1) <= S(N + 1)
    BY <2>1, <2>2, SumsGrow
  <2> QED BY <2>1, <2>3, <2>4
<1>4. kd \in Nat /\ kd + d <= m * d
  <2>0. k < m /\ m \in Nat
    BY <1>1
  <2> HIDE DEF d, m
  <2>1. m - k - 1 \in Nat /\ k < m
    BY <2>0
  <2>2. m * d = kd + d + (m - k - 1) * d /\ (m - k - 1) * d \in Nat /\ kd \in Nat /\ m * d \in Nat
    BY <1>1, <2>1
  <2> DEFINE v == m * d
             z == (m - k - 1) * d
  <2>3. v = kd + d + z /\ z \in Nat /\ kd \in Nat /\ v \in Nat
    BY <2>2
  <2> HIDE DEF v, z, kd
  <2>4. kd + d <= v
    BY <1>1, <2>3
  <2> QED BY <2>3, <2>4 DEF v
<1>5. place \in Nat /\ place + Raw <= lead * Raw
  <2> HIDE DEF start, m
  <2>1. start + k + 1 \in Nat /\ lead - (start + k + 1) \in Nat
    BY <1>1 DEF m
  <2>2. /\ lead * Raw = place + Raw + (lead - (start + k + 1)) * Raw
        /\ (lead - (start + k + 1)) * Raw \in Nat /\ place \in Nat /\ lead * Raw \in Nat
    BY <1>1, <2>1
  <2> DEFINE v == lead * Raw
             z == (lead - (start + k + 1)) * Raw
  <2>3. v = place + Raw + z /\ z \in Nat /\ place \in Nat /\ v \in Nat
    BY <2>2
  <2> HIDE DEF v, z, place
  <2>4. place + Raw <= v
    BY <1>1, <2>3
  <2> QED BY <2>3, <2>4 DEF v
<1>6. at = S(u) + kd + r /\ o = place + from + r /\ r + n <= d
  OBVIOUS
<1> DEFINE md == m * d
           bytes == lead * Raw
<1>7. md \in Nat /\ bytes \in Nat
  <2> HIDE DEF m, d
  <2> QED BY <1>1
<1>8. /\ S(u) + md = S(u + 1) /\ kd + d <= md /\ place + Raw <= bytes /\ bytes <= image.size
  BY <1>1, <1>3, <1>4, <1>5
<1>a. /\ S(u) \in Nat /\ kd \in Nat /\ place \in Nat /\ from \in Nat /\ d \in Nat /\ Raw \in Nat
      /\ S(u + 1) \in Nat /\ S(N + 1) \in Nat /\ S(u + 1) <= S(N + 1) /\ total = S(N + 1)
      /\ from + d <= Raw /\ image.size \in Nat
  BY <1>1, <1>2, <1>3, <1>4, <1>5, Zenon
<1> HIDE DEF md, bytes, kd, place, d, m, start, from, S, N, total, at, o
<1>9. /\ at \in Nat /\ o \in Nat /\ at + n <= total /\ o + n <= image.size /\ Smaller(at + n, total) = at + n
  <2>1. S(u) + md <= total /\ total \in Nat
    BY <1>a, <1>8, Zenon
  <2>2. at \in Nat /\ at + n <= total /\ Smaller(at + n, total) = at + n
    <3>1. /\ S(u) \in Nat /\ kd \in Nat /\ r \in Nat /\ n \in Nat /\ d \in Nat /\ md \in Nat /\ total \in Nat
          /\ r + n <= d /\ kd + d <= md /\ S(u) + md <= total
      BY <1>a, <1>6, <1>7, <1>8, <2>1, Zenon
    <3>2. /\ S(u) + kd + r \in Nat /\ S(u) + kd + r + n <= total
          /\ Smaller(S(u) + kd + r + n, total) = S(u) + kd + r + n
      <4> DEFINE su == S(u)
      <4>1. /\ su \in Nat /\ kd \in Nat /\ d \in Nat /\ md \in Nat /\ total \in Nat
            /\ r + n <= d /\ kd + d <= md /\ su + md <= total
        BY <3>1, Zenon
      <4> HIDE DEF su
      <4>2. /\ su + kd + r \in Nat /\ su + kd + r + n <= total
            /\ Smaller(su + kd + r + n, total) = su + kd + r + n
        <5>1. su + kd + r \in Nat /\ su + kd + r + n \in Nat
          BY <4>1
        <5>2. su + kd + r + n <= total
          BY <4>1
        <5>3. Smaller(su + kd + r + n, total) = su + kd + r + n
          BY <4>1, <5>1, <5>2, SmallerIs, Zenon
        <5> QED BY <5>1, <5>2, <5>3
      <4> QED BY <4>2, Zenon DEF su
    <3> QED BY <3>2, Zenon DEF at
  <2>3. place + Raw <= image.size
    BY <1>a, <1>7, <1>8, AtMost, Zenon
  <2>4. o \in Nat /\ o + n <= image.size
    <3>1. /\ place \in Nat /\ from \in Nat /\ r \in Nat /\ n \in Nat /\ d \in Nat /\ Raw \in Nat /\ image.size \in Nat
          /\ r + n <= d /\ from + d <= Raw /\ place + Raw <= image.size
      BY <1>a, <1>6, <2>3, Zenon
    <3>2. place + from + r \in Nat /\ place + from + r + n <= image.size
      BY <3>1, Fits
    <3> QED BY <3>2, Zenon DEF o
  <2> QED BY <2>2, <2>4, Zenon
<1>10. Bytes(o, n) = [b \in 1 .. n |-> o + b - 1]
  BY <1>1, <1>9, BytesInFile
<1>11. Smaller(at + n, total) = at + n
  BY <1>9, Zenon
<1>12. SubSeq(ImageData, at + 1, at + n) = [b \in 1 .. n |-> ImageData[at + b]]
  BY <1>9, PartIs
<1>13. \A b \in 1 .. n : ImageData[at + b] = o + b - 1
  <2> TAKE b \in 1 .. n
  <2>1. r + b \in 1 .. d /\ at + b = S(u) + (kd + (r + b)) /\ place + from + (r + b) - 1 = o + b - 1
    <3> DEFINE su == S(u)
    <3>1. su \in Nat /\ kd \in Nat /\ place \in Nat /\ from \in Nat /\ d \in Nat /\ r + n <= d
      BY <1>a, <1>6, Zenon
    <3> HIDE DEF su
    <3>2. r + b \in 1 .. d /\ su + kd + r + b = su + (kd + (r + b))
      BY <3>1, ByteAt
    <3>3. place + from + (r + b) - 1 = place + from + r + b - 1
      BY <3>1, ByteAt
    <3> QED BY <3>2, <3>3, Zenon DEF su, at, o
  <2>2. ImageData[S(u) + (kd + (r + b))] = place + from + (r + b) - 1
    BY <1>2, <2>1
  <2> QED BY <2>1, <2>2
<1>14. Bytes(o, n) = SubSeq(ImageData, at + 1, Smaller(at + n, Len(ImageData)))
  BY <1>10, <1>11, <1>12, <1>13 DEF total
<1> QED BY <1>14, Zenon DEF at, o, kd, place, d, start, from, S

(* At the end of the image there is nothing to read.                       *)
LEMMA AtTheEnd ==
  ASSUME image \in Images, OfRawSectors(image), NEW n \in Nat, NEW o \in Nat, o >= image.size,
         NEW at, at = Len(ImageData)
  PROVE  Bytes(o, n) = SubSeq(ImageData, at + 1, Smaller(at + n, Len(ImageData)))
<1>1. image.size \in Nat /\ at \in Nat
  <2>1. image.size \in Nat /\ ImageData \in Seq(Int)
    BY TrackFacts, ImageDataIs, Zenon
  <2> QED BY <2>1
<1>2. Bytes(o, n) = << >>
  <2> DEFINE room == IF o < image.size THEN image.size - o ELSE 0
             few == Smaller(n, room)
  <2>1. few = 0
    BY <1>1 DEF Smaller
  <2>2. Bytes(o, n) = [k \in 1 .. few |-> o + k - 1]
    BY DEF Bytes
  <2> HIDE DEF few
  <2> QED BY <2>1, <2>2
<1>3. Smaller(at + n, Len(ImageData)) = at
  BY <1>1 DEF Smaller
<1>4. SubSeq(ImageData, at + 1, at) = << >>
  BY <1>1
<1> QED BY <1>2, <1>3, <1>4

(* The track in which _lseek_bincue resolves the offset off.               *)
Reached(t, off) == off <= SumBefore(Data, t + 1) /\ (t > 1 => SumBefore(Data, t) < off)

(* Which sector of the track it is, where the bytes start there, and that  *)
(* none of the tracks passed over, nor this one, has more in the data.     *)
LEMMA SeekPlace ==
  ASSUME image \in Images, OfRawSectors(image), NEW off \in Nat, NEW t \in DOMAIN tracks,
         Reached(t, off), Counted(off)
  PROVE  \E k \in 0 .. Length(t), r \in 0 .. tracks[t].datasize - 1 :
           /\ r = (off - SumBefore(Data, t)) % tracks[t].datasize
           /\ off = SumBefore(Lens, t) + k * tracks[t].datasize + r
           /\ RealOffset(t, off - SumBefore(Data, t))
                = tracks[t].start * Raw + k * Raw + tracks[t].datastart + r
           /\ k = Length(t) => r = 0 /\ off = SumBefore(Data, t + 1)
<1> DEFINE N == Len(tracks)
           D(u) == SumBefore(Data, u)
           d == tracks[t].datasize
           sec == tracks[t].sec_count
           m == Length(t)
           o == off - D(t)
           k == o \div d
           r == o % d
<1>1. /\ N \in Nat /\ t \in 1 .. N /\ d \in Nat \ {0} /\ sec \in Nat /\ m \in Nat /\ Raw \in Nat
      /\ tracks[t].start \in Nat /\ tracks[t].datastart \in Nat /\ tracks[t].blocksize = Raw
  BY TrackFacts
<1>2. Data \in Seq(Nat) /\ Len(Data) = N /\ Data[t] = sec * d
  BY <1>1, SizesAre
<1>3. /\ D(1) = 0 /\ D(t) \in Nat /\ D(t + 1) = D(t) + sec * d
      /\ \A u \in 1 .. N + 1 : u <= t => D(u) <= D(t) /\ D(u) \in Nat
  <2>1. t \in 1 .. Len(Data) /\ t \in 1 .. Len(Data) + 1
    BY <1>1, <1>2, Numbered, Zenon
  <2>2. D(1) = 0 /\ (\A u \in 1 .. N + 1 : D(u) \in Nat) /\ D(t + 1) = D(t) + Data[t]
    BY <1>2, <2>1, SumsAre
  <2>3. \A u \in 1 .. N + 1 : u <= t => D(u) <= D(t)
    <3> TAKE u \in 1 .. N + 1
    <3> QED BY <1>2, <2>1, SumsGrow
  <2> QED BY <1>2, <2>1, <2>2, <2>3, Zenon
<1>4. off <= D(t + 1) /\ (t > 1 => D(t) < off)
  BY DEF Reached
<1>5. /\ tracks[1].start = 0 /\ sec <= m
      /\ \A u \in DOMAIN tracks : D(u + 1) < off => tracks[u].sec_count = Length(u)
  BY DEF Counted
<1>6. \A u \in 1 .. t - 1 : tracks[u].sec_count = Length(u)
  <2> TAKE u \in 1 .. t - 1
  <2>1. u \in 1 .. N /\ u + 1 \in 1 .. N + 1 /\ u + 1 <= t /\ t > 1
    <3> HIDE DEF N
    <3> QED BY <1>1
  <2>2. u \in DOMAIN tracks
    BY <2>1, TrackFacts
  <2>3. D(u + 1) <= D(t) /\ D(u + 1) \in Nat
    BY <1>3, <2>1
  <2>4. D(u + 1) < off
    <3> HIDE DEF D
    <3> QED BY <1>3, <1>4, <2>1, <2>3
  <2> QED BY <1>5, <2>2, <2>4
<1>7. SumBefore(File, t) = tracks[t].start * Raw /\ D(t) = SumBefore(Lens, t)
  BY <1>5, <1>6, TracksCounted
<1> DEFINE all == sec * d
<1>8. o \in Nat /\ o <= all /\ all \in Nat
  <2>1. all \in Nat
    BY <1>1
  <2> HIDE DEF all, D, N
  <2>2. D(t + 1) = D(t) + all
    BY <1>3 DEF all
  <2>3. D(t) <= off
    <3>1. CASE t = 1
      BY <1>3, <3>1
    <3>2. CASE t # 1
      <4>1. t > 1
        BY <1>1, <3>2
      <4> QED BY <1>3, <1>4, <4>1
    <3> QED BY <3>1, <3>2
  <2> QED BY <1>3, <1>4, <2>1, <2>2, <2>3
<1>9. k \in Nat /\ r \in 0 .. d - 1 /\ o = k * d + r
  <2> HIDE DEF o, d
  <2> QED BY <1>1, <1>8, Division
<1> DEFINE kd == k * d
           md == m * d
<1>10. all <= md /\ kd \in Nat /\ md \in Nat /\ kd <= all
  <2>1. m - sec \in Nat
    BY <1>1, <1>5
  <2>2. md = all + (m - sec) * d /\ (m - sec) * d \in Nat
    <3> HIDE DEF d, m, sec
    <3> QED BY <1>1, <2>1
  <2>3. kd \in Nat /\ md \in Nat
    <3> HIDE DEF k, d, m, r, o
    <3> QED BY <1>1, <1>9
  <2> DEFINE z == (m - sec) * d
  <2>4. md = all + z /\ z \in Nat /\ o = kd + r
    BY <1>9, <2>2, Zenon
  <2>5. r \in Nat
    <3> HIDE DEF r, k, o
    <3> QED BY <1>1, <1>9
  <2> HIDE DEF z, kd, md, all, o, r
  <2> QED BY <1>8, <2>3, <2>4, <2>5
<1>11. k <= m
  <2> SUFFICES ASSUME ~(k <= m) PROVE FALSE
    OBVIOUS
  <2> HIDE DEF k, d, m, r, o
  <2>1. k - m - 1 \in Nat /\ kd = md + d + (k - m - 1) * d
    BY <1>1, <1>9
  <2>2. (k - m - 1) * d \in Nat
    BY <1>1, <2>1
  <2> DEFINE z == (k - m - 1) * d
  <2>3. kd = md + d + z /\ z \in Nat
    BY <2>1, <2>2
  <2> HIDE DEF z, kd, md, all
  <2> QED BY <1>1, <1>8, <1>10, <2>3
<1>12. off = SumBefore(Lens, t) + kd + r
  <2>1. o = off - SumBefore(Lens, t) /\ SumBefore(Lens, t) \in Nat
    BY <1>3, <1>7
  <2>2. o = kd + r /\ kd \in Nat /\ r \in Nat /\ o \in Nat
    BY <1>8, <1>9, <1>10
  <2> HIDE DEF o, kd, r
  <2> QED BY <2>1, <2>2
<1>13. RealOffset(t, o) = tracks[t].start * Raw + k * Raw + tracks[t].datastart + r
  <2>1. RealOffset(t, o) = tracks[t].start * Raw + k * Raw + r + tracks[t].datastart
    BY <1>1, <1>7 DEF RealOffset
  <2> DEFINE a == tracks[t].start * Raw
             b == k * Raw
             c == tracks[t].datastart
  <2>2. a \in Nat
    BY <1>1
  <2>3. b \in Nat /\ r \in Nat
    <3> HIDE DEF k, r
    <3> QED BY <1>1, <1>9
  <2>4. c \in Nat
    BY <1>1
  <2> HIDE DEF a, b, c, r
  <2>5. a + b + r + c = a + b + c + r
    BY <2>2, <2>3, <2>4
  <2> QED BY <2>1, <2>5 DEF a, b, c
<1>14. ASSUME k = m PROVE r = 0 /\ off = D(t + 1)
  <2>1. kd = md
    BY <1>14
  <2>2. o = kd + r /\ r \in Nat
    BY <1>9
  <2>3. D(t + 1) = D(t) + all /\ D(t) \in Nat /\ o = off - D(t)
    BY <1>3
  <2> HIDE DEF kd, md, all, o, r, D
  <2> QED BY <1>8, <1>10, <2>1, <2>2, <2>3
<1>15. k \in 0 .. m
  BY <1>1, <1>9, <1>11
<1> QED BY <1>9, <1>12, <1>13, <1>14, <1>15, Zenon

LEMMA Distributes ==
  ASSUME NEW a \in Nat, NEW b \in Nat, NEW c \in Nat
  PROVE  a * c + b * c = (a + b) * c /\ (a + b) * c \in Nat /\ a * c \in Nat /\ 0 * c = 0
OBVIOUS

LEMMA SeekReads ==
  ASSUME image \in Images, OfRawSectors(image), NEW off \in Nat, NEW n \in Nat, NEW t \in DOMAIN tracks,
         Reached(t, off), Counted(off), ~Between(off),
         ((off - SumBefore(Data, t)) % tracks[t].datasize) + n <= tracks[t].datasize
  PROVE  Bytes(RealOffset(t, off - SumBefore(Data, t)), n)
           = SubSeq(ImageData, off + 1, Smaller(off + n, Len(ImageData)))
<1> DEFINE N == Len(tracks)
           d == tracks[t].datasize
           m == Length(t)
           place == RealOffset(t, off - SumBefore(Data, t))
           L(u) == SumBefore(Lens, u)
<1>1. /\ N \in Nat /\ t \in 1 .. N /\ DOMAIN tracks = 1 .. N /\ lead \in Nat /\ Raw \in Nat /\ image.size \in Nat
      /\ \A u \in 1 .. N :
           /\ tracks[u].start \in Nat /\ tracks[u].datastart \in Nat /\ tracks[u].datasize \in Nat \ {0}
           /\ Length(u) \in Nat
           /\ u = N => tracks[u].start + Length(u) = lead
           /\ u < N => tracks[u + 1].start = tracks[u].start + Length(u) /\ Length(u) # 0
  BY TrackFacts
<1>2. PICK k \in 0 .. m, r \in 0 .. d - 1 :
        /\ r = (off - SumBefore(Data, t)) % d
        /\ off = L(t) + k * d + r
        /\ place = tracks[t].start * Raw + k * Raw + tracks[t].datastart + r
        /\ k = m => r = 0 /\ off = SumBefore(Data, t + 1)
  BY SeekPlace
<1>3. r + n <= d /\ k \in Nat /\ r \in Nat
  <2>1. r + n <= d
    BY <1>2
  <2>2. m \in Nat /\ d \in Nat
    BY <1>1
  <2> HIDE DEF d, m
  <2> QED BY <2>1, <2>2
<1>4. Lens \in Seq(Nat) /\ Len(Lens) = N /\ \A u \in 1 .. N : Lens[u] = Length(u) * tracks[u].datasize
  BY SizesAre DEF Sectors1
<1>5. /\ \A u \in 1 .. N : L(u + 1) = L(u) + Lens[u]
      /\ \A u \in 1 .. N + 1 : L(u) \in Nat
  BY <1>4, SumsAre
<1>6. Len(ImageData) = L(N + 1)
  BY ImageDataIs, Zenon
<1>7. lead * Raw = image.size
  BY DEF Counted
<1>8. CASE k < m
  <2>1. Bytes(place, n) = SubSeq(ImageData, off + 1, Smaller(off + n, Len(ImageData)))
    <3>1. t \in 1 .. Len(tracks) /\ k \in Nat /\ k < Length(t) /\ r + n <= tracks[t].datasize /\ r \in Nat
      BY <1>1, <1>3, <1>8, Zenon
    <3>2. \A at, x :
            /\ at = SumBefore(Lens, t) + k * tracks[t].datasize + r
            /\ x = tracks[t].start * Raw + k * Raw + tracks[t].datastart + r
            => Bytes(x, n) = SubSeq(ImageData, at + 1, Smaller(at + n, Len(ImageData)))
      BY <3>1, InSector
    <3> QED BY <1>2, <3>2, Zenon
  <2> QED BY <2>1
<1>9. CASE k = m
  <2>1. /\ r = 0 /\ off = L(t + 1) /\ off = SumBefore(Data, t + 1)
        /\ place = (tracks[t].start + m) * Raw + tracks[t].datastart
    <3>1. r = 0 /\ off = SumBefore(Data, t + 1) /\ off = L(t) + m * d + 0
          /\ place = tracks[t].start * Raw + m * Raw + tracks[t].datastart + 0
      BY <1>2, <1>9, Zenon
    <3>2. L(t + 1) = L(t) + m * d /\ L(t) \in Nat /\ m * d \in Nat /\ tracks[t].datastart \in Nat
      <4>1. t \in 1 .. N + 1
        BY <1>1, Numbered, Zenon
      <4>2. L(t + 1) = L(t) + m * d /\ L(t) \in Nat
        BY <1>1, <1>4, <1>5, <4>1, Zenon
      <4>3. m \in Nat /\ d \in Nat
        BY <1>1
      <4>4. m * d \in Nat
        <5> HIDE DEF m, d
        <5> QED BY <4>3
      <4> QED BY <1>1, <4>2, <4>4
    <3>3. tracks[t].start * Raw + m * Raw = (tracks[t].start + m) * Raw /\ (tracks[t].start + m) * Raw \in Nat
      <4> DEFINE a == tracks[t].start
      <4>1. a \in Nat /\ m \in Nat /\ Raw \in Nat
        BY <1>1
      <4> HIDE DEF a, m
      <4>2. a * Raw + m * Raw = (a + m) * Raw /\ (a + m) * Raw \in Nat
        BY <4>1, Distributes
      <4> QED BY <4>2, Zenon DEF a
    <3> DEFINE md == m * d
               raws == (tracks[t].start + m) * Raw
               lt == L(t)
               from == tracks[t].datastart
    <3>4. off = lt + md + 0 /\ lt \in Nat /\ md \in Nat /\ place = raws + from + 0 /\ raws \in Nat /\ from \in Nat
      BY <3>1, <3>2, <3>3, Zenon
    <3> HIDE DEF md, raws, lt, from, place
    <3>5. off = lt + md /\ place = raws + from
      BY <3>4
    <3> QED BY <3>1, <3>2, <3>5, Zenon DEF md, raws, lt, from
  <2>2. ASSUME NEW from \in Nat, place = lead * Raw + from, off = L(N + 1)
        PROVE  Bytes(place, n) = SubSeq(ImageData, off + 1, Smaller(off + n, Len(ImageData)))
    <3>1. place \in Nat /\ place >= image.size
      <4>1. place = image.size + from /\ image.size \in Nat /\ from \in Nat
        BY <1>1, <1>7, <2>2, Zenon
      <4> HIDE DEF place
      <4> QED BY <4>1
    <3>2. off = Len(ImageData)
      BY <1>6, <2>2, Zenon
    <3> QED BY <3>1, <3>2, AtTheEnd, Zenon
  <2>3. CASE t = N
    <3>1. tracks[t].start + m = lead /\ tracks[t].datastart \in Nat
      BY <1>1, <2>3, Zenon
    <3> QED BY <2>1, <2>2, <2>3, <3>1, Zenon
  <2>4. CASE t # N
    <3> DEFINE u == t + 1
    <3>1. u \in 2 .. N /\ u \in 1 .. N /\ u - 1 = t /\ t < N
      <4> HIDE DEF N
      <4> QED BY <1>1, <2>4
    <3>2. tracks[u].start = tracks[t].start + m
      BY <1>1, <3>1
    <3>3. tracks[u].datastart = tracks[t].datastart /\ tracks[u].datasize = d
      <4>1. Layout(u) = Layout(t)
        <5>1. off = SumBefore(Data, u)
          BY <2>1
        <5> HIDE DEF u
        <5> QED BY <3>1, <5>1 DEF Between
      <4> QED BY <4>1 DEF Layout
    <3>4. CASE Length(u) # 0
      <4>1. 0 < Length(u) /\ 0 \in Nat
        <5>1. Length(u) \in Nat
          BY <1>1, <3>1
        <5> QED BY <3>4, <5>1
      <4>2. 0 + n <= tracks[u].datasize
        BY <1>3, <2>1, <3>3, Zenon
      <4>3. /\ off = L(u) + 0 * tracks[u].datasize + 0
            /\ place = tracks[u].start * Raw + 0 * Raw + tracks[u].datastart + 0
        <5> DEFINE a == tracks[u].datasize
                   b == tracks[u].start
                   c == tracks[u].datastart
                   lu == L(u)
        <5>1. a \in Nat /\ b \in Nat /\ c \in Nat
          BY <1>1, <3>1
        <5>2. lu \in Nat
          <6>1. u \in 1 .. N + 1
            BY <1>1, <3>1, Numbered, Zenon
          <6> QED BY <1>5, <6>1
        <5>3. off = lu /\ place = b * Raw + c
          BY <2>1, <3>2, <3>3, Zenon
        <5> HIDE DEF a, b, c, lu, place
        <5>4. off = lu + 0 * a + 0
          BY <5>1, <5>2, <5>3
        <5>5. place = b * Raw + 0 * Raw + c + 0
          <6>1. b * Raw \in Nat /\ 0 * Raw = 0
            BY <1>1, <5>1, Distributes, Zenon
          <6> DEFINE z == b * Raw
          <6> HIDE DEF z
          <6>2. place = z + 0 + c + 0
            <7>1. place = z + c /\ z \in Nat /\ c \in Nat
              BY <5>1, <5>3, <6>1 DEF z
            <7> QED BY <7>1
          <6> QED BY <6>1, <6>2, Zenon DEF z
        <5> QED BY <5>4, <5>5, Zenon DEF a, b, c, lu
      <4> HIDE DEF u
      <4>4. Bytes(place, n) = SubSeq(ImageData, off + 1, Smaller(off + n, Len(ImageData)))
        <5>1. u \in 1 .. Len(tracks)
          BY <3>1
        <5>2. \A at, x :
                /\ at = SumBefore(Lens, u) + 0 * tracks[u].datasize + 0
                /\ x = tracks[u].start * Raw + 0 * Raw + tracks[u].datastart + 0
                => Bytes(x, n) = SubSeq(ImageData, at + 1, Smaller(at + n, Len(ImageData)))
          BY <4>1, <4>2, <5>1, InSector
        <5> QED BY <4>3, <5>2, Zenon
      <4> QED BY <4>4
    <3>5. CASE Length(u) = 0
      <4>1. u = N
        <5> HIDE DEF N, u
        <5>1. ~(u < N)
          BY <1>1, <3>1, <3>5
        <5> QED BY <1>1, <3>1, <5>1
      <4>2. tracks[t].start + m = lead
        <5>1. tracks[u].start + Length(u) = lead /\ tracks[u].start \in Nat
          BY <1>1, <3>1, <4>1
        <5> QED BY <3>2, <3>5, <5>1
      <4>3. off = L(N + 1)
        <5>1. L(u + 1) = L(u) + Lens[u] /\ L(u) \in Nat /\ Lens[u] = Length(u) * tracks[u].datasize
          <6>1. u \in 1 .. N + 1
            BY <1>1, <3>1, Numbered, Zenon
          <6> QED BY <1>4, <1>5, <3>1, <6>1, Zenon
        <5>2. Length(u) * tracks[u].datasize = 0
          <6> DEFINE a == tracks[u].datasize
          <6>1. a \in Nat
            BY <1>1, <3>1
          <6> HIDE DEF a
          <6>2. 0 * a = 0
            BY <6>1
          <6> QED BY <3>5, <6>2, Zenon DEF a
        <5> DEFINE lu == L(u)
        <5>3. L(u + 1) = lu + 0 /\ lu \in Nat /\ off = lu
          BY <2>1, <5>1, <5>2, Zenon
        <5>4. lu + 0 = lu
          <6> HIDE DEF lu
          <6> QED BY <5>3
        <5> QED BY <4>1, <5>3, <5>4, Zenon
      <4>4. tracks[t].datastart \in Nat
        BY <1>1
      <4> QED BY <2>1, <2>2, <4>2, <4>3, <4>4, Zenon
    <3> QED BY <3>4, <3>5
  <2> QED BY <2>3, <2>4
<1>10. k < m \/ k = m
  <2>1. m \in Nat
    BY <1>1
  <2> HIDE DEF m
  <2> QED BY <2>1
<1> QED BY <1>8, <1>9, <1>10

-----------------------------------------------------------------------------
(* Where _lseek_bincue leaves the image for an offset that a track reaches *)
Placed(at) ==
  \E t \in DOMAIN tracks :
    /\ Reached(t, at)
    /\ offset = RealOffset(t, at - SumBefore(Data, t))
    /\ pos.index = t /\ pos.buff_offset = (at - SumBefore(Data, t)) % tracks[t].datasize

(* and that nothing moves it before the read that follows.  A read that    *)
(* goes round more than once is not one within a sector.                   *)
InOrder ==
  /\ image \in Images
  /\ (call.op = "seek" /\ cursor # Lost) => left = 0 /\ cursor \in Nat /\ Placed(cursor)
  /\ (call.op = "read" /\ left # 0) =>
       \/ call.got = << >> /\ left = call.n /\ call.n \in Nat /\ call.at \in Nat /\ Placed(call.at)
       \/ ~WithinSector(call)
  /\ ReadAfterSeek

LEMMA SameImage ==
  ASSUME image' = image
  PROVE  /\ tracks' = tracks /\ lead' = lead /\ Data' = Data /\ File' = File /\ ImageData' = ImageData
         /\ \A t : Length(t)' = Length(t)
         /\ \A t, o : RealOffset(t, o)' = RealOffset(t, o) /\ Reached(t, o)' = Reached(t, o)
<1>1. tracks' = tracks /\ lead' = lead
  BY DEF tracks, lead
<1>2. Data' = Data /\ File' = File /\ \A t : Length(t)' = Length(t)
  BY <1>1 DEF Data, File, Length
<1>3. ImageData' = ImageData
  BY DEF ImageData, TrackData, SectorData, Begin, tracks, Length, lead
<1> QED BY <1>1, <1>2, <1>3 DEF RealOffset, Reached

(* A seek that succeeds.                                                   *)
LEMMA LseekPlaces ==
  ASSUME image \in Images, OfRawSectors(image), NEW off \in Nat, Lseek(off)
  PROVE  /\ image' = image /\ left = 0 /\ left' = 0 /\ call'.op \in {"seek", "undefined"}
         /\ cursor' # Lost => cursor' = off /\ Placed(off)'
<1> DEFINE N == Len(tracks)
           reach == {t \in DOMAIN tracks : off <= SumBefore(Data, t + 1)}
           t == Min(reach)
           o == off - SumBefore(Data, t)
<1>1. /\ image' = image /\ left = 0 /\ left' = 0 /\ call'.op \in {"seek", "undefined"}
      /\ \/ cursor' = Lost
         \/ /\ reach # {} /\ cursor' = off
            /\ pos' = [lba |-> SumBefore(Count, t) + o \div tracks[t].datasize,
                       index |-> t, buff_offset |-> o % tracks[t].datasize]
            /\ offset' = RealOffset(t, o)
  BY DEF Lseek, Call, Idle
<1>2. ASSUME reach # {},
             pos' = [lba |-> SumBefore(Count, t) + o \div tracks[t].datasize,
                     index |-> t, buff_offset |-> o % tracks[t].datasize],
             offset' = RealOffset(t, o)
      PROVE  Placed(off)'
  <2>1. DOMAIN tracks = 1 .. N /\ N \in Nat
    BY TrackFacts
  <2>2. t \in reach /\ \A u \in reach : t <= u
    <3>1. reach \in SUBSET Nat
      BY <2>1
    <3>2. \E u \in reach : \A v \in reach : u <= v
      BY <1>2, <3>1, LeastNatural
    <3> HIDE DEF reach
    <3> QED BY <3>2 DEF Min
  <2>3. Reached(t, off)
    <3>1. t \in 1 .. N /\ off <= SumBefore(Data, t + 1)
      BY <2>1, <2>2
    <3>2. ASSUME t > 1 PROVE SumBefore(Data, t) < off
      <4>1. t - 1 \in 1 .. N /\ ~(t <= t - 1) /\ t - 1 + 1 = t
        <5> HIDE DEF t, N
        <5> QED BY <2>1, <3>1, <3>2
      <4>2. ~(off <= SumBefore(Data, t - 1 + 1))
        <5> HIDE DEF t
        <5> QED BY <2>1, <2>2, <4>1
      <4>3. SumBefore(Data, t) \in Nat
        <5>1. Data \in Seq(Nat) /\ Len(Data) = N
          BY SizesAre
        <5>2. t \in 1 .. N + 1
          <6> HIDE DEF t, N
          <6> QED BY <2>1, <3>1
        <5> QED BY <5>1, <5>2, SumsAre
      <4> HIDE DEF t
      <4> QED BY <4>1, <4>2, <4>3
    <3> HIDE DEF t
    <3> QED BY <3>1, <3>2 DEF Reached
  <2>4. t \in DOMAIN tracks /\ pos'.index = t /\ pos'.buff_offset = o % tracks[t].datasize
    BY <1>2, <2>2
  <2>5. PICK u \in DOMAIN tracks : u = t
    BY <2>4
  <2>6. /\ tracks' = tracks /\ Data' = Data /\ Reached(u, off)' = Reached(u, off)
        /\ \A x : RealOffset(u, x)' = RealOffset(u, x)
    BY <1>1, SameImage
  <2>7. /\ Reached(u, off) /\ offset' = RealOffset(u, off - SumBefore(Data, u))
        /\ pos'.index = u /\ pos'.buff_offset = (off - SumBefore(Data, u)) % tracks[u].datasize
    BY <1>2, <2>3, <2>4, <2>5
  <2>8. /\ u \in DOMAIN tracks' /\ Reached(u, off)'
        /\ offset' = RealOffset(u, off - SumBefore(Data, u))'
        /\ pos'.index = u /\ pos'.buff_offset = (off - SumBefore(Data', u)) % tracks'[u].datasize
    <3>1. RealOffset(u, off - SumBefore(Data, u))' = RealOffset(u, off - SumBefore(Data, u))
      BY <2>6 DEF RealOffset, File
    <3> QED BY <2>6, <2>7, <3>1
  <2> QED BY <2>8 DEF Placed
<1> HIDE DEF reach, t
<1> QED BY <1>1, <1>2

LEMMA PlacedReads ==
  ASSUME image \in Images, OfRawSectors(image), NEW at \in Nat, NEW n \in Nat, Placed(at),
         NEW c, c.at = at, c.n = n, WithinSector(c)
  PROVE  /\ n <= Rem /\ Rem \in Int
         /\ ~Between(at) /\ Counted(at) =>
              Bytes(offset, n) = SubSeq(ImageData, at + 1, Smaller(at + n, Len(ImageData)))
<1>1. PICK t \in DOMAIN tracks :
        /\ Reached(t, at)
        /\ offset = RealOffset(t, at - SumBefore(Data, t))
        /\ pos.index = t /\ pos.buff_offset = (at - SumBefore(Data, t)) % tracks[t].datasize
  BY DEF Placed
<1> DEFINE D(u) == SumBefore(Data, u)
           N == Len(tracks)
           d == tracks[t].datasize
           r == (at - D(t)) % d
<1>2. N \in Nat /\ DOMAIN tracks = 1 .. N /\ d \in Nat \ {0}
  BY TrackFacts
<1>3. D(1) = 0 /\ D(t) \in Nat /\ D(t + 1) \in Nat
  <2>1. Data \in Seq(Nat) /\ Len(Data) = N
    BY SizesAre
  <2>2. t \in 1 .. N + 1 /\ t + 1 \in 1 .. N + 1
    BY <1>2, Numbered, Zenon
  <2> QED BY <2>1, <2>2, SumsAre
<1>4. at <= D(t + 1) /\ (t > 1 => D(t) < at)
  BY <1>1 DEF Reached
<1>5. at \in D(t) .. D(t + 1)
  <2> HIDE DEF D
  <2>1. t = 1 \/ t > 1
    BY <1>2
  <2> QED BY <1>3, <1>4, <2>1
<1>6. r + n <= d
  BY <1>5, Zenon DEF WithinSector
<1>7. r \in Nat
  <2> DEFINE x == at - D(t)
  <2>1. x \in Nat
    <3> HIDE DEF D
    <3> QED BY <1>3, <1>5
  <2>2. x % d \in 0 .. d - 1
    <3> HIDE DEF x, d
    <3> QED BY <1>2, <2>1, Division
  <2> HIDE DEF d
  <2> QED BY <1>2, <2>2
<1>8. Rem = d - r
  BY <1>1, <1>2 DEF Rem, Entry
<1>9. n <= Rem /\ Rem \in Int
  <2> HIDE DEF d, r
  <2> QED BY <1>2, <1>6, <1>7, <1>8
<1>10. ASSUME ~Between(at), Counted(at)
       PROVE  Bytes(offset, n) = SubSeq(ImageData, at + 1, Smaller(at + n, Len(ImageData)))
  <2>1. Bytes(RealOffset(t, at - SumBefore(Data, t)), n)
          = SubSeq(ImageData, at + 1, Smaller(at + n, Len(ImageData)))
    BY <1>1, <1>6, <1>10, SeekReads, Zenon
  <2> QED BY <1>1, <2>1, Zenon
<1> QED BY <1>9, <1>10

LEMMA NextInOrder ==
  ASSUME OfRawSectors(image), InOrder, [Next]_vars
  PROVE  InOrder'
<1>0. /\ image \in Images
      /\ (call.op = "seek" /\ cursor # Lost) => left = 0 /\ cursor \in Nat /\ Placed(cursor)
      /\ (call.op = "read" /\ left # 0) =>
           \/ call.got = << >> /\ left = call.n /\ call.n \in Nat /\ call.at \in Nat /\ Placed(call.at)
           \/ ~WithinSector(call)
      /\ ReadAfterSeek
  BY DEF InOrder
<1>1. ASSUME image' = image, call'.op \notin {"seek", "read"} PROVE InOrder'
  BY <1>0, <1>1 DEF InOrder, ReadAfterSeek
<1>2. ASSUME NEW lsn \in Lsns, NEW n \in Blocks, ReadDataSectors(lsn, n) PROVE InOrder'
  <2>1. lsn \in Int /\ n \in Nat
    BY ImageReadAssumption DEF ImageReadAssumption
  <2>2. image' = image /\ call'.op = "data"
    BY <1>2, <2>1, ReadDataStores
  <2> QED BY <1>1, <2>2
<1>3. ASSUME NEW op \in {"audio", "mode1", "mode2"}, NEW form2, NEW lsn \in Lsns, NEW n \in Blocks,
             CdioReadSectors(op, form2, lsn, n)
      PROVE  InOrder'
  <2>1. image' = image /\ call'.op = op
    BY <1>3 DEF CdioReadSectors, ReadSectors, Call
  <2> QED BY <1>1, <2>1
<1>4. ASSUME NEW off \in Offsets, Lseek(off) PROVE InOrder'
  <2>1. off \in Nat
    BY ImageReadAssumption DEF ImageReadAssumption
  <2>2. /\ image' = image /\ left' = 0 /\ call'.op \in {"seek", "undefined"}
        /\ cursor' # Lost => cursor' = off /\ Placed(off)'
    BY <1>0, <1>4, <2>1, LseekPlaces
  <2>3. ASSUME cursor' # Lost PROVE cursor' \in Nat /\ Placed(cursor)'
    <3>1. cursor' = off /\ Placed(off)'
      BY <2>2, <2>3
    <3> QED BY <2>1, <3>1 DEF Placed, Reached, RealOffset
  <2>4. ReadAfterSeek'
    BY <2>2 DEF ReadAfterSeek
  <2> QED BY <1>0, <2>2, <2>3, <2>4 DEF InOrder
<1>5. ASSUME NEW size \in Sizes, Read(size) PROVE InOrder'
  <2>1. size \in Nat
    BY ImageReadAssumption DEF ImageReadAssumption
  <2>2. /\ image' = image /\ offset' = offset /\ pos' = pos /\ cursor' = cursor
        /\ size > 0 /\ left' = size
        /\ call'.op = IF call.op = "seek" /\ cursor # Lost THEN "read" ELSE "read_on"
        /\ call'.at = cursor /\ call'.n = size /\ call'.got = << >>
    BY <1>5 DEF Read, Call
  <2>3. CASE call.op = "seek" /\ cursor # Lost
    <3>1. cursor \in Nat /\ Placed(cursor)
      BY <1>0, <2>3
    <3>2. Placed(cursor)'
      BY <2>2, <3>1 DEF Placed, Reached, RealOffset, Data, File, tracks
    <3>3. Placed(call.at)'
      BY <2>2, <3>2 DEF Placed, Reached, RealOffset
    <3>4. ReadAfterSeek'
      BY <2>1, <2>2 DEF ReadAfterSeek
    <3>5. call'.op = "read"
      BY <2>2, <2>3
    <3> QED BY <1>0, <2>1, <2>2, <3>1, <3>3, <3>4, <3>5 DEF InOrder
  <2>4. CASE ~(call.op = "seek" /\ cursor # Lost)
    <3>1. call'.op = "read_on"
      BY <2>2, <2>4
    <3> QED BY <1>1, <2>2, <3>1
  <2> QED BY <2>3, <2>4
(* While a read goes round: it stays the same call.                        *)
<1>6. ASSUME image' = image, left > 0, NEW got, call' = [call EXCEPT !.got = got],
             call.op = "read" /\ left' # 0 => ~WithinSector(call),
             (call.op = "read" /\ left' = 0 /\ WithinSector(call) /\ ~Between(call.at) /\ Counted(call.at))
               => got = SubSeq(ImageData, call.at + 1, Smaller(call.at + call.n, Len(ImageData)))
                  /\ call'.got = got,
             call.op = "seek" /\ cursor = Lost => cursor' = Lost
      PROVE  InOrder'
  <2>1. call'.op = call.op /\ call'.at = call.at /\ call'.n = call.n
    BY <1>6
  <2>2. ~(call.op = "seek" /\ cursor' # Lost)
    <3>1. ~(left = 0)
      BY <1>6
    <3> QED BY <1>0, <1>6, <3>1
  <2>3. /\ tracks' = tracks /\ lead' = lead /\ Data' = Data /\ ImageData' = ImageData
        /\ \A t : Length(t)' = Length(t)
    BY <1>6, SameImage
  <2>4. WithinSector(call)' = WithinSector(call)
    BY <2>1, <2>3 DEF WithinSector
  <2>5. Between(call.at)' = Between(call.at) /\ Counted(call.at)' = Counted(call.at)
    BY <1>6, <2>1, <2>3 DEF Between, Counted, Layout
  <2>6. ReadAfterSeek'
    <3> SUFFICES ASSUME left' = 0, call'.op = "read", WithinSector(call)', ~Between(call.at)', Counted(call.at)'
                 PROVE  ReadsInOrder(call)'
      BY DEF ReadAfterSeek
    <3>1. call'.got = SubSeq(ImageData, call.at + 1, Smaller(call.at + call.n, Len(ImageData)))
      BY <1>6, <2>1, <2>4, <2>5
    <3> QED BY <2>1, <2>3, <3>1 DEF ReadsInOrder
  <2>7. (call'.op = "read" /\ left' # 0) => ~WithinSector(call)'
    BY <1>6, <2>1, <2>4
  <2> QED BY <1>0, <1>6, <2>1, <2>2, <2>6, <2>7 DEF InOrder
<1>7. CASE LastTurn
  <2>1. /\ left > 0 /\ image' = image /\ left' = 0
        /\ call' = [call EXCEPT !.got = Stored(left)]
        /\ cursor = Lost => cursor' = Lost
    BY <1>7 DEF LastTurn
  <2>2. ASSUME call.op = "read", WithinSector(call), ~Between(call.at), Counted(call.at)
        PROVE  /\ Stored(left) = SubSeq(ImageData, call.at + 1, Smaller(call.at + call.n, Len(ImageData)))
               /\ call'.got = Stored(left)
    <3>1. /\ call.got = << >> /\ left = call.n /\ call.n \in Nat /\ call.at \in Nat /\ Placed(call.at)
      <4>1. ~(left = 0)
        BY <2>1
      <4> QED BY <1>0, <2>2, <4>1
    <3>2. Bytes(offset, left) = SubSeq(ImageData, call.at + 1, Smaller(call.at + call.n, Len(ImageData)))
      BY <1>0, <2>2, <3>1, PlacedReads
    <3>3. << >> \o Bytes(offset, left) = Bytes(offset, left)
      <4> DEFINE end == Smaller(call.at + call.n, Len(ImageData))
                 from == call.at + 1
      <4>1. ImageData \in Seq(Int)
        BY <1>0, ImageDataIs, Zenon
      <4>2. end \in Nat /\ end <= Len(ImageData) /\ from \in Nat \ {0}
        BY <3>1, <4>1 DEF Smaller
      <4> HIDE DEF end, from
      <4>3. SubSeq(ImageData, from, end) \in Seq(Int)
        BY <4>1, <4>2
      <4>4. Bytes(offset, left) \in Seq(Int)
        BY <3>2, <4>3, Zenon DEF from, end
      <4>5. \A s \in Seq(Int) : << >> \o s = s
        OBVIOUS
      <4> QED BY <4>4, <4>5, Zenon
    <3>4. Stored(left) = Bytes(offset, left)
      BY <3>1, <3>3 DEF Stored
    <3>5. call'.got = Stored(left)
      BY <2>1
    <3> QED BY <3>2, <3>4, <3>5
  <2> QED BY <1>6, <2>1, <2>2
<1>8. CASE Turn
  <2>1. /\ left > 0 /\ MoreSectors /\ image' = image /\ cursor' = cursor
        /\ call' = [call EXCEPT !.got = Stored(Rem)]
    BY <1>8 DEF Turn
  <2>2. ASSUME call.op = "read" PROVE ~WithinSector(call)
    <3>1. ~(left = 0)
      BY <2>1
    <3>2. SUFFICES ASSUME WithinSector(call) PROVE FALSE
      OBVIOUS
    <3>3. /\ left = call.n /\ call.n \in Nat /\ call.at \in Nat /\ Placed(call.at)
      BY <1>0, <2>2, <3>1, <3>2
    <3>4. call.n <= Rem /\ Rem \in Int
      BY <1>0, <3>2, <3>3, PlacedReads
    <3> QED BY <2>1, <3>3, <3>4 DEF MoreSectors
  <2> QED BY <1>6, <2>1, <2>2
<1>9. CASE UNCHANGED vars
  <2>1. /\ image' = image /\ call' = call /\ left' = left /\ cursor' = cursor
        /\ offset' = offset /\ pos' = pos
    BY <1>9 DEF vars
  <2>2. /\ tracks' = tracks /\ lead' = lead /\ Data' = Data /\ File' = File /\ ImageData' = ImageData
        /\ \A t : Length(t)' = Length(t)
    BY <2>1, SameImage
  <2>3. Placed(cursor)' = Placed(cursor) /\ Placed(call.at)' = Placed(call.at)
    BY <2>1, <2>2 DEF Placed, Reached, RealOffset
  <2>4. WithinSector(call)' = WithinSector(call) /\ ReadAfterSeek' = ReadAfterSeek
    BY <2>1, <2>2 DEF WithinSector, ReadAfterSeek, ReadsInOrder, Between, Counted, Layout
  <2> QED BY <1>0, <2>1, <2>3, <2>4 DEF InOrder
<1> QED BY <1>2, <1>3, <1>4, <1>5, <1>7, <1>8, <1>9 DEF Next

(* Whatever was sought and read before, and for every image whose tracks   *)
(* are of raw sectors: a read within a sector, right after a seek, stores  *)
(* the bytes of the image's data from the offset sought on, provided the   *)
(* tracks passed over count their sectors and the offset is not where one  *)
(* layout ends and another begins (_lseek_bincue and _read_bincue).        *)
THEOREM SeeksReadInPlace == Spec => []ReadAfterSeek
<1> DEFINE Kept == image \in Images /\ (OfRawSectors(image) => InOrder)
<1>1. Init => Kept
  BY DEF Init, InOrder, ReadAfterSeek, Call
<1>2. Kept /\ [Next]_vars => Kept'
  <2> SUFFICES ASSUME Kept, [Next]_vars PROVE Kept'
    OBVIOUS
  <2>1. image' = image
    BY DEF Next, vars, ReadDataSectors, CdioReadSectors, Lseek, Read, LastTurn, Turn
  <2>2. OfRawSectors(image) => InOrder'
    BY NextInOrder
  <2>3. OfRawSectors(image)' = OfRawSectors(image)
    BY <2>1
  <2> QED BY <2>1, <2>2, <2>3
<1>3. Kept => ReadAfterSeek
  BY DEF InOrder, ReadAfterSeek
<1> QED BY <1>1, <1>2, <1>3, PTL DEF Spec
=============================================================================
