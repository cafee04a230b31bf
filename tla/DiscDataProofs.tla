-------------------------- MODULE DiscDataProofs --------------------------
(* Proofs about MsfAddress, for every set of LSNs and of texts, about      *)
(* TrackLookup, for every set of tables and LSNs, about MmcDevice, for     *)
(* every set of drives, of discs and of requests: what a call of several   *)
(* commands answers is of one disc; and about DiscKinds, for every set of  *)
(* discs and of searches: what a guess tells is on the disc.               *)
EXTENDS TrackLookup, MCDiscData, TLAPS, SequenceTheorems, NaturalsInduction, WellFoundedInduction

(* A number of two decimal digits survives cdio_to_bcd8 and                *)
(* cdio_from_bcd8, and its byte has decimal digits.                        *)
LEMMA BcdRoundTrip ==
  ASSUME NEW n \in 0 .. 99
  PROVE  /\ ToBcd8(n) \in Int
         /\ FromBcd8(ToBcd8(n)) = n
         /\ ToBcd8(n) % 16 < 10 /\ ToBcd8(n) \div 16 < 10
<1> DEFINE tens == n \div 10
           units == n % 10
<1>1. tens \in 0 .. 9 /\ units \in 0 .. 9 /\ n = 10 * tens + units
  OBVIOUS
<1> HIDE DEF tens, units
<1>2. (tens * 16 + units) \div 16 = tens /\ (tens * 16 + units) % 16 = units
  BY <1>1
<1>3. ToBcd8(n) = tens * 16 + units
  BY DEF ToBcd8, tens, units
<1> QED BY <1>1, <1>2, <1>3 DEF FromBcd8

(* The three fields of n frames are in range, and put together they are n. *)
LEMMA FieldsOfFrames ==
  ASSUME NEW n \in Nat
  PROVE  /\ Seconds(n) \in 0 .. 59 /\ Frames(n) \in 0 .. 74 /\ Minutes(n) \in Nat
         /\ (Minutes(n) * 60 + Seconds(n)) * 75 + Frames(n) = n
         /\ n < 100 * 4500 => Minutes(n) \in 0 .. 99
<1> DEFINE rest == n % 4500
<1>1. Minutes(n) \in Nat /\ rest \in 0 .. 4499 /\ n = 4500 * Minutes(n) + rest
  BY DEF Minutes, FramesPerMin
<1>2. Seconds(n) = rest \div 75
  BY DEF Seconds, FramesPerMin, FramesPerSec
<1>3. n % 75 = rest % 75
  BY <1>1
<1>4. Frames(n) = rest % 75
  BY <1>3 DEF Frames, FramesPerSec
<1> HIDE DEF rest
<1>5. rest \div 75 \in 0 .. 59 /\ rest % 75 \in 0 .. 74 /\ rest = 75 * (rest \div 75) + (rest % 75)
  BY <1>1
<1> QED BY <1>1, <1>2, <1>4, <1>5

(* The MSF of a sector on the disc: cdio_msf_to_lsn undoes                 *)
(* cdio_lsn_to_msf.                                                        *)
LEMMA LsnRoundTrip ==
  ASSUME NEW l \in Int, OnDisc(l)
  PROVE  MsfToLsn(LsnToMsf(l)) = l
<1> DEFINE n == l + 150
<1>1. n \in Nat /\ n < 100 * 4500 /\ Origin(l) = 150
  BY DEF OnDisc, Origin, PregapSectors, FramesPerMin
<1>2. /\ Minutes(n) \in 0 .. 99 /\ Seconds(n) \in 0 .. 59 /\ Frames(n) \in 0 .. 74
      /\ (Minutes(n) * 60 + Seconds(n)) * 75 + Frames(n) = n
  BY <1>1, FieldsOfFrames
<1>3. LsnToMsf(l) = [m |-> ToBcd8(Minutes(n)), s |-> ToBcd8(Seconds(n)),
                       f |-> ToBcd8(Frames(n))]
  BY <1>1, <1>2 DEF LsnToMsf, Truncated
<1>4. /\ FromBcd8(ToBcd8(Minutes(n))) = Minutes(n)
      /\ FromBcd8(ToBcd8(Seconds(n))) = Seconds(n)
      /\ FromBcd8(ToBcd8(Frames(n))) = Frames(n)
  BY <1>2, BcdRoundTrip
<1>5. MsfToLba(LsnToMsf(l)) = n
  BY <1>2, <1>3, <1>4 DEF MsfToLba, FramesPerSec
<1>6. n # InvalidLba
  BY <1>1 DEF InvalidLba
<1> QED BY <1>5, <1>6 DEF MsfToLsn, LbaToLsn, PregapSectors

(* The range of LSNs of a CD is bounded by integers.                       *)
LEMMA BoundsAreIntegers == MinLsn \in Int /\ MaxLsn \in Int
BY DEF MinLsn, MaxLsn

(* The MSF of any LSN of a CD has BCD bytes in range, also where the       *)
(* minutes are truncated and below the pre-gap.                            *)
LEMMA WellFormedMsf ==
  ASSUME NEW l \in Int, MinLsn <= l
  PROVE  LET msf == LsnToMsf(l)
         IN Bcd(msf.m, 100) /\ Bcd(msf.s, 60) /\ Bcd(msf.f, 75)
<1> DEFINE n == l + Origin(l)
<1>1. n \in Nat
  BY DEF Origin, MinLsn, MaxLsn, PregapSectors
<1> HIDE DEF n
<1>2. Minutes(n) \in Nat /\ Seconds(n) \in 0 .. 59 /\ Frames(n) \in 0 .. 74
  BY <1>1, FieldsOfFrames
<1>3. Truncated(Minutes(n)) \in 0 .. 99
  BY <1>2 DEF Truncated
<1>4. LsnToMsf(l) = [m |-> ToBcd8(Truncated(Minutes(n))), s |-> ToBcd8(Seconds(n)),
                       f |-> ToBcd8(Frames(n))]
  BY DEF LsnToMsf, n
<1>5. Bcd(ToBcd8(Truncated(Minutes(n))), 100)
  BY <1>3, BcdRoundTrip DEF Bcd
<1>6. Bcd(ToBcd8(Seconds(n)), 60) /\ Bcd(ToBcd8(Frames(n)), 75)
  BY <1>2, BcdRoundTrip DEF Bcd
<1> QED BY <1>4, <1>5, <1>6

-----------------------------------------------------------------------------
(* Every non-empty set of natural numbers has a least member.              *)
LEMMA LeastNatural ==
  ASSUME NEW S \in SUBSET Nat, S # {}
  PROVE  \E m \in S : \A k \in S : m <= k
<1> DEFINE R == {ss \in Nat \X Nat : ss[1] < ss[2]}
<1>1. IsWellFoundedOn(R, Nat)
  BY NatLessThanWellFounded DEF OpToRel
<1>2. \A x \in Nat, y \in Nat : y < x => <<y, x>> \in R
  OBVIOUS
<1> HIDE DEF R
<1>3. PICK x \in S : \A y \in S : ~ (<<y, x>> \in R)
  BY <1>1, WFMin
<1>4. ASSUME NEW k \in S
      PROVE  x <= k
  <2>1. x \in Nat /\ k \in Nat
    BY <1>3
  <2>2. ~ (k < x)
    BY <1>2, <1>3, <2>1
  <2> QED BY <2>1, <2>2
<1> QED BY <1>3, <1>4

(* The value of a field of digits, a digit at a time: h[k] is the value of *)
(* its first k digits.                                                     *)
Field == Seq(0 .. 9)
Sums(field, n, h) ==
  /\ h \in [0 .. n -> Nat]
  /\ h[0] = 0
  /\ \A k \in 1 .. n : h[k] = 10 * h[k - 1] + field[k]

LEMMA SumsExist ==
  ASSUME NEW field \in Field, NEW n \in 0 .. Len(field) PROVE \E h : Sums(field, n, h)
<1> DEFINE Bad == {k \in 0 .. Len(field) : ~ \E h : Sums(field, k, h)}
<1>0. Len(field) \in Nat /\ \A k \in 1 .. Len(field) : field[k] \in Nat
  BY DEF Field
<1> SUFFICES ASSUME Bad # {} PROVE FALSE
  OBVIOUS
<1>1. Bad \in SUBSET Nat
  BY <1>0
<1> HIDE DEF Bad
<1>2. PICK m \in Bad : \A k \in Bad : m <= k
  BY <1>1, LeastNatural
<1>3. m \in 0 .. Len(field) /\ ~ \E h : Sums(field, m, h)
  BY <1>2 DEF Bad
<1>4. CASE m = 0
  <2>1. Sums(field, 0, [i \in 0 .. 0 |-> 0])
    BY DEF Sums
  <2> QED BY <1>3, <1>4, <2>1
<1>5. CASE m # 0
  <2>1. m - 1 \in 0 .. Len(field) /\ m - 1 \notin Bad /\ m \in 1 .. Len(field)
    BY <1>0, <1>2, <1>3, <1>5
  <2>2. PICK h : Sums(field, m - 1, h)
    BY <2>1 DEF Bad
  <2> DEFINE g == [i \in 0 .. m |-> IF i < m THEN h[i] ELSE 10 * h[m - 1] + field[m]]
  <2>3. h \in [0 .. m - 1 -> Nat] /\ m - 1 \in 0 .. m - 1
    BY <2>1, <2>2 DEF Sums
  <2>4. 10 * h[m - 1] + field[m] \in Nat
    <3>1. h[m - 1] \in Nat /\ field[m] \in Nat
      BY <1>0, <2>1, <2>3
    <3> QED BY <3>1
  <2>5. g \in [0 .. m -> Nat] /\ g[0] = 0
    <3>1. \A i \in 0 .. m : i < m => h[i] \in Nat
      BY <2>1, <2>3
    <3>2. 0 \in 0 .. m /\ 0 < m
      BY <2>1
    <3> QED BY <2>2, <2>4, <3>1, <3>2 DEF Sums
  <2>6. ASSUME NEW k \in 1 .. m PROVE g[k] = 10 * g[k - 1] + field[k]
    <3>1. k \in 0 .. m /\ k - 1 \in 0 .. m /\ k - 1 < m
      BY <2>1
    <3>2. CASE k < m
      <4>1. k \in 1 .. m - 1
        BY <3>2, <2>1
      <4> QED BY <2>2, <3>1, <3>2, <4>1 DEF Sums
    <3>3. CASE k = m
      BY <3>1, <3>3
    <3> QED BY <3>2, <3>3, <2>1
  <2>7. Sums(field, m, g)
    BY <2>2, <2>5, <2>6 DEF Sums
  <2> QED BY <1>3, <2>7
<1> QED BY <1>4, <1>5

(* The values do not depend on the digits that follow.                     *)
LEMMA SumsAgree ==
  ASSUME NEW f \in Field, NEW g \in Field, NEW n \in Nat, NEW m \in Nat, n <= m,
         \A k \in 1 .. n : f[k] = g[k],
         NEW u, NEW v, Sums(f, n, u), Sums(g, m, v)
  PROVE  \A k \in 0 .. n : u[k] = v[k]
<1> DEFINE Bad == {k \in 0 .. n : u[k] # v[k]}
<1> SUFFICES ASSUME Bad # {} PROVE FALSE
  OBVIOUS
<1>1. Bad \in SUBSET Nat
  OBVIOUS
<1> HIDE DEF Bad
<1>2. PICK k \in Bad : \A j \in Bad : k <= j
  BY <1>1, LeastNatural
<1>3. k \in 0 .. n /\ u[k] # v[k]
  BY <1>2 DEF Bad
<1>4. k # 0
  BY <1>3 DEF Sums
<1>5. k \in 1 .. n /\ k \in 1 .. m /\ k - 1 \in 0 .. n /\ k - 1 \notin Bad
  BY <1>2, <1>3, <1>4
<1>6. u[k - 1] = v[k - 1]
  BY <1>5 DEF Bad
<1> QED BY <1>3, <1>5, <1>6 DEF Sums

LEMMA AllButLast ==
  ASSUME NEW field \in Field, field # << >>
  PROVE  LET n == Len(field)
             s == SubSeq(field, 1, n - 1)
         IN s \in Field /\ Len(s) = n - 1 /\ \A k \in 1 .. n - 1 : s[k] = field[k]
<1> DEFINE n == Len(field)
           s == SubSeq(field, 1, n - 1)
<1>1. n \in Nat /\ n > 0 /\ \A k \in 1 .. n - 1 : field[k] \in 0 .. 9
  BY EmptySeq DEF Field
<1>2. /\ s \in Seq(0 .. 9)
      /\ Len(s) = IF 1 <= n - 1 THEN n - 1 - 1 + 1 ELSE 0
      /\ \A k \in 1 .. n - 1 - 1 + 1 : s[k] = field[1 + k - 1]
  <2> HIDE DEF n
  <2> QED BY <1>1, SubSeqProperties
<1>3. n - 1 - 1 + 1 = n - 1 /\ \A k \in 1 .. n - 1 : 1 + k - 1 = k
  BY <1>1
<1>4. Len(s) = n - 1
  <2> HIDE DEF n, s
  <2> QED BY <1>1, <1>2
<1>5. ASSUME NEW k \in 1 .. n - 1 PROVE s[k] = field[k]
  <2>1. k \in 1 .. n - 1 - 1 + 1 /\ 1 + k - 1 = k
    BY <1>3
  <2> QED BY <1>2, <2>1
<1> QED BY <1>2, <1>4, <1>5 DEF Field

(* The equation that defines Number has a solution, so Number is one.      *)
LEMMA NumberEquation ==
  /\ \A field \in Field : Number[field] \in Nat
  /\ \A field \in Field :
       Number[field] = IF field = << >> THEN 0
                       ELSE 10 * Number[SubSeq(field, 1, Len(field) - 1)] + field[Len(field)]
<1> DEFINE Value(field) == (CHOOSE h : Sums(field, Len(field), h))[Len(field)]
           G == [field \in Field |-> Value(field)]
           Step(g, field) == IF field = << >> THEN 0
                             ELSE 10 * g[SubSeq(field, 1, Len(field) - 1)] + field[Len(field)]
<1>1. ASSUME NEW field \in Field
      PROVE  /\ G[field] \in Nat /\ G[field] = Step(G, field)
  <2> DEFINE n == Len(field)
             h == CHOOSE u : Sums(field, n, u)
  <2>1. n \in Nat /\ \A k \in 1 .. n : field[k] \in 0 .. 9
    BY DEF Field
  <2>2. Sums(field, n, h)
    <3>1. \E u : Sums(field, n, u)
      BY <2>1, SumsExist
    <3> QED BY <3>1
  <2>3. G[field] = h[n]
    OBVIOUS
  <2> HIDE DEF h, G
  <2>4. h[n] \in Nat
    BY <2>1, <2>2 DEF Sums
  <2>5. CASE field = << >>
    <3>1. n = 0
      BY <2>5, EmptySeq
    <3>2. h[0] = 0
      BY <2>2 DEF Sums
    <3> QED BY <2>3, <2>4, <2>5, <3>1, <3>2
  <2>6. CASE field # << >>
    <3>1. n > 0
      BY <2>1, <2>6, EmptySeq DEF Field
    <3> DEFINE s == SubSeq(field, 1, n - 1)
    <3>2. s \in Field /\ Len(s) = n - 1 /\ \A k \in 1 .. n - 1 : s[k] = field[k]
      BY <2>6, AllButLast
    <3> HIDE DEF s
    <3> DEFINE u == CHOOSE x : Sums(s, n - 1, x)
    <3>3. Sums(s, n - 1, u)
      <4>1. n - 1 \in 0 .. Len(s)
        BY <3>1, <3>2, <2>1
      <4>2. \E x : Sums(s, n - 1, x)
        BY <3>2, <4>1, SumsExist
      <4> QED BY <4>2
    <3>4. G[s] = u[n - 1]
      BY <3>2 DEF G
    <3> HIDE DEF u
    <3>5. u[n - 1] = h[n - 1]
      <4>1. n - 1 \in Nat /\ n - 1 <= n /\ n - 1 \in 0 .. n - 1
        BY <2>1, <3>1
      <4>2. \A k \in 0 .. n - 1 : u[k] = h[k]
        <5> HIDE DEF n
        <5> QED BY <2>1, <2>2, <3>2, <3>3, <4>1, SumsAgree
      <4> QED BY <4>1, <4>2
    <3>6. h[n] = 10 * h[n - 1] + field[n]
      BY <2>1, <2>2, <3>1 DEF Sums
    <3> QED BY <2>3, <2>4, <2>6, <3>4, <3>5, <3>6 DEF s
  <2> QED BY <2>5, <2>6
<1>2. G = [field \in Field |-> Step(G, field)]
  <2>1. \A field \in Field : G[field] = Step(G, field)
    BY <1>1
  <2> HIDE DEF Step
  <2> QED BY <2>1
<1> HIDE DEF G
<1>3. Number = CHOOSE g : g = [field \in Field |-> Step(g, field)]
  BY DEF Number, Field
<1>4. Number = [field \in Field |-> Step(Number, field)]
  <2> DEFINE P(g) == g = [field \in Field |-> Step(g, field)]
  <2>1. P(G)
    BY <1>2
  <2>2. Number = CHOOSE g : P(g)
    BY <1>3
  <2> HIDE DEF P
  <2>3. P(Number)
    BY <2>1, <2>2
  <2> QED BY <2>3 DEF P
<1>5. ASSUME NEW field \in Field
      PROVE  Number[field] = Step(Number, field)
  <2> HIDE DEF Step
  <2> QED BY <1>4, Zenon
<1>6. ASSUME NEW bad \in Field, Number[bad] \notin Nat PROVE FALSE
  <2> DEFINE Bad == {n \in Nat : \E field \in Field : Len(field) = n /\ Number[field] \notin Nat}
  <2>1. Len(bad) \in Bad /\ Bad \in SUBSET Nat
    BY <1>6 DEF Field
  <2> HIDE DEF Bad
  <2>2. PICK m \in Bad : \A k \in Bad : m <= k
    BY <2>1, LeastNatural
  <2>3. PICK field \in Field : Len(field) = m /\ Number[field] \notin Nat
    BY <2>2 DEF Bad
  <2>4. field # << >> /\ m \in Nat /\ m > 0 /\ field[m] \in Nat
    <3>1. field # << >>
      BY <1>5, <2>3
    <3>2. m \in Nat /\ m # 0
      BY <2>3, <3>1, EmptySeq DEF Field
    <3> QED BY <2>3, <3>1, <3>2 DEF Field
  <2> DEFINE s == SubSeq(field, 1, m - 1)
  <2>5. s \in Field /\ Len(s) = m - 1
    BY <2>3, <2>4, AllButLast
  <2>6. Number[s] \in Nat
    <3>1. m - 1 \notin Bad /\ m - 1 \in Nat
      BY <2>2, <2>4
    <3> HIDE DEF s
    <3> QED BY <2>5, <3>1 DEF Bad
  <2>7. Number[field] = 10 * Number[s] + field[m]
    BY <1>5, <2>3, <2>4
  <2> HIDE DEF s
  <2> QED BY <2>3, <2>4, <2>6, <2>7
<1> QED BY <1>5, <1>6

(* A field of two digits is read as the number they are the digits of.     *)
LEMMA TwoDigits ==
  ASSUME NEW a \in 0 .. 9, NEW b \in 0 .. 9
  PROVE  /\ Digits(<<a, b>>) /\ Len(<<a, b>>) = 2
         /\ Number[<<a, b>>] = 10 * a + b
<1>1. <<a, b>> \in Field /\ <<a>> \in Field /\ << >> \in Field
  BY DEF Field
<1>2. SubSeq(<<a>>, 1, Len(<<a>>) - 1) = << >>
  <2> DEFINE f == <<a>>
             s == SubSeq(f, 1, Len(f) - 1)
  <2>1. f \in Field /\ f # << >> /\ Len(f) = 1
    BY <1>1
  <2> HIDE DEF f
  <2>2. s \in Field /\ Len(s) = 0
    <3>1. s \in Field /\ Len(s) = Len(f) - 1
      BY <2>1, AllButLast, Zenon
    <3> HIDE DEF s
    <3> QED BY <2>1, <3>1
  <2> QED BY <2>2, EmptySeq DEF Field, f
<1>3. SubSeq(<<a, b>>, 1, Len(<<a, b>>) - 1) = <<a>>
  <2> DEFINE f == <<a, b>>
             s == SubSeq(f, 1, Len(f) - 1)
  <2>1. f \in Field /\ f # << >> /\ Len(f) = 2 /\ f[1] = a
    BY <1>1
  <2> HIDE DEF f
  <2>2. s \in Field /\ Len(s) = 1 /\ s[1] = a
    <3>1. s \in Field /\ Len(s) = Len(f) - 1 /\ \A k \in 1 .. Len(f) - 1 : s[k] = f[k]
      BY <2>1, AllButLast, Zenon
    <3> HIDE DEF s
    <3> QED BY <2>1, <3>1
  <2> HIDE DEF s
  <2>3. s = <<a>>
    BY <1>1, <2>2, SeqEqual DEF Field
  <2> QED BY <2>3 DEF s, f
<1>4. Number[<< >>] = 0
  BY <1>1, NumberEquation
<1>5. Number[<<a>>] = 10 * 0 + a
  BY <1>1, <1>2, <1>4, NumberEquation
<1>6. Number[<<a, b>>] = 10 * Number[<<a>>] + b
  BY <1>1, <1>3, NumberEquation
<1> QED BY <1>5, <1>6 DEF Digits, NoDigit

(* cdio_mmssff_to_lba reads what cdio_msf_to_str prints of an MSF.         *)
LEMMA PrintedReadBack ==
  ASSUME NEW l \in Int, OnDisc(l)
  PROVE  MmssffToLba(MsfToStr(LsnToMsf(l))) = LsnToLba(l)
<1> DEFINE n == l + 150
           msf == LsnToMsf(l)
           t == MsfToStr(msf)
<1>1. n \in Nat /\ n < 100 * 4500 /\ Origin(l) = 150
  BY DEF OnDisc, Origin, PregapSectors, FramesPerMin
<1>2. /\ Minutes(n) \in 0 .. 99 /\ Seconds(n) \in 0 .. 59 /\ Frames(n) \in 0 .. 74
      /\ (Minutes(n) * 60 + Seconds(n)) * 75 + Frames(n) = n
  BY <1>1, FieldsOfFrames
<1>3. msf = [m |-> ToBcd8(Minutes(n)), s |-> ToBcd8(Seconds(n)), f |-> ToBcd8(Frames(n))]
  BY <1>1, <1>2 DEF LsnToMsf, Truncated
<1>4. /\ Digits(t[1]) /\ Len(t[1]) = 2 /\ Number[t[1]] = Minutes(n)
      /\ Digits(t[2]) /\ Len(t[2]) = 2 /\ Number[t[2]] = Seconds(n)
      /\ Digits(t[3]) /\ Len(t[3]) = 2 /\ Number[t[3]] = Frames(n)
  <2>1. ASSUME NEW p \in 0 .. 99
        PROVE  LET field == <<ToBcd8(p) \div 16, ToBcd8(p) % 16>>
               IN Digits(field) /\ Len(field) = 2 /\ Number[field] = p
    <3>1. /\ ToBcd8(p) \in Int /\ FromBcd8(ToBcd8(p)) = p
          /\ ToBcd8(p) % 16 < 10 /\ ToBcd8(p) \div 16 < 10
      BY BcdRoundTrip
    <3>2. ToBcd8(p) >= 0
      BY DEF ToBcd8
    <3>3. ToBcd8(p) \div 16 \in 0 .. 9 /\ ToBcd8(p) % 16 \in 0 .. 9
      BY <3>1, <3>2
    <3> QED BY <3>1, <3>3, TwoDigits DEF FromBcd8
  <2>2. /\ t[1] = <<ToBcd8(Minutes(n)) \div 16, ToBcd8(Minutes(n)) % 16>>
        /\ t[2] = <<ToBcd8(Seconds(n)) \div 16, ToBcd8(Seconds(n)) % 16>>
        /\ t[3] = <<ToBcd8(Frames(n)) \div 16, ToBcd8(Frames(n)) % 16>>
    BY <1>3 DEF MsfToStr
  <2>3. Minutes(n) \in 0 .. 99 /\ Seconds(n) \in 0 .. 99 /\ Frames(n) \in 0 .. 99
    BY <1>2
  <2> HIDE DEF t, n
  <2> QED BY <2>1, <2>2, <2>3
<1>5. Len(t) = 3
  BY DEF MsfToStr
<1> HIDE DEF t, n
<1>6. MinutesOk(t) /\ SecondsOk(t) /\ FramesOk(t)
  BY <1>2, <1>4, <1>5 DEF MinutesOk, SecondsOk, FramesOk, FramesPerSec
<1>7. ~ NoFrames(t) /\ t # << <<0>> >>
  <2>1. t[3] # << >> /\ 1 \in DOMAIN t[3]
    <3>1. t[3] = <<msf.f \div 16, msf.f % 16>>
      BY DEF t, MsfToStr
    <3> QED BY <3>1
  <2>2. t # << <<0>> >>
    BY <1>5
  <2> QED BY <1>4, <2>1, <2>2 DEF NoFrames, Digits
<1>8. MmssffToLba(t) = (Number[t[1]] * 60 + Number[t[2]]) * FramesPerSec + Number[t[3]]
  BY <1>6, <1>7, Zenon DEF MmssffToLba
<1>9. MmssffToLba(t) = n
  BY <1>2, <1>4, <1>8 DEF FramesPerSec
<1> QED BY <1>1, <1>9 DEF LsnToLba, InvalidLba, OnDisc, PregapSectors, n, t

LEMMA Remainder ==
  ASSUME NEW x \in Nat
  PROVE  /\ \A y \in 0 .. 59 : x * 60 + y \in Nat /\ (x * 60 + y) % 60 = y
         /\ \A y \in 0 .. 74 : (x * 75 + y) \div 75 = x /\ (x * 75 + y) % 75 = y
OBVIOUS

(* The seconds and frames of a text that is accepted are those of its      *)
(* address.                                                                *)
LEMMA ParsedFields ==
  ASSUME NEW t \in Seq(Seq(0 .. NoDigit)), Len(t) = 3, MmssffToLba(t) >= 0
  PROVE  /\ (MmssffToLba(t) \div FramesPerSec) % 60 = Number[t[2]]
         /\ MmssffToLba(t) % FramesPerSec = Number[t[3]]
<1>1. t # << <<0>> >>
  <2>1. Len(<< <<0>> >>) = 1
    OBVIOUS
  <2>2. 3 # 1
    OBVIOUS
  <2> QED BY <2>1, <2>2, Zenon
<1>2. MinutesOk(t) /\ SecondsOk(t) /\ FramesOk(t)
      /\ MmssffToLba(t) = (Number[t[1]] * 60 + Number[t[2]]) * FramesPerSec + Number[t[3]]
  <2>1. MmssffToLba(t) # -1 /\ MmssffToLba(t) # InvalidLba
    BY DEF InvalidLba
  <2>2. NoFrames(t) => ~ FramesOk(t)
    <3>1. Digits(t[3]) => t[3] # << >> /\ t[3][1] # NoDigit
      <4>1. t[3] # << >> => 1 \in DOMAIN t[3]
        OBVIOUS
      <4> QED BY <4>1, Zenon DEF Digits
    <3> QED BY <3>1 DEF NoFrames, FramesOk
  <2>3. MinutesOk(t) /\ SecondsOk(t) /\ NoFrames(t) => MmssffToLba(t) = -1
    BY <1>1, <2>2, Zenon DEF MmssffToLba
  <2>4. ~ (MinutesOk(t) /\ SecondsOk(t) /\ NoFrames(t))
        /\ ~ (MinutesOk(t) /\ SecondsOk(t) /\ FramesOk(t)) => MmssffToLba(t) = InvalidLba
    BY <1>1, Zenon DEF MmssffToLba
  <2>5. MinutesOk(t) /\ SecondsOk(t) /\ FramesOk(t)
    BY <2>1, <2>3, <2>4
  <2> QED BY <1>1, <2>2, <2>5, Zenon DEF MmssffToLba
<1>3. ASSUME NEW field \in Seq(0 .. NoDigit), Digits(field) PROVE Number[field] \in Nat
  <2>1. field \in Field
    <3>1. Len(field) \in Nat /\ \A k \in 1 .. Len(field) : field[k] \in 0 .. 9
      BY <1>3 DEF Digits, NoDigit
    <3>2. field \in [1 .. Len(field) -> 0 .. 9]
      BY <3>1
    <3> QED BY <3>1, <3>2 DEF Field
  <2> QED BY <2>1, NumberEquation
<1>4. Number[t[1]] \in Nat /\ Number[t[2]] \in 0 .. 59 /\ Number[t[3]] \in 0 .. 74
  <2>1. t[1] \in Seq(0 .. NoDigit) /\ t[2] \in Seq(0 .. NoDigit) /\ t[3] \in Seq(0 .. NoDigit)
    OBVIOUS
  <2>2. Number[t[1]] \in Nat /\ Number[t[2]] \in Nat /\ Number[t[3]] \in Nat
    BY <1>2, <1>3, <2>1 DEF MinutesOk, SecondsOk, FramesOk
  <2>3. Number[t[2]] < 60 /\ Number[t[3]] < 75
    BY <1>2 DEF SecondsOk, FramesOk, FramesPerSec
  <2>4. \A x \in Nat : (x < 60 => x \in 0 .. 59) /\ (x < 75 => x \in 0 .. 74)
    OBVIOUS
  <2> QED BY <2>2, <2>3, <2>4, Zenon
<1> DEFINE a == Number[t[1]] * 60 + Number[t[2]]
           b == Number[t[3]]
<1>5. a \in Nat /\ a % 60 = Number[t[2]] /\ b \in 0 .. 74
  BY <1>4, Remainder
<1> HIDE DEF a, b
<1>6. (a * 75 + b) \div 75 = a /\ (a * 75 + b) % 75 = b
  BY <1>5, Remainder
<1>7. MmssffToLba(t) = a * 75 + b
  BY <1>2 DEF a, b, FramesPerSec
<1> QED BY <1>5, <1>6, <1>7 DEF b, FramesPerSec

-----------------------------------------------------------------------------
(* Every address answered for a sector on the disc names that sector.      *)
THEOREM AddressesNameSectors == AddressSpec => []MsfNamesLsn
<1>1. AddressInit => MsfNamesLsn
  BY DEF AddressInit, Answer, MsfNamesLsn
<1>2. MsfNamesLsn /\ [AddressNext]_answer => MsfNamesLsn'
  <2> SUFFICES ASSUME MsfNamesLsn, [AddressNext]_answer PROVE MsfNamesLsn'
    OBVIOUS
  <2>1. ASSUME NEW l \in Lsns, ConvertLsn(l) PROVE MsfNamesLsn'
    <3>1. l \in Int
      BY MsfAddressAssumption
    <3>2. answer'.arg = l /\ answer'.value = LsnToMsf(l)
      BY <2>1 DEF ConvertLsn, Answer
    <3> QED BY <3>1, <3>2, LsnRoundTrip DEF MsfNamesLsn
  <2>2. ASSUME NEW t \in Texts, ParseText(t) PROVE MsfNamesLsn'
    BY <2>2 DEF ParseText, Answer, MsfNamesLsn
  <2>3. CASE UNCHANGED answer
    BY <2>3 DEF MsfNamesLsn
  <2> QED BY <2>1, <2>2, <2>3 DEF AddressNext
<1> QED BY <1>1, <1>2, PTL DEF AddressSpec

(* Every MSF answered for an LSN of a CD has BCD bytes of less than 60     *)
(* seconds and 75 frames.                                                  *)
THEOREM AddressesWellFormed == AddressSpec => []MsfWellFormed
<1>1. AddressInit => MsfWellFormed
  BY DEF AddressInit, Answer, MsfWellFormed
<1>2. MsfWellFormed /\ [AddressNext]_answer => MsfWellFormed'
  <2> SUFFICES ASSUME MsfWellFormed, [AddressNext]_answer PROVE MsfWellFormed'
    OBVIOUS
  <2>1. ASSUME NEW l \in Lsns, ConvertLsn(l) PROVE MsfWellFormed'
    <3>1. answer'.arg = l /\ answer'.value = LsnToMsf(l)
      BY <2>1 DEF ConvertLsn, Answer
    <3>2. CASE l \in MinLsn .. MaxLsn
      <4>1. l \in Int /\ MinLsn <= l
        BY <3>2, BoundsAreIntegers
      <4> QED BY <3>1, <4>1, WellFormedMsf DEF MsfWellFormed
    <3>3. CASE l \notin MinLsn .. MaxLsn
      BY <3>1, <3>3 DEF MsfWellFormed
    <3> QED BY <3>2, <3>3
  <2>2. ASSUME NEW t \in Texts, ParseText(t) PROVE MsfWellFormed'
    BY <2>2 DEF ParseText, Answer, MsfWellFormed
  <2>3. CASE UNCHANGED answer
    BY <2>3 DEF MsfWellFormed
  <2> QED BY <2>1, <2>2, <2>3 DEF AddressNext
<1> QED BY <1>1, <1>2, PTL DEF AddressSpec

(* What cdio_msf_to_str prints of a sector on the disc is read back by     *)
(* cdio_mmssff_to_lba as that sector's address, and every text it accepts  *)
(* has seconds and frames in range, whatever its number of minutes.        *)
THEOREM PrintedAddressesParse == AddressSpec => []PrintedIsParsed
<1>1. AddressInit => PrintedIsParsed
  BY DEF AddressInit, Answer, PrintedIsParsed, ReadBack, ParsedInRange
<1>2. PrintedIsParsed /\ [AddressNext]_answer => PrintedIsParsed'
  <2> SUFFICES ASSUME PrintedIsParsed, [AddressNext]_answer PROVE PrintedIsParsed'
    OBVIOUS
  <2>1. ASSUME NEW l \in Lsns, ConvertLsn(l) PROVE PrintedIsParsed'
    <3>1. l \in Int
      BY MsfAddressAssumption
    <3>2. answer'.op = "lsn_to_msf" /\ answer'.arg = l /\ answer'.value = LsnToMsf(l)
      BY <2>1 DEF ConvertLsn, Answer
    <3>3. OnDisc(l) => MmssffToLba(MsfToStr(LsnToMsf(l))) = LsnToLba(l)
      BY <3>1, PrintedReadBack
    <3>4. ReadBack'
      BY <3>2, <3>3, Zenon DEF ReadBack
    <3>5. answer'.op # "mmssff_to_lba"
      BY <3>2
    <3> QED BY <3>4, <3>5, Zenon DEF PrintedIsParsed, ParsedInRange
  <2>2. ASSUME NEW t \in Texts, ParseText(t) PROVE PrintedIsParsed'
    <3>1. t \in Seq(Seq(0 .. NoDigit))
      BY MsfAddressAssumption
    <3>2. answer'.op = "mmssff_to_lba" /\ answer'.arg = t /\ answer'.value = MmssffToLba(t)
      BY <2>2 DEF ParseText, Answer
    <3>3. ParsedInRange'
      BY <3>1, <3>2, ParsedFields, Zenon DEF ParsedInRange
    <3>4. answer'.op # "lsn_to_msf"
      BY <3>2
    <3> QED BY <3>3, <3>4, Zenon DEF PrintedIsParsed, ReadBack
  <2>3. CASE UNCHANGED answer
    BY <2>3, Zenon DEF PrintedIsParsed, ReadBack, ParsedInRange
  <2> QED BY <2>1, <2>2, <2>3 DEF AddressNext
<1> QED BY <1>1, <1>2, PTL DEF AddressSpec

-----------------------------------------------------------------------------
(* Each track and the leadout start after the one before.                  *)
AllIncreasing == \A t \in Tocs : Increasing(t)

IInv == TypeOK /\ Increasing(toc) /\ SearchInv /\ AnswersSpanningTrack

LEMMA U8Identity == \A n \in 0 .. 255 : U8(n) = n
BY SMT DEF U8

LEMMA TrackNumbers ==
  ASSUME NEW f \in 1 .. 99, NEW n \in Nat, f + n <= 100
  PROVE  /\ f + n \in f .. 100 /\ f + n \in 0 .. 255
         /\ f + n - 1 \in 0 .. 255 /\ f + n - 1 + 1 = f + n
         /\ \A a \in f .. f + n : a # LeadoutTrack
BY DEF LeadoutTrack

LEMMA Bounds ==
  ASSUME IsToc(toc)
  PROVE  /\ toc.first \in 1 .. 99 /\ lead \in toc.first .. 100 /\ toc.tracks \in Nat
         /\ \A a \in toc.first .. lead : toc.start[a] \in Int /\ TrackLsn(a) = toc.start[a]
         /\ TrackLsn(LeadoutTrack) = toc.start[lead]
         /\ U8(LastTrackNum + 1) = lead
<1> DEFINE f == toc.first
           n == toc.tracks
           start == toc.start
<1>1. f \in 1 .. 99 /\ n \in Nat /\ f + n <= 100 /\ start \in [f .. f + n -> Int]
  BY Zenon DEF IsToc
<1>2. lead = f + n /\ LastTrackNum = U8(f + n - 1)
  BY Zenon DEF lead, LastTrackNum
<1>3. \A a : TrackLsn(a) =
        LET t == IF a = LeadoutTrack THEN lead ELSE a
        IN IF t \in f .. lead THEN start[t] ELSE InvalidLba
  BY Zenon DEF TrackLsn
<1> HIDE DEF f, n, start
<1>4. /\ lead \in f .. 100 /\ lead \in 0 .. 255
      /\ f + n - 1 \in 0 .. 255 /\ f + n - 1 + 1 = lead
      /\ \A a \in f .. lead : a # LeadoutTrack
  BY <1>1, <1>2, TrackNumbers
<1>5. \A a \in f .. lead : start[a] \in Int /\ TrackLsn(a) = start[a]
  BY <1>1, <1>2, <1>3, <1>4
<1>6. TrackLsn(LeadoutTrack) = start[lead]
  <2>1. TrackLsn(LeadoutTrack) = IF lead \in f .. lead THEN start[lead] ELSE InvalidLba
    BY <1>3, Zenon
  <2>2. lead \in f .. lead
    BY <1>1, <1>4
  <2> QED
    BY <2>1, <2>2, Zenon
<1>7. U8(LastTrackNum + 1) = lead
  BY <1>2, <1>4, U8Identity
<1> QED
  BY <1>1, <1>4, <1>5, <1>6, <1>7 DEF f, n, start

LEMMA InitEstablishes == ASSUME AllIncreasing PROVE Init => IInv
BY TrackLookupAssumption
   DEF AllIncreasing, Init, IInv, TypeOK, SearchInv, AnswersSpanningTrack, Answer

(* The bounds that cdio_get_track starts from.                             *)
LEMMA GetTrackStep ==
  ASSUME IInv, NEW l \in Int, GetTrack(l) PROVE IInv'
<1> USE Bounds DEF IInv, TypeOK, Answer
<1>0. toc' = toc /\ lsn' = l
  BY DEF GetTrack
<1>f. toc.start[toc.first] <= toc.start[lead] /\ toc.start[toc.first] \in Int /\ toc.start[lead] \in Int
  <2>1. toc.first \in toc.first .. lead /\ lead \in toc.first .. lead
    OBVIOUS
  <2>2. toc.first < lead => toc.start[toc.first] < toc.start[lead]
    BY <2>1 DEF Increasing, lead
  <2> QED
    BY <2>1, <2>2
<1>1. CASE l < TrackLsn(toc.first)
  <2>1. pc' = "idle" /\ answer' = Answer("get_track", l, 0) /\ UNCHANGED <<low, high>>
    BY <1>1 DEF GetTrack
  <2>2. l < toc.start[toc.first] /\ l < toc.start[lead]
    BY <1>1, <1>f
  <2>3. AnswersSpanningTrack'
    BY <1>0, <2>1, <2>2 DEF AnswersSpanningTrack, lead
  <2> QED
    BY <1>0, <2>1, <2>3 DEF SearchInv, lead, Increasing
<1>2. CASE l >= TrackLsn(toc.first) /\ l > TrackLsn(LeadoutTrack)
  <2>1. /\ pc' = "idle" /\ answer' = Answer("get_track", l, InvalidTrack)
        /\ UNCHANGED <<low, high>>
    BY <1>2 DEF GetTrack
  <2>2. l >= toc.start[toc.first] /\ l > toc.start[lead]
    BY <1>2, <1>f
  <2>3. AnswersSpanningTrack'
    BY <1>0, <2>1, <2>2 DEF AnswersSpanningTrack, lead
  <2> QED
    BY <1>0, <2>1, <2>3 DEF SearchInv, lead, Increasing
<1>3. CASE l \in TrackLsn(toc.first) .. TrackLsn(LeadoutTrack)
  <2>1. /\ pc' = "probe" /\ answer' = Answer("none", 0, 0)
        /\ low' = toc.first /\ high' = lead
    BY <1>3 DEF GetTrack
  <2>2. l \in toc.start[toc.first] .. toc.start[lead]
    BY <1>3
  <2>3. SearchInv'
    BY <1>0, <2>1, <2>2 DEF SearchInv, lead
  <2>4. TypeOK'
    BY <1>0, <2>1
  <2>5. AnswersSpanningTrack'
    BY <2>1 DEF AnswersSpanningTrack
  <2>6. Increasing(toc)'
    BY <1>0 DEF Increasing
  <2> QED
    BY <2>3, <2>4, <2>5, <2>6
<1> QED
  BY <1>1, <1>2, <1>3 DEF GetTrack

(* One probe keeps the LSN between the bounds.                             *)
LEMMA ProbeStep == ASSUME IInv, Probe PROVE IInv'
<1> DEFINE m == Mid
<1>0. UNCHANGED <<toc, lsn, answer>> /\ pc = "probe" /\ low <= high
  BY DEF Probe, IInv, SearchInv
<1>1. /\ toc.first \in 1 .. 99 /\ lead \in toc.first .. 100
      /\ low \in toc.first .. lead + 1 /\ high \in toc.first - 1 .. lead
      /\ lsn \in Int
  BY <1>0, Bounds DEF IInv, TypeOK, SearchInv
<1>2. m \in Int /\ low <= m /\ m <= high
  BY <1>0, <1>1, SMT DEF Mid
<1> HIDE DEF m
<1>3. m \in toc.first .. lead
  BY <1>1, <1>2
<1>4. toc.start[m] \in Int /\ TrackLsn(m) = toc.start[m]
  BY <1>3, Bounds DEF IInv, TypeOK
<1>5. U8(m + 1) = m + 1 /\ U8(m - 1) = m - 1
  BY <1>1, <1>3, U8Identity
<1>6. /\ low' = IF lsn >= toc.start[m] THEN m + 1 ELSE low
      /\ high' = IF lsn <= toc.start[m] THEN m - 1 ELSE high
      /\ pc' = IF low' <= high' THEN "probe" ELSE "found"
  BY <1>4, <1>5 DEF Probe, LowAfter, HighAfter, m
<1>7. \A a, b \in toc.first .. lead : a < b => toc.start[a] < toc.start[b]
  BY DEF IInv, Increasing, lead
<1>8. \A a \in toc.first .. lead : toc.start[a] \in Int
  BY Bounds DEF IInv, TypeOK
<1>9. /\ lsn \in toc.start[toc.first] .. toc.start[lead]
      /\ \A a \in toc.first .. lead : a < low => toc.start[a] < lsn
      /\ \A a \in toc.first .. lead : a > high => toc.start[a] > lsn
  <2>1. ~(low = high + 2)
    BY <1>0, <1>1
  <2> QED
    BY <1>0, <2>1 DEF IInv, SearchInv
<1>10. SearchInv'
  <2>1. CASE lsn = toc.start[m]
    <3>1. low' = m + 1 /\ high' = m - 1 /\ pc' = "found"
      BY <1>2, <1>4, <1>6, <2>1
    <3>2. /\ \A a \in toc.first .. lead : a < low' => toc.start[a] <= lsn
          /\ \A a \in toc.first .. lead : a > high' => toc.start[a] >= lsn
      BY <1>1, <1>3, <1>7, <1>8, <2>1, <3>1
    <3>3. toc.start[high' + 1] = lsn
      <4>1. high' + 1 = m
        BY <1>2, <3>1
      <4> QED
        BY <4>1, <2>1
    <3> QED
      BY <1>0, <1>1, <1>3, <1>9, <2>1, <3>1, <3>2, <3>3 DEF SearchInv, lead
  <2>2. CASE lsn > toc.start[m]
    <3>1. low' = m + 1 /\ high' = high
      BY <1>4, <1>6, <2>2, <1>1
    <3>2. \A a \in toc.first .. lead : a < low' => toc.start[a] < lsn
      BY <1>1, <1>3, <1>7, <1>8, <2>2, <3>1
    <3>3. low' <= high' + 1
      BY <1>1, <1>2, <3>1
    <3> QED
      BY <1>0, <1>1, <1>3, <1>6, <1>8, <1>9, <3>1, <3>2, <3>3 DEF SearchInv, lead
  <2>3. CASE lsn < toc.start[m]
    <3>1. low' = low /\ high' = m - 1
      BY <1>4, <1>6, <2>3, <1>1
    <3>2. \A a \in toc.first .. lead :
            /\ a < low' => toc.start[a] < lsn /\ toc.start[a] <= lsn
            /\ a > high' => toc.start[a] > lsn /\ toc.start[a] >= lsn
      BY <1>1, <1>3, <1>7, <1>8, <1>9, <2>3, <3>1
    <3>3. low' <= high' + 1
      BY <1>1, <1>2, <3>1
    <3>4. low' \in toc.first .. lead + 1 /\ high' \in toc.first - 1 .. lead
      BY <1>1, <1>3, <3>1
    <3>5. (pc' = "probe" => low' <= high') /\ (pc' = "found" => low' > high')
      BY <1>6, <3>4, <1>1
    <3> QED
      BY <1>0, <1>1, <1>9, <3>2, <3>3, <3>4, <3>5 DEF SearchInv, lead
  <2> QED
    BY <1>1, <1>4, <2>1, <2>2, <2>3
<1>11. TypeOK'
  BY <1>0, <1>1, <1>3, <1>6 DEF IInv, TypeOK
<1> QED
  BY <1>0, <1>10, <1>11 DEF IInv, AnswersSpanningTrack, Spans, Increasing, lead

(* What is left when the bounds have crossed is the track that spans the   *)
(* LSN, or the leadout.                                                    *)
LEMMA FoundStep == ASSUME IInv, Found PROVE IInv'
<1>0. /\ UNCHANGED <<toc, lsn, low, high>> /\ pc = "found" /\ pc' = "idle" /\ low > high
      /\ answer' = Answer("get_track", lsn,
                     IF HighOnceFound = lead THEN LeadoutTrack ELSE HighOnceFound)
  BY DEF Found, IInv, SearchInv
<1>1. /\ toc.first \in 1 .. 99 /\ lead \in toc.first .. 100
      /\ low \in toc.first .. lead + 1 /\ high \in toc.first - 1 .. lead
      /\ lsn \in toc.start[toc.first] .. toc.start[lead]
      /\ \A a \in toc.first .. lead : toc.start[a] \in Int
  BY <1>0, Bounds DEF IInv, TypeOK, SearchInv
<1>2. \A a, b \in toc.first .. lead : a < b => toc.start[a] < toc.start[b]
  BY DEF IInv, Increasing, lead
<1> DEFINE r == HighOnceFound
<1>3. r \in toc.first .. lead /\ toc.start[r] <= lsn /\ (r < lead => lsn < toc.start[r + 1])
  <2>1. CASE low = high + 2 /\ toc.start[high + 1] = lsn
    <3>1. r = high + 1
      BY <2>1, <1>1 DEF HighOnceFound
    <3>2. r \in toc.first .. lead
      BY <1>1, <2>1, <3>1
    <3> QED
      BY <1>1, <1>2, <2>1, <3>1, <3>2
  <2>2. CASE low <= high + 1 /\ \A a \in toc.first .. lead :
                (a < low => toc.start[a] < lsn) /\ (a > high => toc.start[a] > lsn)
    <3>1. r = high /\ low = high + 1
      BY <1>0, <1>1, <2>2 DEF HighOnceFound
    <3>2. high # toc.first - 1
      BY <1>1, <2>2
    <3>3. high \in toc.first .. lead
      BY <1>1, <3>2
    <3> QED
      BY <1>1, <2>2, <3>1, <3>3
  <2> QED
    BY <1>0, <2>1, <2>2 DEF IInv, SearchInv
<1> HIDE DEF r
<1>4. answer' = [op |-> "get_track", arg |-> lsn, value |-> IF r = lead THEN LeadoutTrack ELSE r]
  BY <1>0 DEF Answer, r
<1>5. AnswersSpanningTrack'
  <2>1. CASE r = lead
    <3>1. lsn = toc.start[lead] /\ answer'.value = LeadoutTrack /\ answer'.arg = lsn
      BY <1>1, <1>3, <1>4, <2>1
    <3> QED
      BY <1>0, <1>1, <3>1 DEF AnswersSpanningTrack, lead
  <2>2. CASE r # lead
    <3>1. /\ r \in toc.first .. lead - 1 /\ r + 1 \in toc.first .. lead
          /\ toc.start[r] <= lsn /\ lsn < toc.start[r + 1]
          /\ toc.start[r + 1] <= toc.start[lead]
      BY <1>1, <1>2, <1>3, <2>2
    <3>2. answer'.value = r /\ answer'.arg = lsn
      BY <1>4, <2>2
    <3>3. toc.start[toc.first] <= lsn /\ lsn < toc.start[lead] /\ toc.start[lead] \in Int
          /\ toc.start[r + 1] \in Int /\ toc.start[toc.first] \in Int
      BY <1>1, <3>1
    <3> QED
      BY <1>0, <1>1, <3>1, <3>2, <3>3 DEF AnswersSpanningTrack, lead, Spans
  <2> QED
    BY <2>1, <2>2
<1> QED
  BY <1>0, <1>4, <1>5 DEF IInv, TypeOK, SearchInv, Increasing

LEMMA NextPreserves == IInv /\ [Next]_vars => IInv'
<1> SUFFICES ASSUME IInv, [Next]_vars PROVE IInv'
  OBVIOUS
<1>1. ASSUME NEW l \in Lsns, GetTrack(l) PROVE IInv'
  <2>1. l \in Int
    BY MsfAddressAssumption
  <2> QED
    BY <1>1, <2>1, GetTrackStep
<1>2. CASE Probe
  BY <1>2, ProbeStep
<1>3. CASE Found
  BY <1>3, FoundStep
<1>4. ASSUME NEW track,
             GetTrackLastLsn(track) \/ GetTrackSecCount(track) \/ GetTrackMsf(track)
      PROVE  IInv'
  BY <1>4 DEF GetTrackLastLsn, GetTrackSecCount, GetTrackMsf, Answer, IInv, TypeOK, SearchInv,
              AnswersSpanningTrack, Increasing
<1>5. CASE UNCHANGED vars
  BY <1>5 DEF vars, IInv, TypeOK, SearchInv, AnswersSpanningTrack, Increasing, Spans, lead
<1> QED
  BY <1>1, <1>2, <1>3, <1>4, <1>5 DEF Next, Query

(* On a disc without empty tracks cdio_get_track always answers with the   *)
(* track that spans the LSN.                                               *)
THEOREM LookupCorrect == ASSUME AllIncreasing PROVE Spec => []AnswersSpanningTrack
<1>1. IInv => AnswersSpanningTrack
  BY DEF IInv
<1> QED
  BY <1>1, InitEstablishes, NextPreserves, PTL DEF Spec

(* No probe asks for a track number outside the table, and the eight-bit   *)
(* bounds never wrap.                                                      *)
THEOREM ProbesStayInside == ASSUME AllIncreasing PROVE Spec => []ProbesInsideTable
<1>1. IInv => ProbesInsideTable
  <2> SUFFICES ASSUME IInv, pc = "probe" PROVE ProbesInsideTable
    BY DEF ProbesInsideTable
  <2>1. /\ low \in toc.first .. lead + 1 /\ high \in toc.first - 1 .. lead /\ low <= high
        /\ toc.first \in 1 .. 99 /\ lead \in Int
    BY Bounds DEF IInv, TypeOK, SearchInv
  <2> QED
    BY <2>1 DEF ProbesInsideTable
<1> QED
  BY <1>1, InitEstablishes, NextPreserves, PTL DEF Spec

(* On such a disc, with no track before the first LSN of all, the sector   *)
(* that cdio_get_track_last_lsn answers with is the track's own, also for  *)
(* the last track, which ends at the leadout's entry.                      *)
AfterOrigin(t) == \A a \in t.first .. t.first + t.tracks : t.start[a] >= 0
LastInv == IInv /\ AfterOrigin(toc) /\ LastLsnInTrack

LEMMA LastLsnStep ==
  ASSUME LastInv, NEW track \in toc.first .. lead, GetTrackLastLsn(track)
  PROVE  LastLsnInTrack'
<1>0. /\ UNCHANGED toc /\ answer' = [op |-> "last_lsn", arg |-> track, value |-> TrackLastLsn(track)]
  BY DEF GetTrackLastLsn, Answer
<1>1. /\ toc.first \in 1 .. 99 /\ lead \in toc.first .. 100
      /\ \A a \in toc.first .. lead : toc.start[a] \in Int
  BY Bounds DEF LastInv, IInv, TypeOK
<1>2. /\ \A a, b \in toc.first .. lead : a < b => toc.start[a] < toc.start[b]
      /\ \A a \in toc.first .. lead : toc.start[a] >= 0
  BY DEF LastInv, IInv, Increasing, AfterOrigin, lead
<1>3. SUFFICES ASSUME track < lead PROVE Spans(track, TrackLastLsn(track))
  BY <1>0 DEF LastLsnInTrack, Spans, lead
<1>4. track + 1 \in toc.first .. lead /\ U8(track + 1) = track + 1 /\ track + 1 # LeadoutTrack
  BY <1>1, <1>3 DEF U8, LeadoutTrack
<1>5. TrackLsn(U8(track + 1)) = toc.start[track + 1] /\ toc.start[track + 1] # InvalidLba
  BY <1>1, <1>2, <1>4 DEF TrackLsn, InvalidLba
<1>6. TrackLastLsn(track) = toc.start[track + 1] - 1
  BY <1>5 DEF TrackLastLsn
<1>7. toc.start[track] < toc.start[track + 1] /\ toc.start[track] \in Int /\ toc.start[track + 1] \in Int
  BY <1>1, <1>2, <1>3, <1>4
<1> QED
  BY <1>6, <1>7 DEF Spans

THEOREM LastSectorInTrack ==
  ASSUME AllIncreasing, \A t \in Tocs : AfterOrigin(t)
  PROVE  Spec => []LastLsnInTrack
<1>1. Init => LastInv
  BY InitEstablishes DEF Init, LastInv, LastLsnInTrack, Answer
<1>2. LastInv /\ [Next]_vars => LastInv'
  <2> SUFFICES ASSUME LastInv, [Next]_vars PROVE LastInv'
    OBVIOUS
  <2>1. IInv'
    BY NextPreserves DEF LastInv
  <2>2. UNCHANGED toc
    BY DEF Next, Query, GetTrack, GetTrackLastLsn, GetTrackSecCount, GetTrackMsf,
           Probe, Found, vars
  <2>3. LastLsnInTrack'
    <3>1. ASSUME NEW l \in Lsns, GetTrack(l) PROVE LastLsnInTrack'
      BY <3>1 DEF GetTrack, Answer, LastLsnInTrack
    <3>2. ASSUME NEW track \in toc.first .. lead, GetTrackLastLsn(track) PROVE LastLsnInTrack'
      BY <3>2, LastLsnStep
    <3>3. ASSUME NEW track \in toc.first .. lead, GetTrackSecCount(track) \/ GetTrackMsf(track)
          PROVE  LastLsnInTrack'
      BY <3>3 DEF GetTrackSecCount, GetTrackMsf, Answer, LastLsnInTrack
    <3>4. CASE Found
      BY <3>4 DEF Found, Answer, LastLsnInTrack
    <3>5. CASE Probe \/ UNCHANGED vars
      BY <3>5 DEF Probe, vars, LastInv, LastLsnInTrack, Spans, lead
    <3> QED
      BY <3>1, <3>2, <3>3, <3>4, <3>5 DEF Next, Query
  <2> QED
    BY <2>1, <2>2, <2>3 DEF LastInv, AfterOrigin
<1>3. LastInv => LastLsnInTrack
  BY DEF LastInv
<1> QED
  BY <1>1, <1>2, <1>3, PTL DEF Spec

-----------------------------------------------------------------------------
(* The MSF that cdio_get_track_msf gives of a track of any table names the *)
(* LSN the track starts at.                                                *)
THEOREM TrackMsfNamesStart == Spec => []MsfNamesTrack
<1> DEFINE Inv == IsToc(toc) /\ MsfNamesTrack
<1>1. Init => Inv
  BY TrackLookupAssumption DEF Init, MsfNamesTrack, Answer
<1>2. Inv /\ [Next]_vars => Inv'
  <2> SUFFICES ASSUME Inv, [Next]_vars PROVE Inv'
    OBVIOUS
  <2>1. UNCHANGED toc
    BY DEF Next, Query, GetTrack, GetTrackLastLsn, GetTrackSecCount, GetTrackMsf,
           Probe, Found, vars
  <2>2. ASSUME NEW track \in toc.first .. lead, GetTrackMsf(track) PROVE MsfNamesTrack'
    <3>1. answer'.arg = track /\ answer'.value = LsnToMsf(TrackLsn(track))
      BY <2>2 DEF GetTrackMsf, StartMsf, Answer
    <3>2. TrackLsn(track) = toc.start[track] /\ toc.start[track] \in Int
      BY Bounds
    <3>3. OnDisc(toc.start[track]) => MsfToLsn(LsnToMsf(toc.start[track])) = toc.start[track]
      BY <3>2, LsnRoundTrip
    <3> QED
      BY <2>1, <3>1, <3>2, <3>3 DEF MsfNamesTrack
  <2>3. ASSUME NEW track, GetTrackLastLsn(track) \/ GetTrackSecCount(track) PROVE MsfNamesTrack'
    BY <2>3 DEF GetTrackLastLsn, GetTrackSecCount, Answer, MsfNamesTrack
  <2>4. ASSUME NEW l, GetTrack(l) PROVE MsfNamesTrack'
    BY <2>4 DEF GetTrack, Answer, MsfNamesTrack
  <2>5. CASE Probe \/ UNCHANGED vars
    BY <2>1, <2>5 DEF Probe, vars, MsfNamesTrack
  <2>6. CASE Found
    BY <2>6 DEF Found, Answer, MsfNamesTrack
  <2> QED
    BY <2>1, <2>2, <2>3, <2>4, <2>5, <2>6 DEF Next, Query
<1> QED
  BY <1>1, <1>2, PTL DEF Spec
-----------------------------------------------------------------------------
(* The MMC commands, by the routine of any platform.                       *)
DriveFields == {"kind", "disc", "open", "locked", "attention", "event", "blocksize"}
MmcDisc == MmcDiscs \cup {Mmc!NoDisc}
IsDrive(d) ==
  /\ DOMAIN d = DriveFields /\ d = [x \in DOMAIN d |-> d[x]]
  /\ d.kind \in Drives /\ d.disc \in MmcDisc
  /\ {d.open, d.locked, d.attention} \subseteq BOOLEAN

(* The calls of several commands, as far as they have got.                 *)
SectorType == [of : {d.name : d \in MmcDisc}, lsn : Int]
EjectCalls == [op : {"eject"}, step : {"allow", "open"}]
ReadCalls == [op : {"read_cd"}, lsn : Int, wanted : Nat, left : Nat, j : Nat, buf : Seq(SectorType)]
QueryCalls == [op : {"mcn", "isrc", "cdtext"}, step : {"size", "read"}, size : Nat]
SenseCalls == [op : {"mode_sense", "volume", "mmc_level", "get_blocksize"}, step : {"six", "ten"}]
CapCalls == [op : {"drive_cap"}, step : {"length", "pages"}, asked : Int, again : BOOLEAN]

(* The disc named n is in the drive still, or the next command will fail.  *)
Steady(d, n) == d.open \/ d.attention \/ d.disc = Mmc!NoDisc \/ d.disc.name = n

ReadSoFar(c, d) ==
  c.op = "read_cd" =>
    /\ c \in ReadCalls
    /\ Len(c.buf) = c.j /\ c.j + c.left = c.wanted
    /\ Mmc!BlocksInOrder(c, c.buf)
    /\ c.buf # << >> => Steady(d, c.buf[1].of)

Queried(c, d) ==
  c.op \in {"mcn", "isrc", "cdtext"} =>
    /\ c.step \in {"size", "read"} /\ DOMAIN c = {"op", "step", "size"}
    /\ c = [x \in DOMAIN c |-> c[x]]
    /\ c.step = "read" => \/ d.open \/ d.attention \/ d.disc = Mmc!NoDisc
                          \/ c.size = Mmc!Available(d.disc, c.op)

Capable(c, d) ==
  c.op = "drive_cap" =>
    /\ DOMAIN c = {"op", "step", "asked", "again"} /\ c = [x \in DOMAIN c |-> c[x]]
    /\ c.step \in {"length", "pages"}
    /\ c.asked \in {Mmc!Default, Mmc!LengthOf(d.kind.pages)}

Stepping(c) ==
  c.op \in {"eject", "linux_mode"} =>
    /\ DOMAIN c = {"op", "step"} /\ c = [x \in DOMAIN c |-> c[x]]
    /\ c.op = "eject" => c.step \in {"allow", "open"}

SenseOfLast ==
  /\ valid \in {happened, "none", "blank"}
  /\ transport \in {"linux", "solaris", "win32"} => valid = happened
  /\ transport = "cam" /\ happened \in {"refused", "attention"} => valid = happened

MInv ==
  /\ IsDrive(drive)
  /\ call # Mmc!Idle => reply = Mmc!Silent
  /\ call.op = "none" => call = Mmc!Idle
  /\ ReadSoFar(call, drive) /\ Queried(call, drive) /\ Capable(call, drive) /\ Stepping(call)
  /\ SenseOfLast

-----------------------------------------------------------------------------
(* What may come of a command.                                             *)
LEMMA CarriedDrive ==
  ASSUME NEW d, IsDrive(d), NEW c, c.op = "PREVENT_ALLOW" => c.prevent \in BOOLEAN
  PROVE  LET e == Mmc!Carried(c, d)
         IN  IsDrive(e) /\ e.disc = d.disc /\ e.kind = d.kind
  BY DEF IsDrive, Mmc!Carried, DriveFields

LEMMA OutcomeOf ==
  ASSUME NEW d, IsDrive(d), NEW c, c.op = "PREVENT_ALLOW" => c.prevent \in BOOLEAN,
         NEW o \in Mmc!Outcomes(c, d)
  PROVE  /\ IsDrive(o.drive) /\ o.drive.disc = d.disc /\ o.drive.kind = d.kind
         /\ o.ok \in BOOLEAN
         /\ o.sense \in {"none", "attention", "recovered", "refused"}
         /\ o.ok => /\ Mmc!Accepts(c, d) /\ o.drive = Mmc!Carried(c, d)
                    /\ ~d.attention \/ Mmc!Query(c)
                    /\ o.sense \in {"none", "recovered"}
<1>1. \/ o = Mmc!Outcome(FALSE, "none", d)
      \/ o = Mmc!Outcome(FALSE, "attention", [d EXCEPT !.attention = FALSE])
      \/ o = Mmc!Outcome(FALSE, "refused", d)
      \/ /\ \E s \in {"none", "recovered"} : o = Mmc!Outcome(TRUE, s, Mmc!Carried(c, d))
         /\ Mmc!Accepts(c, d) /\ ~(d.attention /\ ~Mmc!Query(c))
  BY DEF Mmc!Outcomes
<1>2. IsDrive([d EXCEPT !.attention = FALSE]) /\ [d EXCEPT !.attention = FALSE].disc = d.disc
      /\ [d EXCEPT !.attention = FALSE].kind = d.kind
  BY DEF IsDrive, DriveFields
<1>3. CASE o = Mmc!Outcome(FALSE, "none", d) \/ o = Mmc!Outcome(FALSE, "refused", d)
  <2>1. o.ok = FALSE /\ o.sense \in {"none", "refused"} /\ o.drive = d
    BY <1>3 DEF Mmc!Outcome
  <2> QED BY <2>1
<1>4. CASE o = Mmc!Outcome(FALSE, "attention", [d EXCEPT !.attention = FALSE])
  <2>1. o.ok = FALSE /\ o.sense = "attention" /\ o.drive = [d EXCEPT !.attention = FALSE]
    BY <1>4 DEF Mmc!Outcome
  <2> QED BY <1>2, <2>1
<1>5. ASSUME NEW s \in {"none", "recovered"}, o = Mmc!Outcome(TRUE, s, Mmc!Carried(c, d)),
             Mmc!Accepts(c, d), ~(d.attention /\ ~Mmc!Query(c))
      PROVE  /\ IsDrive(o.drive) /\ o.drive.disc = d.disc /\ o.drive.kind = d.kind
             /\ o.ok = TRUE /\ o.sense = s /\ o.drive = Mmc!Carried(c, d)
  <2>1. o.ok = TRUE /\ o.sense = s /\ o.drive = Mmc!Carried(c, d)
    BY <1>5 DEF Mmc!Outcome
  <2>2. LET e == Mmc!Carried(c, d) IN IsDrive(e) /\ e.disc = d.disc /\ e.kind = d.kind
    BY CarriedDrive
  <2> QED BY <2>1, <2>2
<1> QED BY <1>1, <1>3, <1>4, <1>5

LEMMA SenseIsLast ==
  ASSUME SenseOfLast, NEW o, Mmc!Sent(o), UNCHANGED transport,
         o.sense \in {"none", "attention", "recovered", "refused"},
         o.ok => o.sense \in {"none", "recovered"}
  PROVE  SenseOfLast'
BY DEF SenseOfLast, Mmc!Sent, Mmc!SensesAfter, Mmc!SenseLinux, Mmc!SenseSolaris,
   Mmc!SenseWin32, Mmc!SenseCam, Mmc!SenseAspi, Mmc!SenseNetBsd, Mmc!SenseOsx

(* The read of a disc goes on as that disc's while it lies in the drive.   *)
LEMMA SteadyOn ==
  ASSUME NEW d, NEW e, NEW n, IsDrive(d), Steady(d, n), e.disc = d.disc, e.open = d.open,
         e.attention = d.attention
  PROVE  Steady(e, n)
BY DEF Steady

LEMMA KeepsCall ==
  ASSUME MInv, IsDrive(drive'), drive'.disc = drive.disc, drive'.kind = drive.kind,
         drive'.open = drive.open, drive'.attention = drive.attention,
         UNCHANGED <<call, reply>>, SenseOfLast'
  PROVE  MInv'
BY DEF MInv, ReadSoFar, Queried, Capable, Stepping, Steady

LEMMA NoCall ==
  ASSUME IsDrive(drive'), call' = Mmc!Idle, SenseOfLast'
  PROVE  MInv'
BY DEF MInv, ReadSoFar, Queried, Capable, Stepping, Mmc!Idle

LEMMA OneCommandInv ==
  ASSUME MInv, NEW c, c.op = "PREVENT_ALLOW" => c.prevent \in BOOLEAN, NEW name, NEW a,
         Mmc!Ready, Mmc!OneCommand(c, name, a), UNCHANGED transport
  PROVE  MInv'
<1>1. PICK o \in Mmc!Outcomes(c, drive) : Mmc!Sent(o)
  BY DEF Mmc!OneCommand
<1>2. IsDrive(drive') /\ SenseOfLast'
  BY <1>1, OutcomeOf, SenseIsLast DEF MInv, Mmc!Sent
<1>3. call' = Mmc!Idle
  BY DEF Mmc!OneCommand, Mmc!Ready
<1> QED BY <1>2, <1>3, NoCall

(* The calls of one command.                                               *)
Single ==
  \/ Mmc!TestUnitReady \/ Mmc!CloseTray \/ Mmc!PreventRemoval \/ Mmc!SetBlocksize \/ Mmc!TrayStatus
  \/ Mmc!MediaChanged \/ Mmc!HaveInterface \/ Mmc!DiscType \/ Mmc!SetSpeed \/ Mmc!AskDisc \/ Mmc!HwInfo

LEMMA SingleInv == ASSUME MInv, Single, UNCHANGED transport PROVE MInv'
<1>1. CASE Mmc!TestUnitReady
  BY <1>1, OneCommandInv DEF Mmc!TestUnitReady
<1>2. CASE Mmc!CloseTray
  BY <1>2, OneCommandInv DEF Mmc!CloseTray
<1>3. CASE Mmc!PreventRemoval
  BY <1>3, OneCommandInv DEF Mmc!PreventRemoval
<1>4. CASE Mmc!SetBlocksize
  BY <1>4, OneCommandInv DEF Mmc!SetBlocksize
<1>5. CASE Mmc!TrayStatus
  BY <1>5, OneCommandInv DEF Mmc!TrayStatus
<1>6. CASE Mmc!MediaChanged
  BY <1>6, OneCommandInv DEF Mmc!MediaChanged
<1>7. CASE Mmc!HaveInterface
  BY <1>7, OneCommandInv DEF Mmc!HaveInterface
<1>8. CASE Mmc!DiscType
  BY <1>8, OneCommandInv DEF Mmc!DiscType
<1>9. CASE Mmc!SetSpeed
  BY <1>9, OneCommandInv, NoCall DEF Mmc!SetSpeed, Mmc!Ready, MInv, SenseOfLast
<1>10. CASE Mmc!AskDisc
  BY <1>10, OneCommandInv DEF Mmc!AskDisc
<1>11. CASE Mmc!HwInfo
  BY <1>11, OneCommandInv DEF Mmc!HwInfo
<1> QED BY <1>1, <1>2, <1>3, <1>4, <1>5, <1>6, <1>7, <1>8, <1>9, <1>10, <1>11 DEF Single

-----------------------------------------------------------------------------
(* The calls of several commands.                                          *)
LEMMA StartsInv ==
  ASSUME MInv, Mmc!MmcConstants, UNCHANGED transport,
         \/ Mmc!StartEject \/ Mmc!StartRead \/ Mmc!StartQuery \/ Mmc!StartSense \/ Mmc!StartCap
         \/ Mmc!StartLinuxMode
  PROVE  MInv'
<1>1. ASSUME NEW c, Mmc!Start(c), c.op # "none",
             ReadSoFar(c, drive), Queried(c, drive), Capable(c, drive), Stepping(c)
      PROVE  MInv'
  BY <1>1 DEF Mmc!Start, MInv, SenseOfLast
<1>2. CASE Mmc!StartEject
  BY <1>1, <1>2 DEF Mmc!StartEject, ReadSoFar, Queried, Capable, Stepping
<1>3. CASE Mmc!StartRead
  <2>1. PICK r \in Requests :
          Mmc!Start([op |-> "read_cd", lsn |-> r[1], wanted |-> r[2], left |-> r[2], j |-> 0, buf |-> << >>])
    BY <1>3 DEF Mmc!StartRead
  <2> DEFINE c == [op |-> "read_cd", lsn |-> r[1], wanted |-> r[2], left |-> r[2], j |-> 0, buf |-> << >>]
  <2>2. r[1] \in Int /\ r[2] \in Nat
    BY DEF Mmc!MmcConstants
  <2>3. ReadSoFar(c, drive)
    BY <2>2 DEF ReadSoFar, ReadCalls, Mmc!BlocksInOrder
  <2> QED BY <1>1, <2>1, <2>3 DEF Queried, Capable, Stepping
<1>4. CASE Mmc!StartQuery
  BY <1>1, <1>4 DEF Mmc!StartQuery, ReadSoFar, Queried, Capable, Stepping
<1>5. CASE Mmc!StartSense
  BY <1>1, <1>5 DEF Mmc!StartSense, ReadSoFar, Queried, Capable, Stepping
<1>6. CASE Mmc!StartCap
  BY <1>1, <1>6 DEF Mmc!StartCap, ReadSoFar, Queried, Capable, Stepping
<1>7. CASE Mmc!StartLinuxMode
  BY <1>1, <1>7 DEF Mmc!StartLinuxMode, ReadSoFar, Queried, Capable, Stepping
<1> QED BY <1>2, <1>3, <1>4, <1>5, <1>6, <1>7

LEMMA EjectInv == ASSUME MInv, Mmc!Eject, UNCHANGED transport PROVE MInv'
<1>1. PICK o \in Mmc!Outcomes(Mmc!EjectCommand(call.step), drive) :
        /\ Mmc!Sent(o)
        /\ IF o.ok /\ call.step = "allow" THEN Mmc!GoOn([call EXCEPT !.step = "open"])
           ELSE Mmc!End(o.ok, "done")
  BY DEF Mmc!Eject
<1>2. call.op = "eject" /\ reply = Mmc!Silent
  BY DEF Mmc!Eject, MInv, Mmc!Idle
<1>3. LET c == Mmc!EjectCommand(call.step) IN c.op = "PREVENT_ALLOW" => c.prevent \in BOOLEAN
  BY DEF Mmc!EjectCommand
<1>4. IsDrive(drive') /\ SenseOfLast'
  BY <1>1, <1>3, OutcomeOf, SenseIsLast DEF MInv, Mmc!Sent
<1>5. CASE Mmc!GoOn([call EXCEPT !.step = "open"])
  <2>1. call' = [call EXCEPT !.step = "open"] /\ reply' = reply
    BY <1>5 DEF Mmc!GoOn
  <2>2. call'.op = "eject" /\ Stepping(call')
    BY <1>2, <2>1 DEF MInv, Stepping
  <2> QED BY <1>2, <1>4, <2>1, <2>2 DEF MInv, ReadSoFar, Queried, Capable
<1>6. CASE Mmc!End(o.ok, "done")
  BY <1>4, <1>6, NoCall DEF Mmc!End
<1> QED BY <1>1, <1>5, <1>6

LEMMA ModeInv == ASSUME MInv, Mmc!LinuxMode, UNCHANGED transport PROVE MInv'
<1>1. call.op = "linux_mode" /\ reply = Mmc!Silent /\ IsDrive(drive) /\ SenseOfLast
  BY DEF Mmc!LinuxMode, MInv, Mmc!Idle
<1>2. DOMAIN call = {"op", "step"} /\ call = [x \in DOMAIN call |-> call[x]]
  BY <1>1 DEF MInv, Stepping
<1>3. IsDrive(drive') /\ SenseOfLast'
  <2>1. CASE Mmc!DvdDiscMode \/ Mmc!StatusMode
    BY <1>1, <2>1 DEF Mmc!DvdDiscMode, Mmc!StatusMode, SenseOfLast
  <2>2. CASE Mmc!FullTocMode
    <3> DEFINE c == [op |-> "READ_TOC"]
    <3>1. PICK o \in Mmc!Outcomes(c, drive) : Mmc!Sent(o)
      BY <2>2 DEF Mmc!FullTocMode
    <3>2. c.op # "PREVENT_ALLOW"
      OBVIOUS
    <3> QED BY <1>1, <3>1, <3>2, OutcomeOf, SenseIsLast DEF Mmc!Sent
  <2> QED BY <2>1, <2>2 DEF Mmc!LinuxMode
<1>4. \/ \E s : Mmc!GoOn([call EXCEPT !.step = s])
      \/ \E ok, v : Mmc!End(ok, v)
  BY DEF Mmc!LinuxMode, Mmc!DvdDiscMode, Mmc!FullTocMode, Mmc!StatusMode
<1>5. ASSUME NEW s, Mmc!GoOn([call EXCEPT !.step = s]) PROVE MInv'
  <2>1. call' = [call EXCEPT !.step = s] /\ reply' = reply
    BY <1>5 DEF Mmc!GoOn
  <2>2. /\ DOMAIN call' = {"op", "step"} /\ call' = [x \in DOMAIN call' |-> call'[x]]
        /\ call'.op = "linux_mode"
    BY <1>1, <1>2, <2>1
  <2> QED BY <1>1, <1>3, <2>1, <2>2 DEF MInv, ReadSoFar, Queried, Capable, Stepping
<1>6. CASE \E ok, v : Mmc!End(ok, v)
  BY <1>3, <1>6, NoCall DEF Mmc!End
<1> QED BY <1>4, <1>5, <1>6

LEMMA SenseInv == ASSUME MInv, Mmc!ModeSense, UNCHANGED transport PROVE MInv'
<1>1. PICK o \in Mmc!Outcomes(Mmc!SenseCommand(call.step), drive) :
        /\ Mmc!Sent(o)
        /\ IF ~o.ok /\ call.step = "six" THEN Mmc!GoOn([call EXCEPT !.step = "ten"])
           ELSE \E v : Mmc!End(o.ok, v)
  BY DEF Mmc!ModeSense
<1>2. call.op \in {"mode_sense", "volume", "mmc_level", "get_blocksize"} /\ reply = Mmc!Silent
  BY DEF Mmc!ModeSense, MInv, Mmc!Idle
<1>3. Mmc!SenseCommand(call.step).op # "PREVENT_ALLOW"
  BY DEF Mmc!SenseCommand
<1>4. IsDrive(drive') /\ SenseOfLast'
  BY <1>1, <1>3, OutcomeOf, SenseIsLast DEF MInv, Mmc!Sent
<1>5. CASE Mmc!GoOn([call EXCEPT !.step = "ten"])
  <2>1. call' = [call EXCEPT !.step = "ten"] /\ reply' = reply
    BY <1>5 DEF Mmc!GoOn
  <2>2. call'.op = call.op
    BY <2>1, <1>2
  <2> QED BY <1>2, <1>4, <2>1, <2>2 DEF MInv, ReadSoFar, Queried, Capable, Stepping
<1>6. CASE \E v : Mmc!End(o.ok, v)
  BY <1>4, <1>6, NoCall DEF Mmc!End
<1> QED BY <1>1, <1>5, <1>6

(* What is available of a disc is a number.                                *)
LEMMA AvailableIsNat ==
  ASSUME Mmc!MmcConstants, NEW d \in MmcDisc, NEW what
  PROVE  Mmc!Available(d, what) \in Nat
BY DEF Mmc!MmcConstants, MmcDisc, Mmc!Available, Mmc!NoDisc

LEMMA QueryInv == ASSUME MInv, Mmc!QuerySubchannel, UNCHANGED transport PROVE MInv'
<1>1. PICK o \in Mmc!Outcomes(Mmc!QueryCommand(call.op), drive) :
        /\ Mmc!Sent(o)
        /\ \/ \E ok, v : Mmc!End(ok, v)
           \/ /\ o.ok
              /\ Mmc!GoOn([call EXCEPT !.step = "read", !.size = Mmc!Available(drive.disc, call.op)])
  BY DEF Mmc!QuerySubchannel
<1>2. call.op \in {"mcn", "isrc", "cdtext"} /\ reply = Mmc!Silent
  BY DEF Mmc!QuerySubchannel, MInv, Mmc!Idle
<1>3. Mmc!QueryCommand(call.op).op \in {"READ_TOC", "READ_SUBCHANNEL"}
  BY DEF Mmc!QueryCommand
<1>4. IsDrive(drive') /\ SenseOfLast' /\ drive'.disc = drive.disc
  BY <1>1, <1>3, OutcomeOf, SenseIsLast DEF MInv, Mmc!Sent
<1>5. CASE Mmc!GoOn([call EXCEPT !.step = "read", !.size = Mmc!Available(drive.disc, call.op)])
  <2>1. call' = [call EXCEPT !.step = "read", !.size = Mmc!Available(drive.disc, call.op)] /\ reply' = reply
    BY <1>5 DEF Mmc!GoOn
  <2>2. /\ DOMAIN call = {"op", "step", "size"} /\ call = [x \in DOMAIN call |-> call[x]]
    BY <1>2 DEF MInv, Queried
  <2>3. /\ DOMAIN call' = {"op", "step", "size"} /\ call' = [x \in DOMAIN call' |-> call'[x]]
        /\ call'.op = call.op /\ call'.step = "read" /\ call'.size = Mmc!Available(drive.disc, call.op)
    BY <2>1, <2>2
  <2>4. Queried(call', drive')
    BY <1>4, <2>3 DEF Queried
  <2> QED BY <1>2, <1>4, <2>1, <2>3, <2>4 DEF MInv, ReadSoFar, Capable, Stepping
<1>6. CASE \E ok, v : Mmc!End(ok, v)
  BY <1>4, <1>6, NoCall DEF Mmc!End
<1> QED BY <1>1, <1>5, <1>6

LEMMA CapInv == ASSUME MInv, Mmc!DriveCap, UNCHANGED transport PROVE MInv'
<1>1. PICK o \in Mmc!Outcomes(Mmc!SenseCommand("ten"), drive) :
        /\ Mmc!Sent(o)
        /\ CASE call.step = "length" ->
                  Mmc!GoOn([call EXCEPT !.step = "pages",
                                        !.asked = IF o.ok THEN Mmc!LengthOf(drive.kind.pages) ELSE @])
             [] call.step = "pages" /\ ~o.ok /\ ~call.again ->
                  Mmc!GoOn([call EXCEPT !.step = "length", !.again = TRUE])
             [] call.step = "pages" /\ ~o.ok /\ call.again -> Mmc!End(FALSE, "error")
             [] call.step = "pages" /\ o.ok ->
                  Mmc!End(TRUE, IF Mmc!Capabilities(drive.kind.pages, call.asked) = {} THEN "nothing" ELSE "capabilities")
  BY DEF Mmc!DriveCap
<1>2. call.op = "drive_cap" /\ reply = Mmc!Silent
  BY DEF Mmc!DriveCap, MInv, Mmc!Idle
<1>3. Mmc!SenseCommand("ten").op # "PREVENT_ALLOW"
  BY DEF Mmc!SenseCommand
<1>4. IsDrive(drive') /\ SenseOfLast' /\ drive'.kind = drive.kind
  BY <1>1, <1>3, OutcomeOf, SenseIsLast DEF MInv, Mmc!Sent
<1>5. /\ DOMAIN call = {"op", "step", "asked", "again"} /\ call = [x \in DOMAIN call |-> call[x]]
      /\ call.step \in {"length", "pages"}
      /\ call.asked \in {Mmc!Default, Mmc!LengthOf(drive.kind.pages)}
  BY <1>2 DEF MInv, Capable
<1>6. ASSUME NEW c, Mmc!GoOn(c), DOMAIN c = {"op", "step", "asked", "again"}, c = [x \in DOMAIN c |-> c[x]],
             c.op = "drive_cap", c.step \in {"length", "pages"},
             c.asked \in {Mmc!Default, Mmc!LengthOf(drive.kind.pages)}
      PROVE  MInv'
  <2>1. call' = c /\ reply' = reply
    BY <1>6 DEF Mmc!GoOn
  <2> QED BY <1>2, <1>4, <1>6, <2>1 DEF MInv, ReadSoFar, Queried, Stepping, Capable
<1>7. CASE call.step = "length"
  <2> DEFINE c == [call EXCEPT !.step = "pages", !.asked = IF o.ok THEN Mmc!LengthOf(drive.kind.pages) ELSE @]
  <2>1. Mmc!GoOn(c)
    BY <1>1, <1>7
  <2>2. /\ DOMAIN c = {"op", "step", "asked", "again"} /\ c = [x \in DOMAIN c |-> c[x]]
        /\ c.op = "drive_cap" /\ c.step = "pages"
        /\ c.asked \in {Mmc!Default, Mmc!LengthOf(drive.kind.pages)}
    BY <1>2, <1>5
  <2> HIDE DEF c
  <2> QED BY <1>6, <2>1, <2>2
<1>8. CASE call.step = "pages" /\ ~o.ok /\ ~call.again
  <2> DEFINE c == [call EXCEPT !.step = "length", !.again = TRUE]
  <2>1. Mmc!GoOn(c)
    BY <1>1, <1>8
  <2>2. /\ DOMAIN c = {"op", "step", "asked", "again"} /\ c = [x \in DOMAIN c |-> c[x]]
        /\ c.op = "drive_cap" /\ c.step = "length"
        /\ c.asked \in {Mmc!Default, Mmc!LengthOf(drive.kind.pages)}
    BY <1>2, <1>5
  <2> HIDE DEF c
  <2> QED BY <1>6, <2>1, <2>2
<1>9. CASE call.step = "pages" /\ (o.ok \/ call.again)
  <2>1. call' = Mmc!Idle
    BY <1>1, <1>9 DEF Mmc!End
  <2> QED BY <1>4, <2>1, NoCall
<1> QED BY <1>5, <1>7, <1>8, <1>9

LEMMA HandsInv == ASSUME MInv, Mmc!PressButton \/ Mmc!ChangeDisc, UNCHANGED transport PROVE MInv'
<1>1. UNCHANGED <<valid, happened, call, transport>> /\ reply' = Mmc!Silent
  BY DEF Mmc!PressButton, Mmc!ChangeDisc
<1>2. IsDrive(drive)
  BY DEF MInv
<1>3. /\ IsDrive(drive') /\ drive'.kind = drive.kind
      /\ \/ drive'.open
         \/ drive'.attention
         \/ drive'.disc = Mmc!NoDisc
  <2>1. CASE Mmc!PressButton /\ drive.open
    <3>1. drive' = [drive EXCEPT !.open = FALSE,
                                 !.event = IF drive.disc # Mmc!NoDisc THEN "new" ELSE @,
                                 !.attention = @ \/ drive.disc # Mmc!NoDisc]
      BY <2>1 DEF Mmc!PressButton, Mmc!Carried
    <3> QED BY <1>2, <3>1 DEF IsDrive, DriveFields
  <2>2. CASE Mmc!PressButton /\ ~drive.open
    <3>1. drive' = [drive EXCEPT !.open = TRUE, !.event = "removal"]
      BY <2>2 DEF Mmc!PressButton, Mmc!Carried
    <3> QED BY <1>2, <3>1 DEF IsDrive, DriveFields
  <2>3. CASE Mmc!ChangeDisc
    <3>1. PICK d \in MmcDisc : drive' = [drive EXCEPT !.disc = d]
      BY <2>3 DEF Mmc!ChangeDisc, MmcDisc
    <3>2. drive.open
      BY <2>3 DEF Mmc!ChangeDisc
    <3> QED BY <1>2, <3>1, <3>2 DEF IsDrive, DriveFields
  <2> QED BY <2>1, <2>2, <2>3
<1> QED BY <1>1, <1>3 DEF MInv, ReadSoFar, Queried, Capable, Stepping, Steady, SenseOfLast

LEMMA Concatenation ==
  ASSUME NEW S, NEW a \in Seq(S), NEW f \in Seq(S)
  PROVE  a \o f \in Seq(S) /\ Len(a \o f) = Len(a) + Len(f)
OBVIOUS

(* The blocks of one command, appended to what was read before.            *)
LEMMA WithBlocksInOrder ==
  ASSUME NEW c \in ReadCalls, c.op = "read_cd", Mmc!BlocksInOrder(c, c.buf), Len(c.buf) = c.j,
         IsDrive(drive), c.buf # << >> => c.buf[1].of = drive.disc.name, NEW n \in Nat
  PROVE  LET b == Mmc!WithBlocks(c.buf, c.lsn + c.j, n)
         IN  /\ b \in Seq(SectorType) /\ Len(b) = c.j + n
             /\ Mmc!BlocksInOrder(c, b)
             /\ \A i \in DOMAIN b : b[i].of = drive.disc.name
<1> DEFINE a == c.buf
           f == Mmc!FirstBlocks(c.buf, c.lsn + c.j, n)
           b == Mmc!WithBlocks(c.buf, c.lsn + c.j, n)
<1>1. a \in Seq(SectorType) /\ c.lsn \in Int /\ c.j \in Nat /\ Len(a) = c.j
  BY DEF ReadCalls
<1>2. f = [i \in 1 .. n |-> [of |-> drive.disc.name, lsn |-> c.lsn + c.j + i - 1]]
  BY DEF Mmc!FirstBlocks, Mmc!Sector
<1>3. drive.disc.name \in {d.name : d \in MmcDisc}
  BY DEF IsDrive
<1>4. \A i \in 1 .. n : [of |-> drive.disc.name, lsn |-> c.lsn + c.j + i - 1] \in SectorType
  BY <1>1, <1>3 DEF SectorType
<1>5. f \in Seq(SectorType) /\ Len(f) = n
  BY <1>2, <1>4
<1>6. b = a \o f
  BY DEF Mmc!WithBlocks
<1>7. \A i \in DOMAIN a : a[i].lsn = c.lsn + i - 1 /\ a[i].of = drive.disc.name
  BY <1>1 DEF Mmc!BlocksInOrder
<1> HIDE DEF a, b, f
<1>8. b \in Seq(SectorType) /\ Len(b) = c.j + n /\ DOMAIN b = 1 .. c.j + n
  <2>1. Len(b) = Len(a) + Len(f) /\ b \in Seq(SectorType)
    BY <1>1, <1>5, <1>6, Concatenation
  <2> QED BY <1>1, <1>5, <2>1
<1>9. \A i \in DOMAIN b : b[i].lsn = c.lsn + i - 1 /\ b[i].of = drive.disc.name
  <2> TAKE i \in DOMAIN b
  <2>1. CASE i <= c.j
    BY <1>1, <1>5, <1>6, <1>7, <1>8, <2>1
  <2>2. CASE i > c.j
    <3>1. i - c.j \in 1 .. n /\ b[i] = f[i - c.j] /\ i \in Int
      BY <1>1, <1>5, <1>6, <1>8, <2>2
    <3>2. f[i - c.j] = [of |-> drive.disc.name, lsn |-> c.lsn + c.j + (i - c.j) - 1]
      BY <1>2, <3>1
    <3>3. b[i].lsn = c.lsn + c.j + (i - c.j) - 1 /\ b[i].of = drive.disc.name
      BY <3>1, <3>2
    <3>4. c.lsn \in Int /\ c.j \in Int /\ i \in Int
      BY <1>1, <3>1
    <3>5. c.lsn + c.j + (i - c.j) - 1 = c.lsn + i - 1
      BY ONLY <3>4
    <3> QED BY ONLY <3>3, <3>5
  <2> QED BY <1>1, <1>8, <2>1, <2>2
<1> QED BY <1>8, <1>9 DEF Mmc!BlocksInOrder, b

LEMMA ReadInv == ASSUME MInv, Mmc!MmcConstants, Mmc!ReadCd, UNCHANGED transport PROVE MInv'
<1>1. call.op = "read_cd" /\ reply = Mmc!Silent
  BY DEF Mmc!ReadCd, MInv, Mmc!Idle
<1>2. ReadSoFar(call, drive) /\ IsDrive(drive) /\ SenseOfLast
  BY DEF MInv
<1>3. CASE call.left = 0
  BY <1>2, <1>3, NoCall DEF Mmc!ReadCd, Mmc!End, SenseOfLast
<1>4. CASE call.left # 0
  <2> DEFINE n == Mmc!AtOnce(call.left)
             c == [op |-> "READ_CD", lsn |-> call.lsn + call.j, blocks |-> n]
             next == [call EXCEPT !.buf = Mmc!WithBlocks(@, call.lsn + call.j, n),
                                  !.left = @ - Mmc!AtOnce(@), !.j = @ + Mmc!AtOnce(call.left)]
  <2>1. PICK o \in Mmc!Outcomes(c, drive) :
          Mmc!Sent(o) /\ IF ~o.ok THEN Mmc!End(FALSE, call.buf) ELSE Mmc!GoOn(next)
    BY <1>4 DEF Mmc!ReadCd
  <2>2. c.op = "READ_CD"
    OBVIOUS
  <2>3. /\ IsDrive(o.drive) /\ o.drive.disc = drive.disc /\ SenseOfLast'
        /\ o.ok => /\ Mmc!Accepts(c, drive) /\ o.drive = Mmc!Carried(c, drive)
                   /\ ~drive.attention \/ Mmc!Query(c)
    BY <1>2, <2>1, <2>2, OutcomeOf, SenseIsLast
  <2>4. CASE ~o.ok
    BY <2>1, <2>3, <2>4, NoCall DEF Mmc!End, Mmc!Sent
  <2>5. CASE o.ok
    <3>1. call' = next /\ reply' = reply
      BY <2>1, <2>5 DEF Mmc!GoOn
    <3>2. Mmc!Loaded(drive) /\ ~drive.attention
      BY <2>2, <2>3, <2>5 DEF Mmc!Accepts, Mmc!NeedsDisc, Mmc!Query
    <3>3. drive' = drive
      BY <2>1, <2>2, <2>3, <2>5 DEF Mmc!Carried, Mmc!Sent
    <3>4. call.buf # << >> => call.buf[1].of = drive.disc.name
      BY <1>1, <1>2, <3>2 DEF ReadSoFar, Steady, Mmc!Loaded
    <3>5. /\ call \in ReadCalls /\ Len(call.buf) = call.j /\ call.j + call.left = call.wanted
          /\ Mmc!BlocksInOrder(call, call.buf)
      BY <1>1, <1>2 DEF ReadSoFar
    <3>6. n \in Nat /\ call.left - n \in Nat /\ Mmc!AtOnce(call.left) = n
      BY <3>5 DEF Mmc!AtOnce, Mmc!MmcConstants, ReadCalls
    <3> DEFINE b == Mmc!WithBlocks(call.buf, call.lsn + call.j, n)
    <3>7. /\ b \in Seq(SectorType) /\ Len(b) = call.j + n /\ Mmc!BlocksInOrder(call, b)
          /\ \A i \in DOMAIN b : b[i].of = drive.disc.name
      BY <1>1, <1>2, <3>4, <3>5, <3>6, WithBlocksInOrder
    <3>f. DOMAIN call = {"op", "lsn", "wanted", "left", "j", "buf"} /\ call = [x \in DOMAIN call |-> call[x]]
      BY <3>5 DEF ReadCalls
    <3>8. /\ DOMAIN next = {"op", "lsn", "wanted", "left", "j", "buf"}
          /\ next = [x \in DOMAIN next |-> next[x]]
          /\ next.op = "read_cd" /\ next.lsn = call.lsn /\ next.wanted = call.wanted
          /\ next.left = call.left - n /\ next.j = call.j + n /\ next.buf = b
      BY <1>1, <3>f
    <3> HIDE DEF n, b, next
    <3>9. next \in ReadCalls
      BY <3>5, <3>6, <3>7, <3>8 DEF ReadCalls
    <3>10. Len(next.buf) = next.j /\ next.j + next.left = next.wanted
      BY <3>5, <3>6, <3>7, <3>8 DEF ReadCalls
    <3>11. Mmc!BlocksInOrder(next, next.buf)
      BY <3>7, <3>8 DEF Mmc!BlocksInOrder
    <3>12. next.buf # << >> => next.buf[1].of = drive.disc.name
      BY <3>7, <3>8
    <3>13. ReadSoFar(next, drive)
      BY <3>8, <3>9, <3>10, <3>11, <3>12 DEF ReadSoFar, Steady
    <3> QED BY <1>1, <1>2, <2>3, <3>1, <3>3, <3>8, <3>13 DEF MInv, Queried, Capable, Stepping
  <2> QED BY <2>4, <2>5
<1> QED BY <1>3, <1>4

LEMMA NewDrive ==
  ASSUME NEW f, NEW N, NEW d, d \in [kind : Drives, disc : {f}, open : N, locked : N,
                                    attention : N, event : {"none"}, blocksize : {2048}]
  PROVE  d.open \in N /\ d.locked \in N /\ d.attention \in N
OBVIOUS

LEMMA MmcInit == ASSUME Mmc!MmcConstants PROVE Mmc!Init => MInv
<1> SUFFICES ASSUME Mmc!Init PROVE MInv
  OBVIOUS
<1> DEFINE No == {FALSE}
           first == CHOOSE d \in MmcDiscs : TRUE
<1>1. first \in MmcDiscs
  BY DEF Mmc!MmcConstants
<1>2. drive \in [kind : Drives, disc : {first}, open : No, locked : No,
                 attention : No, event : {"none"}, blocksize : {2048}]
  BY Zenon DEF Mmc!Init
<1>3. valid = "none" /\ happened = "none" /\ call = Mmc!Idle
  BY DEF Mmc!Init
<1> HIDE DEF first, No
<1>4. /\ DOMAIN drive = DriveFields /\ drive = [x \in DOMAIN drive |-> drive[x]]
      /\ drive.kind \in Drives /\ drive.disc = first
  BY <1>2 DEF DriveFields
<1>5. {drive.open, drive.locked, drive.attention} \subseteq BOOLEAN
  <2>1. drive.open \in No /\ drive.locked \in No /\ drive.attention \in No
    BY <1>2, NewDrive
  <2> QED BY <2>1 DEF No
<1>6. IsDrive(drive)
  BY <1>1, <1>4, <1>5 DEF IsDrive, MmcDisc
<1> QED BY <1>3, <1>6 DEF MInv, SenseOfLast, Mmc!Idle, ReadSoFar, Queried, Capable, Stepping

Stepwise ==
  \/ Mmc!StartEject \/ Mmc!StartRead \/ Mmc!StartQuery \/ Mmc!StartSense \/ Mmc!StartCap
  \/ Mmc!Eject \/ Mmc!ReadCd \/ Mmc!QuerySubchannel \/ Mmc!ModeSense \/ Mmc!DriveCap
  \/ Mmc!StartLinuxMode \/ Mmc!LinuxMode
LEMMA MmcSteps == Mmc!Calls => Single \/ Mmc!LastSense \/ Stepwise \/ Mmc!PressButton \/ Mmc!ChangeDisc
BY DEF Mmc!Calls, Single, Stepwise

LEMMA MmcNext == ASSUME Mmc!MmcConstants, MInv, [Mmc!Next]_(Mmc!vars) PROVE MInv'
<1>1. CASE Mmc!Calls /\ UNCHANGED transport
  <2>1. CASE Mmc!LastSense
    BY <1>1, <2>1, NoCall DEF Mmc!LastSense, Mmc!Ready, MInv, SenseOfLast
  <2>2. CASE Stepwise
    BY <1>1, <2>2, StartsInv, EjectInv, ReadInv, QueryInv, SenseInv, CapInv, ModeInv DEF Stepwise
  <2> QED BY <1>1, <2>1, <2>2, MmcSteps, SingleInv, HandsInv
<1>2. CASE UNCHANGED Mmc!vars
  BY <1>2 DEF Mmc!vars, MInv, SenseOfLast, ReadSoFar, Queried, Capable, Stepping
<1> QED BY <1>1, <1>2 DEF Mmc!Next

-----------------------------------------------------------------------------
(* The answers.  Only an answer of these operations says anything.         *)
Telling == {"read_cd", "mcn", "isrc", "cdtext", "eject", "drive_cap", "sense", "linux_mode"}

LEMMA Untelling ==
  ASSUME reply'.op \notin Telling PROVE Mmc!CommandsOfOneDisc'
BY DEF Telling, Mmc!CommandsOfOneDisc, Mmc!OfOneDisc, Mmc!EjectedIsOpen, Mmc!SaidByDrive, Mmc!SenseOfLastCommand

LEMMA SingleTells == ASSUME Single PROVE reply'.op \notin Telling
<1>1. ASSUME NEW c, NEW name, NEW a, Mmc!OneCommand(c, name, a) PROVE reply'.op = name
  BY <1>1 DEF Mmc!OneCommand
<1>2. ASSUME NEW what \in {"last_lsn", "discmode", "erasable"} PROVE what \notin Telling
  BY <1>2 DEF Telling
<1>3. CASE Mmc!SetSpeed
  BY <1>1, <1>3 DEF Mmc!SetSpeed, Telling
<1>4. CASE Mmc!AskDisc
  BY <1>1, <1>2, <1>4 DEF Mmc!AskDisc
<1>5. CASE Mmc!HaveInterface \/ Mmc!DiscType \/ Mmc!HwInfo
  BY <1>1, <1>5 DEF Mmc!HaveInterface, Mmc!DiscType, Mmc!HwInfo, Telling
<1>6. CASE Mmc!TestUnitReady \/ Mmc!CloseTray \/ Mmc!PreventRemoval
  BY <1>1, <1>6 DEF Mmc!TestUnitReady, Mmc!CloseTray, Mmc!PreventRemoval, Telling
<1>7. CASE Mmc!SetBlocksize \/ Mmc!TrayStatus \/ Mmc!MediaChanged
  BY <1>1, <1>7 DEF Mmc!SetBlocksize, Mmc!TrayStatus, Mmc!MediaChanged, Telling
<1> QED BY <1>3, <1>4, <1>5, <1>6, <1>7 DEF Single

(* A call that goes on has said nothing.                                   *)
LEMMA SilentTells ==
  ASSUME reply' = Mmc!Silent PROVE reply'.op \notin Telling
BY DEF Mmc!Silent, Telling

LEMMA SenseTells ==
  ASSUME MInv, Mmc!LastSense, UNCHANGED transport
  PROVE  Mmc!CommandsOfOneDisc'
BY DEF MInv, SenseOfLast, Mmc!LastSense, Mmc!CommandsOfOneDisc, Mmc!OfOneDisc, Mmc!EjectedIsOpen,
       Mmc!SaidByDrive, Mmc!SenseOfLastCommand

LEMMA ReadTells ==
  ASSUME MInv, Mmc!ReadCd
  PROVE  Mmc!CommandsOfOneDisc'
<1>1. call.op = "read_cd" /\ reply = Mmc!Silent /\ ReadSoFar(call, drive)
  BY DEF Mmc!ReadCd, MInv, Mmc!Idle
<1>2. CASE reply' = reply
  BY <1>1, <1>2, SilentTells, Untelling
<1>3. ASSUME NEW ok, Mmc!End(ok, call.buf), ok => call.left = 0 PROVE Mmc!CommandsOfOneDisc'
  <2>1. /\ reply'.op = "read_cd" /\ reply'.ok = ok /\ reply'.value = call.buf /\ reply'.call = call
    BY <1>1, <1>3 DEF Mmc!End
  <2>2. /\ Mmc!BlocksInOrder(call, call.buf) /\ (ok => Len(call.buf) = call.wanted)
    BY <1>1, <1>3 DEF ReadSoFar, ReadCalls
  <2>3. Mmc!OfOneDisc'
    BY <2>1, <2>2 DEF Mmc!OfOneDisc, Mmc!BlocksInOrder
  <2> QED BY <2>1, <2>3 DEF Mmc!CommandsOfOneDisc, Mmc!EjectedIsOpen, Mmc!SaidByDrive, Mmc!SenseOfLastCommand
<1> QED BY <1>2, <1>3 DEF Mmc!ReadCd, Mmc!GoOn

LEMMA QueryTells ==
  ASSUME Mmc!MmcConstants, MInv, Mmc!QuerySubchannel
  PROVE  Mmc!CommandsOfOneDisc'
<1>1. call.op \in {"mcn", "isrc", "cdtext"} /\ reply = Mmc!Silent /\ Queried(call, drive) /\ IsDrive(drive)
  BY DEF Mmc!QuerySubchannel, MInv, Mmc!Idle
<1>2. CASE reply' = reply
  BY <1>1, <1>2, SilentTells, Untelling
<1>3. CASE \E v : Mmc!End(FALSE, v)
  BY <1>1, <1>3 DEF Mmc!End, Mmc!CommandsOfOneDisc, Mmc!OfOneDisc, Mmc!EjectedIsOpen, Mmc!SaidByDrive,
                    Mmc!SenseOfLastCommand
<1>4. ASSUME NEW o \in Mmc!Outcomes(Mmc!QueryCommand(call.op), drive), Mmc!Sent(o), o.ok, call.step = "read",
             NEW ok, Mmc!End(ok, [of |-> drive.disc.name, what |-> Mmc!Answer(drive.disc, call.op),
                                  whole |-> call.size >= Mmc!Available(drive.disc, call.op)])
      PROVE  Mmc!CommandsOfOneDisc'
  <2> DEFINE c == Mmc!QueryCommand(call.op)
  <2>1. c.op \in {"READ_TOC", "READ_SUBCHANNEL"}
    BY DEF Mmc!QueryCommand
  <2>2. Mmc!Accepts(c, drive) /\ (~drive.attention \/ Mmc!Query(c)) /\ drive'.disc = drive.disc
    BY <1>1, <1>4, <2>1, OutcomeOf DEF Mmc!Sent
  <2>3. ~drive.open /\ drive.disc # Mmc!NoDisc /\ ~drive.attention
    BY <2>1, <2>2 DEF Mmc!Accepts, Mmc!NeedsDisc, Mmc!Query, Mmc!Loaded
  <2>4. call.size = Mmc!Available(drive.disc, call.op)
    BY <1>1, <1>4, <2>3 DEF Queried
  <2>5. call.size \in Nat
    BY <1>1, <2>4, AvailableIsNat DEF IsDrive
  <2>6. /\ reply'.op = call.op /\ reply'.value.of = drive.disc.name /\ reply'.value.whole
    <3> DEFINE w == call.size >= Mmc!Available(drive.disc, call.op)
               told == [of |-> drive.disc.name, what |-> Mmc!Answer(drive.disc, call.op), whole |-> w]
    <3>1. w = TRUE
      BY <2>4, <2>5
    <3>2. reply'.op = call.op /\ reply'.value = told
      BY <1>4 DEF Mmc!End
    <3> HIDE DEF w
    <3>3. told.of = drive.disc.name /\ told.whole = w
      OBVIOUS
    <3> HIDE DEF told
    <3> QED BY <3>1, <3>2, <3>3
  <2> QED BY <1>1, <2>2, <2>6 DEF Mmc!CommandsOfOneDisc, Mmc!OfOneDisc, Mmc!EjectedIsOpen, Mmc!SaidByDrive,
                                  Mmc!SenseOfLastCommand
<1> QED BY <1>2, <1>3, <1>4 DEF Mmc!QuerySubchannel, Mmc!GoOn

LEMMA EjectTells == ASSUME MInv, Mmc!Eject PROVE Mmc!CommandsOfOneDisc'
<1>1. call.op = "eject" /\ call.step \in {"allow", "open"} /\ reply = Mmc!Silent /\ IsDrive(drive)
  BY DEF Mmc!Eject, MInv, Mmc!Idle, Stepping
<1>2. PICK o \in Mmc!Outcomes(Mmc!EjectCommand(call.step), drive) :
        /\ Mmc!Sent(o)
        /\ IF o.ok /\ call.step = "allow" THEN Mmc!GoOn([call EXCEPT !.step = "open"])
           ELSE Mmc!End(o.ok, "done")
  BY DEF Mmc!Eject
<1>3. CASE o.ok /\ call.step = "allow"
  BY <1>1, <1>2, <1>3, SilentTells, Untelling DEF Mmc!GoOn
<1>4. CASE ~o.ok
  <2>1. reply'.op = "eject" /\ reply'.ok = o.ok
    BY <1>1, <1>2, <1>4 DEF Mmc!End
  <2> QED BY <1>4, <2>1 DEF Mmc!CommandsOfOneDisc, Mmc!OfOneDisc, Mmc!EjectedIsOpen, Mmc!SaidByDrive,
                            Mmc!SenseOfLastCommand
<1>5. CASE o.ok /\ call.step = "open"
  <2> DEFINE c == [op |-> "START_STOP", eject |-> TRUE]
  <2>1. Mmc!EjectCommand(call.step) = c
    BY <1>5 DEF Mmc!EjectCommand
  <2>2. c.op = "START_STOP" /\ c.eject = TRUE
    OBVIOUS
  <2>3. Mmc!Accepts(c, drive) /\ o.drive = Mmc!Carried(c, drive)
    BY <1>1, <1>5, <2>1, <2>2, OutcomeOf
  <2>4. ~drive.locked /\ o.drive = [drive EXCEPT !.open = TRUE, !.event = "removal"]
    BY <2>2, <2>3 DEF Mmc!Accepts, Mmc!Carried
  <2>5. drive'.open /\ ~drive'.locked
    BY <1>1, <1>2, <2>4 DEF Mmc!Sent, IsDrive, DriveFields
  <2>6. reply'.op = "eject"
    BY <1>1, <1>2, <1>5 DEF Mmc!End
  <2> QED BY <2>5, <2>6 DEF Mmc!CommandsOfOneDisc, Mmc!OfOneDisc, Mmc!EjectedIsOpen, Mmc!SaidByDrive,
                            Mmc!SenseOfLastCommand
<1> QED BY <1>1, <1>3, <1>4, <1>5

LEMMA CapTells == ASSUME Mmc!MmcConstants, MInv, Mmc!DriveCap PROVE Mmc!CommandsOfOneDisc'
<1>1. /\ call.op = "drive_cap" /\ reply = Mmc!Silent /\ IsDrive(drive)
      /\ call.asked \in {Mmc!Default, Mmc!LengthOf(drive.kind.pages)} /\ call.step \in {"length", "pages"}
  BY DEF Mmc!DriveCap, MInv, Mmc!Idle, Capable
<1>2. PICK o \in Mmc!Outcomes(Mmc!SenseCommand("ten"), drive) :
        /\ Mmc!Sent(o)
        /\ \/ \E c : Mmc!GoOn(c)
           \/ Mmc!End(FALSE, "error")
           \/ Mmc!End(TRUE, IF Mmc!Capabilities(drive.kind.pages, call.asked) = {} THEN "nothing" ELSE "capabilities")
  BY <1>1 DEF Mmc!DriveCap
<1>3. CASE \E c : Mmc!GoOn(c)
  BY <1>1, <1>3, SilentTells, Untelling DEF Mmc!GoOn
<1>4. CASE Mmc!End(FALSE, "error")
  BY <1>1, <1>4 DEF Mmc!End, Mmc!CommandsOfOneDisc, Mmc!OfOneDisc, Mmc!EjectedIsOpen, Mmc!SaidByDrive,
                    Mmc!SenseOfLastCommand
<1>5. CASE Mmc!End(TRUE, IF Mmc!Capabilities(drive.kind.pages, call.asked) = {} THEN "nothing" ELSE "capabilities")
  <2> DEFINE pages == drive.kind.pages
             Has == \E k \in DOMAIN pages : pages[k].number = "capabilities"
  <2>1. \A p \in DOMAIN pages : pages[p].number = "capabilities" =>
          Mmc!StartOf(pages, p) \in 0 .. 255 /\ Mmc!StartOf(pages, p) < 2 + Mmc!LengthOf(pages)
    BY <1>1 DEF Mmc!MmcConstants, IsDrive
  <2>2. Mmc!Capabilities(pages, call.asked) # {} <=> Has
    BY <1>1, <2>1 DEF Mmc!Capabilities, Mmc!Default
  <2>3. drive'.kind = drive.kind
    <3>1. Mmc!SenseCommand("ten").op # "PREVENT_ALLOW"
      BY DEF Mmc!SenseCommand
    <3> QED BY <1>1, <1>2, <3>1, OutcomeOf DEF Mmc!Sent
  <2>4. reply'.op = "drive_cap" /\ (reply'.value = "capabilities" <=> Has)
    BY <1>1, <1>5, <2>2 DEF Mmc!End
  <2> QED BY <2>3, <2>4 DEF Mmc!CommandsOfOneDisc, Mmc!OfOneDisc, Mmc!EjectedIsOpen, Mmc!SaidByDrive,
                            Mmc!SenseOfLastCommand
<1> QED BY <1>2, <1>3, <1>4, <1>5

(* The mode of the disc is one of the three that are told of the disc that *)
(* is in the drive by then.                                                *)
LEMMA ModeTells == ASSUME MInv, Mmc!LinuxMode PROVE Mmc!CommandsOfOneDisc'
<1>1. call.op = "linux_mode" /\ reply = Mmc!Silent /\ IsDrive(drive)
  BY DEF Mmc!LinuxMode, MInv, Mmc!Idle
<1>2. CASE reply' = reply
  BY <1>1, <1>2, SilentTells, Untelling
<1>3. CASE Mmc!End(FALSE, "error")
  BY <1>1, <1>3 DEF Mmc!End, Mmc!CommandsOfOneDisc, Mmc!OfOneDisc, Mmc!EjectedIsOpen, Mmc!SaidByDrive,
                    Mmc!SenseOfLastCommand
<1>4. ASSUME NEW v \in {drive.disc.book, drive.disc.full_toc, drive.disc.status}, Mmc!End(TRUE, v),
             drive'.disc = drive.disc
      PROVE  Mmc!CommandsOfOneDisc'
  BY <1>1, <1>4 DEF Mmc!End, Mmc!CommandsOfOneDisc, Mmc!OfOneDisc, Mmc!EjectedIsOpen, Mmc!SaidByDrive,
                    Mmc!SenseOfLastCommand
<1>5. CASE Mmc!FullTocMode
  <2> DEFINE c == [op |-> "READ_TOC"]
  <2>1. PICK o \in Mmc!Outcomes(c, drive) :
          /\ Mmc!Sent(o)
          /\ IF o.ok /\ drive.disc.full_toc # "none" THEN Mmc!End(TRUE, drive.disc.full_toc)
             ELSE Mmc!GoOn([call EXCEPT !.step = "status"])
    BY <1>5 DEF Mmc!FullTocMode
  <2>2. c.op # "PREVENT_ALLOW"
    OBVIOUS
  <2>3. drive'.disc = drive.disc
    BY <1>1, <2>1, <2>2, OutcomeOf DEF Mmc!Sent
  <2> QED BY <1>2, <1>4, <2>1, <2>3 DEF Mmc!GoOn
<1> QED BY <1>2, <1>3, <1>4, <1>5 DEF Mmc!LinuxMode, Mmc!DvdDiscMode, Mmc!StatusMode, Mmc!GoOn

LEMMA AnswersTell ==
  ASSUME Mmc!MmcConstants, MInv, Mmc!CommandsOfOneDisc, [Mmc!Next]_(Mmc!vars)
  PROVE  Mmc!CommandsOfOneDisc'
<1>1. CASE Mmc!PressButton \/ Mmc!ChangeDisc
  BY <1>1, SilentTells, Untelling DEF Mmc!PressButton, Mmc!ChangeDisc
<1>2. CASE \/ Mmc!StartEject \/ Mmc!StartRead \/ Mmc!StartQuery \/ Mmc!StartSense \/ Mmc!StartCap
           \/ Mmc!StartLinuxMode
  BY <1>2, SilentTells, Untelling
     DEF Mmc!StartEject, Mmc!StartRead, Mmc!StartQuery, Mmc!StartSense, Mmc!StartCap, Mmc!StartLinuxMode,
         Mmc!Start
<1>3. CASE Mmc!ModeSense
  <2>1. call.op \in {"mode_sense", "volume", "mmc_level", "get_blocksize"} /\ reply = Mmc!Silent
    BY <1>3 DEF Mmc!ModeSense, MInv, Mmc!Idle
  <2>2. reply' = reply \/ reply'.op = call.op
    BY <1>3 DEF Mmc!ModeSense, Mmc!GoOn, Mmc!End
  <2> QED BY <2>1, <2>2, SilentTells, Untelling DEF Telling
<1>4. CASE UNCHANGED Mmc!vars
  BY <1>4 DEF Mmc!vars, Mmc!CommandsOfOneDisc, Mmc!OfOneDisc, Mmc!EjectedIsOpen, Mmc!SaidByDrive,
              Mmc!SenseOfLastCommand
<1>5. CASE Single
  BY <1>5, SingleTells, Untelling
<1>6. CASE Mmc!Calls /\ UNCHANGED transport
  BY <1>1, <1>2, <1>3, <1>5, <1>6, MmcSteps, SenseTells, ReadTells, QueryTells, EjectTells, CapTells, ModeTells DEF Stepwise
<1> QED BY <1>4, <1>6 DEF Mmc!Next

(* What is read in several MMC commands, between which the disc may be     *)
(* changed, is one disc's and in its order; a drive that was ejected is    *)
(* open, one that has the page of capabilities tells them, and the sense   *)
(* data kept are those of the last command, on every transport and         *)
(* whichever commands fail (mmc_read_cd, mmc_get_mcn_isrc_private,         *)
(* mmc_read_cdtext, mmc_eject_media, mmc_get_drive_cap, and the platforms' *)
(* run_mmc_cmd).                                                           *)
THEOREM CommandsAnswerForOneDisc ==
  ASSUME Mmc!MmcConstants
  PROVE  Mmc!Spec => []Mmc!CommandsOfOneDisc
<1>1. Mmc!Init => Mmc!CommandsOfOneDisc
  <2>1. Mmc!Init => reply = Mmc!Silent
    BY DEF Mmc!Init
  <2> QED BY <2>1 DEF Mmc!Silent, Mmc!CommandsOfOneDisc, Mmc!OfOneDisc, Mmc!EjectedIsOpen, Mmc!SaidByDrive,
                      Mmc!SenseOfLastCommand
<1>2. Mmc!Init => MInv
  BY MmcInit
<1>3. MInv /\ Mmc!CommandsOfOneDisc /\ [Mmc!Next]_(Mmc!vars) => (MInv /\ Mmc!CommandsOfOneDisc)'
  BY MmcNext, AnswersTell
<1> QED BY <1>1, <1>2, <1>3, PTL DEF Mmc!Spec

(* The same beside the addresses, the text and the kinds of a disc: none   *)
(* of them changes a drive or an answer of it.                             *)
LEMMA MmcStarts == ASSUME Mmc!MmcConstants PROVE DiscDataInit => MInv /\ Mmc!CommandsOfOneDisc
<1>1. DiscDataInit => Mmc!Init
  BY DEF DiscDataInit
<1>2. Mmc!Init => reply = Mmc!Silent
  BY DEF Mmc!Init
<1>3. reply = Mmc!Silent => Mmc!CommandsOfOneDisc
  BY DEF Mmc!Silent, Mmc!CommandsOfOneDisc, Mmc!OfOneDisc, Mmc!EjectedIsOpen, Mmc!SaidByDrive, Mmc!SenseOfLastCommand
<1> QED BY <1>1, <1>2, <1>3, MmcInit

DiscDataNext == Addresses \/ OfText \/ OfMmc \/ OfKinds
dataVars == <<subject, answer, textVars, mmcVars, kindVars>>
LEMMA MmcStepsOnly == [DiscDataNext]_dataVars => [Mmc!Next]_(Mmc!vars)
BY DEF DiscDataNext, dataVars, Addresses, OfText, OfMmc, OfKinds, mmcVars, Mmc!vars

(* A call of several MMC commands, between which the disc may be changed   *)
(* and any of which may fail, answers of one disc (mmc_read_cd,            *)
(* mmc_get_mcn_isrc_private, mmc_read_cdtext, get_discmode_linux), leaves  *)
(* an ejected drive open, and keeps the sense data of no earlier command,  *)
(* for every set of drives, discs and requests.                            *)
THEOREM CommandsAnswerOfOneDisc == DiscDataSpec => []CommandsOfOneDisc
<1>1. DiscDataInit => MInv /\ Mmc!CommandsOfOneDisc
  BY MmcStarts, DrivesTellCapabilities
<1>2. MInv /\ Mmc!CommandsOfOneDisc /\ [DiscDataNext]_dataVars => (MInv /\ Mmc!CommandsOfOneDisc)'
  BY MmcStepsOnly, MmcNext, AnswersTell, DrivesTellCapabilities
<1>3. CommandsOfOneDisc <=> Mmc!CommandsOfOneDisc
  BY DEF CommandsOfOneDisc
<1>4. DiscDataSpec <=> DiscDataInit /\ [][DiscDataNext]_dataVars
  BY DEF DiscDataSpec, DiscDataNext, dataVars
<1> QED BY <1>1, <1>2, <1>3, <1>4, PTL

-----------------------------------------------------------------------------
(* What a guess at the kind of a disc tells.  The buffers are static: a     *)
(* step of the guess finds in those that were read since it began what is   *)
(* on the disc in its track, and in the others anything.                    *)
Things == DOMAIN Kinds!Evidence

(* Whether the block of a guess can be read, by the measure of the program  *)
(* k.                                                                       *)
Reached(k, d, g, block) ==
  /\ IF k = "linux" THEN g.start + block < d.leadout ELSE ~(Kinds!SecCount(d, g.track) < block)
  /\ g.start + block \notin d.bad

HoldsBlock(k, b, d, g, num, block) ==
  b[num] = IF Reached(k, d, g, block) THEN Kinds!On(d, g.start + block) ELSE Kinds!Blank
Shown(k, d, g, thing) ==
  /\ Reached(k, d, g, Kinds!Evidence[thing][1])
  /\ Kinds!Evidence[thing][2] \in Kinds!On(d, g.start + Kinds!Evidence[thing][1]).marks
Told(k, d, g, r) == \A thing \in r.bits \cup {r.type} : thing \in Things => Shown(k, d, g, thing)

(* What is in the analysis for the kind r.                                  *)
AnalysisOf(k, d, g, r, a) ==
  /\ r.type \in Kinds!IsoTypes =>
       /\ Shown(k, d, g, "iso")
       /\ a.size = Kinds!On(d, g.start + 16).value /\ a.label = Kinds!On(d, g.start + 16).name
  /\ r.type \in {"udf", "iso_udf"} => a.version = Kinds!On(d, g.start + 35).value
  /\ "joliet" \in r.bits => a.level = Kinds!On(d, g.start + 17).value

IsoSteps == {"anchor", "iso_udf", "boot", "vcd", "linux_boot", "linux_vcd"}
LinuxSteps == {"linux_superblock", "linux_sector0", "linux_ufs", "linux_boot", "linux_vcd"}
InfoSteps == {"superblock", "udf_version", "udf_label", "sector0", "ufs", "anchor", "iso_udf", "boot", "vcd"}
Read16 == {"sector0", "ufs", "linux_sector0", "linux_ufs"} \cup IsoSteps
Read0 == {"ufs", "linux_ufs"} \cup IsoSteps

IsRet(r) == DOMAIN r = {"type", "bits"} /\ r = [x \in DOMAIN r |-> r[x]]
IsGuess(g) ==
  /\ DOMAIN g = {"at", "purpose", "track", "start", "sector0", "ret"} /\ g = [x \in DOMAIN g |-> g[x]]
  /\ IsRet(g.ret)
IsAnalysis(a) == DOMAIN a = {"size", "label", "version", "level"} /\ a = [x \in DOMAIN a |-> a[x]]

SixBuffers == DOMAIN buffer = 0 .. 5 /\ buffer = [n \in DOMAIN buffer |-> buffer[n]]

GuessInv ==
  /\ SixBuffers
  /\ IsGuess(guess) /\ IsAnalysis(analysis)
  /\ guess.at \in {"idle", "done"} \cup InfoSteps \cup LinuxSteps
  /\ guess.at \in InfoSteps => task # "linux"
  /\ guess.at \in LinuxSteps => task = "linux"
  /\ Told(task, cd, guess, guess.ret) /\ AnalysisOf(task, cd, guess, guess.ret, analysis)
  /\ guess.at \in Read16 => HoldsBlock(task, buffer, cd, guess, 0, 16)
  /\ guess.at \in Read0 => HoldsBlock(task, buffer, cd, guess, 1, 0)
  /\ guess.at \in IsoSteps => guess.ret.type \in Kinds!IsoTypes
  /\ guess.at \in {"udf_version", "udf_label"} => Shown(task, cd, guess, "udf")
  /\ guess.at = "udf_label" => analysis.version = Kinds!On(cd, guess.start + 35).value
  /\ guess.at = "iso_udf" => Shown(task, cd, guess, "iso_udf")

(* The evidence for each thing, and the buffer it is looked for in.         *)
LEMMA EvidenceOf ==
  /\ Things = {"xa", "photo_cd", "cdtv", "bootable", "joliet", "video_cd", "svcd", "cvd", "xiso", "udf",
               "interactive", "iso", "iso_hfs", "iso_udf", "iso_interactive", "high_sierra", "hfs", "ext2",
               "panasonic", "ufs"}
  /\ Kinds!Evidence["xa"] = <<16, "xa">> /\ Kinds!Evidence["cdtv"] = <<16, "cdtv">>
  /\ Kinds!Evidence["xiso"] = <<16, "xbox">> /\ Kinds!Evidence["udf"] = <<16, "bea01">>
  /\ Kinds!Evidence["interactive"] = <<16, "cd_i">> /\ Kinds!Evidence["iso"] = <<16, "cd001">>
  /\ Kinds!Evidence["iso_interactive"] = <<16, "cd_rtos">> /\ Kinds!Evidence["high_sierra"] = <<16, "cdrom">>
  /\ Kinds!Evidence["photo_cd"] = <<0, "photo">> /\ Kinds!Evidence["iso_hfs"] = <<0, "hfs">>
  /\ Kinds!Evidence["hfs"] = <<0, "hfs">> /\ Kinds!Evidence["ext2"] = <<0, "ext2">>
  /\ Kinds!Evidence["panasonic"] = <<0, "3do">> /\ Kinds!Evidence["ufs"] = <<4, "ufs">>
  /\ Kinds!Evidence["bootable"] = <<17, "el_torito">> /\ Kinds!Evidence["joliet"] = <<17, "joliet">>
  /\ Kinds!Evidence["video_cd"] = <<150, "vcd">> /\ Kinds!Evidence["svcd"] = <<150, "svcd">>
  /\ Kinds!Evidence["cvd"] = <<150, "svcd">> /\ Kinds!Evidence["iso_udf"] = <<256, "anchor">>
BY DEF Things, Kinds!Evidence

LEMMA Buffers ==
  /\ \A m \in {"xbox", "bea01", "cd001", "cd_i", "cdtv", "cd_rtos", "cdrom", "bridge", "xa"} : Kinds!BufferOf(m) = 0
  /\ \A m \in {"photo", "ext2", "hfs", "3do"} : Kinds!BufferOf(m) = 1
  /\ Kinds!BufferOf("ufs") = 2
  /\ \A m \in {"el_torito", "joliet"} : Kinds!BufferOf(m) = 3
  /\ \A m \in {"vcd", "svcd"} : Kinds!BufferOf(m) = 4
  /\ Kinds!BufferOf("anchor") = 5
<1>1. \A m \in {"xbox", "bea01", "cd001", "cd_i", "cdtv", "cd_rtos", "cdrom", "bridge", "xa"} : Kinds!BufferOf(m) = 0
  BY DEF Kinds!BufferOf
<1>2. \A m \in {"photo", "ext2", "hfs", "3do"} : Kinds!BufferOf(m) = 1
  BY DEF Kinds!BufferOf
<1>3. Kinds!BufferOf("ufs") = 2 /\ Kinds!BufferOf("anchor") = 5
  BY DEF Kinds!BufferOf
<1>4. \A m \in {"el_torito", "joliet"} : Kinds!BufferOf(m) = 3
  BY DEF Kinds!BufferOf
<1>5. \A m \in {"vcd", "svcd"} : Kinds!BufferOf(m) = 4
  BY DEF Kinds!BufferOf
<1> QED BY <1>1, <1>2, <1>3, <1>4, <1>5

(* A signature found in a buffer that holds its block is on the disc.       *)
LEMMA FoundIsShown ==
  ASSUME NEW b, NEW d, NEW g, NEW block, NEW mark, NEW thing, HoldsBlock(task, b, d, g, Kinds!BufferOf(mark), block),
         Kinds!Is(b, mark), Kinds!Evidence[thing] = <<block, mark>>
  PROVE  Shown(task, d, g, thing) /\ b[Kinds!BufferOf(mark)] = Kinds!On(d, g.start + block)
<1>1. mark \notin Kinds!Blank.marks
  BY DEF Kinds!Blank, Kinds!Block
<1>2. Reached(task, d, g, block) /\ mark \in Kinds!On(d, g.start + block).marks
  BY <1>1 DEF HoldsBlock, Kinds!Is
<1>3. Kinds!Evidence[thing][1] = block /\ Kinds!Evidence[thing][2] = mark
  OBVIOUS
<1> QED BY <1>2, <1>3 DEF Shown, HoldsBlock

LEMMA Sector16Shows ==
  ASSUME NEW b, NEW d, NEW g, HoldsBlock(task, b, d, g, 0, 16)
  PROVE  /\ Kinds!Is(b, "xa") => Shown(task, d, g, "xa")
         /\ Kinds!Is(b, "cdtv") => Shown(task, d, g, "cdtv")
         /\ Kinds!Is(b, "xbox") => Shown(task, d, g, "xiso")
         /\ Kinds!Is(b, "bea01") => Shown(task, d, g, "udf")
         /\ Kinds!Is(b, "cd_i") => Shown(task, d, g, "interactive")
         /\ Kinds!Is(b, "cd_rtos") => Shown(task, d, g, "iso_interactive")
         /\ Kinds!Is(b, "cdrom") => Shown(task, d, g, "high_sierra")
         /\ Kinds!Is(b, "cd001") => Shown(task, d, g, "iso") /\ b[0] = Kinds!On(d, g.start + 16)
<1>1. \A m \in {"xbox", "bea01", "cd001", "cd_i", "cdtv", "cd_rtos", "cdrom", "xa"} :
        HoldsBlock(task, b, d, g, Kinds!BufferOf(m), 16)
  BY Buffers
<1>2. \A m \in {"xbox", "bea01", "cd001", "cd_i", "cdtv", "cd_rtos", "cdrom", "xa"}, thing \in Things :
        Kinds!Evidence[thing] = <<16, m>> /\ Kinds!Is(b, m) => Shown(task, d, g, thing)
  BY <1>1, FoundIsShown
<1>3. Kinds!BufferOf("cd001") = 0 /\ HoldsBlock(task, b, d, g, Kinds!BufferOf("cd001"), 16)
  BY Buffers
<1>4. Kinds!Is(b, "cd001") => b[0] = Kinds!On(d, g.start + 16)
  <2>1. Kinds!Evidence["iso"] = <<16, "cd001">>
    BY EvidenceOf
  <2> QED BY <1>3, <2>1, FoundIsShown
<1>5. Kinds!Is(b, "xa") => Shown(task, d, g, "xa")
  BY <1>2, EvidenceOf
<1>6. Kinds!Is(b, "cdtv") => Shown(task, d, g, "cdtv")
  BY <1>2, EvidenceOf
<1>7. Kinds!Is(b, "xbox") => Shown(task, d, g, "xiso")
  BY <1>2, EvidenceOf
<1>8. Kinds!Is(b, "bea01") => Shown(task, d, g, "udf")
  BY <1>2, EvidenceOf
<1>9. Kinds!Is(b, "cd_i") => Shown(task, d, g, "interactive")
  BY <1>2, EvidenceOf
<1>10. Kinds!Is(b, "cd_rtos") => Shown(task, d, g, "iso_interactive")
  BY <1>2, EvidenceOf
<1>11. Kinds!Is(b, "cdrom") => Shown(task, d, g, "high_sierra")
  BY <1>2, EvidenceOf
<1>12. Kinds!Is(b, "cd001") => Shown(task, d, g, "iso")
  BY <1>2, EvidenceOf
<1> QED BY <1>4, <1>5, <1>6, <1>7, <1>8, <1>9, <1>10, <1>11, <1>12

LEMMA Sector0Shows ==
  ASSUME NEW b, NEW d, NEW g, HoldsBlock(task, b, d, g, 1, 0)
  PROVE  /\ Kinds!Is(b, "photo") => Shown(task, d, g, "photo_cd")
         /\ Kinds!Is(b, "hfs") => Shown(task, d, g, "iso_hfs") /\ Shown(task, d, g, "hfs")
         /\ Kinds!Is(b, "ext2") => Shown(task, d, g, "ext2")
         /\ Kinds!Is(b, "3do") => Shown(task, d, g, "panasonic")
<1>1. \A m \in {"photo", "ext2", "hfs", "3do"} : HoldsBlock(task, b, d, g, Kinds!BufferOf(m), 0)
  BY Buffers
<1>2. \A m \in {"photo", "ext2", "hfs", "3do"}, thing \in Things :
        Kinds!Evidence[thing] = <<0, m>> /\ Kinds!Is(b, m) => Shown(task, d, g, thing)
  BY <1>1, FoundIsShown
<1>3. Kinds!Is(b, "photo") => Shown(task, d, g, "photo_cd")
  BY <1>2, EvidenceOf
<1>4. Kinds!Is(b, "hfs") => Shown(task, d, g, "iso_hfs") /\ Shown(task, d, g, "hfs")
  BY <1>2, EvidenceOf
<1>5. Kinds!Is(b, "ext2") => Shown(task, d, g, "ext2")
  BY <1>2, EvidenceOf
<1>6. Kinds!Is(b, "3do") => Shown(task, d, g, "panasonic")
  BY <1>2, EvidenceOf
<1> QED BY <1>3, <1>4, <1>5, <1>6

LEMMA LaterBlocksShow ==
  ASSUME NEW b, NEW d, NEW g
  PROVE  /\ HoldsBlock(task, b, d, g, 2, 4) /\ Kinds!Is(b, "ufs") => Shown(task, d, g, "ufs")
         /\ HoldsBlock(task, b, d, g, 3, 17) /\ Kinds!Is(b, "el_torito") => Shown(task, d, g, "bootable")
         /\ HoldsBlock(task, b, d, g, 3, 17) /\ Kinds!Is(b, "joliet") =>
              Shown(task, d, g, "joliet") /\ b[3] = Kinds!On(d, g.start + 17)
         /\ HoldsBlock(task, b, d, g, 4, 150) /\ Kinds!Is(b, "vcd") => Shown(task, d, g, "video_cd")
         /\ HoldsBlock(task, b, d, g, 4, 150) /\ Kinds!Is(b, "svcd") => Shown(task, d, g, "svcd") /\ Shown(task, d, g, "cvd")
         /\ HoldsBlock(task, b, d, g, 5, 256) /\ Kinds!Is(b, "anchor") => Shown(task, d, g, "iso_udf")
<1>1. HoldsBlock(task, b, d, g, 2, 4) /\ Kinds!Is(b, "ufs") => Shown(task, d, g, "ufs")
  <2>1. Kinds!BufferOf("ufs") = 2
    BY Buffers
  <2>2. Kinds!Evidence["ufs"] = <<4, "ufs">>
    BY EvidenceOf
  <2> QED BY <2>1, <2>2, FoundIsShown
<1>2. HoldsBlock(task, b, d, g, 3, 17) /\ Kinds!Is(b, "el_torito") => Shown(task, d, g, "bootable")
  <2>1. Kinds!BufferOf("el_torito") = 3
    BY Buffers
  <2>2. Kinds!Evidence["bootable"] = <<17, "el_torito">>
    BY EvidenceOf
  <2> QED BY <2>1, <2>2, FoundIsShown
<1>3. HoldsBlock(task, b, d, g, 3, 17) /\ Kinds!Is(b, "joliet") =>
        Shown(task, d, g, "joliet") /\ b[3] = Kinds!On(d, g.start + 17)
  <2>1. Kinds!BufferOf("joliet") = 3
    BY Buffers
  <2>2. Kinds!Evidence["joliet"] = <<17, "joliet">>
    BY EvidenceOf
  <2> QED BY <2>1, <2>2, FoundIsShown
<1>4. HoldsBlock(task, b, d, g, 4, 150) /\ Kinds!Is(b, "vcd") => Shown(task, d, g, "video_cd")
  <2>1. Kinds!BufferOf("vcd") = 4
    BY Buffers
  <2>2. Kinds!Evidence["video_cd"] = <<150, "vcd">>
    BY EvidenceOf
  <2> QED BY <2>1, <2>2, FoundIsShown
<1>5. HoldsBlock(task, b, d, g, 4, 150) /\ Kinds!Is(b, "svcd") => Shown(task, d, g, "svcd") /\ Shown(task, d, g, "cvd")
  <2>1. Kinds!BufferOf("svcd") = 4
    BY Buffers
  <2>2. Kinds!Evidence["svcd"] = <<150, "svcd">> /\ Kinds!Evidence["cvd"] = <<150, "svcd">>
    BY EvidenceOf
  <2> QED BY <2>1, <2>2, FoundIsShown
<1>6. HoldsBlock(task, b, d, g, 5, 256) /\ Kinds!Is(b, "anchor") => Shown(task, d, g, "iso_udf")
  <2>1. Kinds!BufferOf("anchor") = 5
    BY Buffers
  <2>2. Kinds!Evidence["iso_udf"] = <<256, "anchor">>
    BY EvidenceOf
  <2> QED BY <2>1, <2>2, FoundIsShown
<1> QED BY <1>1, <1>2, <1>3, <1>4, <1>5, <1>6

(* What is told stays told while the guess goes on in the same place.       *)
LEMMA SamePlace ==
  ASSUME NEW d, NEW g, NEW h, h.track = g.track, h.start = g.start
  PROVE  /\ \A thing : Shown(task, d, h, thing) <=> Shown(task, d, g, thing)
         /\ \A b, num, block : HoldsBlock(task, b, d, h, num, block) <=> HoldsBlock(task, b, d, g, num, block)
BY DEF Shown, HoldsBlock, Reached

LEMMA ToStep ==
  ASSUME GuessInv, NEW at, Kinds!To(at)
  PROVE  /\ IsGuess(guess') /\ guess'.at = at /\ guess'.ret = guess.ret
         /\ guess'.track = guess.track /\ guess'.start = guess.start
BY DEF GuessInv, IsGuess, Kinds!To

LEMMA ReturnStep ==
  ASSUME GuessInv, NEW ret, Kinds!Return(ret), IsRet(ret)
  PROVE  /\ IsGuess(guess') /\ guess'.at = "done" /\ guess'.ret = ret
         /\ guess'.track = guess.track /\ guess'.start = guess.start
BY DEF GuessInv, IsGuess, Kinds!Return

(* The buffers after one of them was read.                                  *)
LEMMA ReadStep ==
  ASSUME GuessInv, NEW num \in 0 .. 5, NEW block, guess.at \in InfoSteps \cup LinuxSteps,
         \/ buffer' = Kinds!ReadBlock(buffer, num, block) /\ guess.at \in InfoSteps
         \/ /\ buffer' = [buffer EXCEPT ![num] = IF Kinds!ReadableByLinux(block)
                                                   THEN Kinds!On(cd, guess.start + block) ELSE Kinds!Blank]
            /\ guess.at \in LinuxSteps
  PROVE  /\ SixBuffers'
         /\ HoldsBlock(task, buffer', cd, guess, num, block)
         /\ \A n, l : n \in 0 .. 5 /\ n # num =>
              (HoldsBlock(task, buffer', cd, guess, n, l) <=> HoldsBlock(task, buffer, cd, guess, n, l))
<1>1. task # "linux" /\ guess.at \in InfoSteps => (Kinds!Readable(block) <=> Reached(task, cd, guess, block))
  BY DEF Kinds!Readable, Reached
<1>2. task = "linux" => (Kinds!ReadableByLinux(block) <=> Reached(task, cd, guess, block))
  BY DEF Kinds!ReadableByLinux, Reached
<1>3. buffer' = [buffer EXCEPT ![num] = IF Reached(task, cd, guess, block)
                                           THEN Kinds!On(cd, guess.start + block) ELSE Kinds!Blank]
  BY <1>1, <1>2 DEF GuessInv, Kinds!ReadBlock
<1>4. DOMAIN buffer = 0 .. 5
  BY DEF GuessInv, SixBuffers
<1> QED BY <1>3, <1>4 DEF HoldsBlock, SixBuffers

(* The guess is over, or goes on to another step.                           *)
LEMMA ReturnInv ==
  ASSUME GuessInv, UNCHANGED <<task, cd>>, SixBuffers', NEW ret, Kinds!Return(ret), IsRet(ret),
         IsAnalysis(analysis'), Told(task, cd, guess, ret), AnalysisOf(task, cd, guess, ret, analysis')
  PROVE  GuessInv'
<1>1. /\ IsGuess(guess') /\ guess'.at = "done" /\ guess'.ret = ret
      /\ guess'.track = guess.track /\ guess'.start = guess.start
  BY ReturnStep
<1>2. \A thing : Shown(task, cd, guess', thing) <=> Shown(task, cd, guess, thing)
  BY <1>1, SamePlace
<1>3. Told(task, cd, guess', ret) /\ AnalysisOf(task, cd, guess', ret, analysis')
  BY <1>1, <1>2 DEF Told, AnalysisOf
<1> QED BY <1>1, <1>3 DEF GuessInv, IsoSteps, LinuxSteps, InfoSteps, Read16, Read0

LEMMA GiveUpInv ==
  ASSUME GuessInv, UNCHANGED <<task, cd>>, SixBuffers', Kinds!GiveUp
  PROVE  GuessInv'
<1>1. Kinds!Return(guess.ret) /\ analysis' = analysis /\ IsRet(guess.ret)
  BY DEF Kinds!GiveUp, GuessInv, IsGuess
<1>2. IsAnalysis(analysis') /\ Told(task, cd, guess, guess.ret) /\ AnalysisOf(task, cd, guess, guess.ret, analysis')
  BY <1>1 DEF GuessInv
<1> QED BY <1>1, <1>2, ReturnInv

LEMMA GoesOnInv ==
  ASSUME GuessInv, UNCHANGED <<task, cd>>, SixBuffers', IsGuess(guess'), IsAnalysis(analysis'),
         guess'.track = guess.track, guess'.start = guess.start,
         Told(task, cd, guess, guess'.ret), AnalysisOf(task, cd, guess, guess'.ret, analysis'),
         \/ guess'.at \in InfoSteps /\ task # "linux"
         \/ guess'.at \in LinuxSteps /\ task = "linux",
         guess'.at \in Read16 => HoldsBlock(task, buffer', cd, guess, 0, 16),
         guess'.at \in Read0 => HoldsBlock(task, buffer', cd, guess, 1, 0),
         guess'.at \in IsoSteps => guess'.ret.type \in Kinds!IsoTypes,
         guess'.at \in {"udf_version", "udf_label"} => Shown(task, cd, guess, "udf"),
         guess'.at = "udf_label" => analysis'.version = Kinds!On(cd, guess.start + 35).value,
         guess'.at = "iso_udf" => Shown(task, cd, guess, "iso_udf")
  PROVE  GuessInv'
<1>1. \A thing : Shown(task, cd, guess', thing) <=> Shown(task, cd, guess, thing)
  BY SamePlace
<1>2. Told(task, cd, guess', guess'.ret) /\ AnalysisOf(task, cd, guess', guess'.ret, analysis')
  BY <1>1 DEF Told, AnalysisOf
<1>3. /\ guess'.at \in Read16 => HoldsBlock(task, buffer', cd, guess', 0, 16)
      /\ guess'.at \in Read0 => HoldsBlock(task, buffer', cd, guess', 1, 0)
  BY SamePlace
<1>4. task' = task /\ cd' = cd
  OBVIOUS
<1>5. guess'.at \in InfoSteps => guess'.at \notin LinuxSteps
  BY DEF InfoSteps, LinuxSteps
<1> QED BY <1>1, <1>2, <1>3, <1>4, <1>5 DEF GuessInv

(* The checks at the end add what the first two blocks show.                *)
LEMMA OtherChecksTell ==
  ASSUME NEW b, NEW ret, IsRet(ret), Told(task, cd, guess, ret),
         HoldsBlock(task, b, cd, guess, 0, 16), HoldsBlock(task, b, cd, guess, 1, 0)
  PROVE  LET r == Kinds!OtherChecks(b, ret)
         IN  /\ IsRet(r) /\ Told(task, cd, guess, r)
             /\ \A a : AnalysisOf(task, cd, guess, ret, a) => AnalysisOf(task, cd, guess, r, a)
<1> DEFINE more == (IF Kinds!Is(b, "xa") THEN {"xa"} ELSE {}) \cup (IF Kinds!Is(b, "photo") THEN {"photo_cd"} ELSE {})
                   \cup (IF Kinds!Is(b, "cdtv") THEN {"cdtv"} ELSE {})
           r == Kinds!OtherChecks(b, ret)
<1>1. r = [ret EXCEPT !.bits = @ \cup more]
  BY DEF Kinds!OtherChecks, Kinds!Tell
<1>2. \A thing \in more : Shown(task, cd, guess, thing) /\ thing # "joliet"
  BY Sector16Shows, Sector0Shows
<1> HIDE DEF more, r
<1>3. IsRet(r) /\ r.type = ret.type /\ r.bits = ret.bits \cup more
  BY <1>1 DEF IsRet
<1>4. Told(task, cd, guess, r)
  BY <1>2, <1>3 DEF Told
<1>5. \A a : AnalysisOf(task, cd, guess, ret, a) => AnalysisOf(task, cd, guess, r, a)
  BY <1>2, <1>3 DEF AnalysisOf
<1> QED BY <1>3, <1>4, <1>5 DEF r

LEMMA KindOf ==
  ASSUME NEW type, NEW bits
  PROVE  /\ IsRet(Kinds!Kind(type, bits))
         /\ Kinds!Kind(type, bits).type = type /\ Kinds!Kind(type, bits).bits = bits
BY DEF Kinds!Kind, IsRet

(* The steps of cdio_guess_cd_type.                                         *)
LEMMA InfoReads ==
  ASSUME GuessInv, NEW step \in InfoSteps, NEW num \in 0 .. 5, NEW block, Kinds!Reads(step, num, block)
  PROVE  /\ guess.at = step /\ UNCHANGED <<task, cd>> /\ task # "linux"
         /\ SixBuffers' /\ HoldsBlock(task, buffer', cd, guess, num, block)
         /\ \A n, l : n \in 0 .. 5 /\ n # num =>
              (HoldsBlock(task, buffer', cd, guess, n, l) <=> HoldsBlock(task, buffer, cd, guess, n, l))
         /\ Kinds!Readable(block) => buffer'[num] = Kinds!On(cd, guess.start + block)
         /\ IsRet(guess.ret) /\ IsGuess(guess) /\ IsAnalysis(analysis)
         /\ Told(task, cd, guess, guess.ret) /\ AnalysisOf(task, cd, guess, guess.ret, analysis)
<1>1. guess.at = step /\ UNCHANGED <<task, cd>> /\ buffer' = Kinds!ReadBlock(buffer, num, block)
  BY DEF Kinds!Reads
<1>2. task # "linux"
  BY <1>1 DEF GuessInv
<1>3. Kinds!Readable(block) => buffer'[num] = Kinds!On(cd, guess.start + block)
  BY <1>1 DEF Kinds!ReadBlock, GuessInv, SixBuffers
<1>4. IsRet(guess.ret) /\ IsGuess(guess) /\ IsAnalysis(analysis)
      /\ Told(task, cd, guess, guess.ret) /\ AnalysisOf(task, cd, guess, guess.ret, analysis)
  BY DEF GuessInv, IsGuess
<1> QED BY <1>1, <1>2, <1>3, <1>4, ReadStep

(* A kind by itself is told when it shows, or is no thing that can.         *)
LEMMA PlainKind ==
  ASSUME NEW type, NEW bits, type \notin Kinds!IsoTypes, type # "udf",
         type \in Things => Shown(task, cd, guess, type),
         \A thing \in bits : thing \in Things => Shown(task, cd, guess, thing) /\ thing # "joliet"
  PROVE  LET r == Kinds!Kind(type, bits)
         IN  IsRet(r) /\ Told(task, cd, guess, r) /\ \A a : AnalysisOf(task, cd, guess, r, a)
<1> DEFINE r == Kinds!Kind(type, bits)
<1>1. IsRet(r) /\ r.type = type /\ r.bits = bits
  BY KindOf
<1> HIDE DEF r
<1>2. "joliet" \in Things /\ "iso_udf" \in Kinds!IsoTypes
  BY EvidenceOf DEF Kinds!IsoTypes
<1>3. Told(task, cd, guess, r)
  BY <1>1 DEF Told
<1>4. \A a : AnalysisOf(task, cd, guess, r, a)
  BY <1>1, <1>2 DEF AnalysisOf
<1> QED BY <1>1, <1>3, <1>4 DEF r

LEMMA NoThings == {"any", "unknown", "none", "audio"} \cap Things = {}
BY EvidenceOf

LEMMA SuperblockInv == ASSUME GuessInv, Kinds!ReadSuperblock PROVE GuessInv'
<1>1. Kinds!Reads("superblock", 0, 16)
  BY DEF Kinds!ReadSuperblock
<1>2. /\ UNCHANGED <<task, cd>> /\ task # "linux" /\ SixBuffers' /\ HoldsBlock(task, buffer', cd, guess, 0, 16)
      /\ Told(task, cd, guess, guess.ret) /\ AnalysisOf(task, cd, guess, guess.ret, analysis) /\ IsAnalysis(analysis)
  BY <1>1, InfoReads DEF InfoSteps
<1>3. CASE Kinds!GiveUp
  BY <1>2, <1>3, GiveUpInv
<1>4. CASE Kinds!Superblock(buffer')
  <2>1. UNCHANGED analysis
    BY <1>4 DEF Kinds!Superblock
  <2>2. CASE Kinds!Is(buffer', "xbox") /\ Kinds!Return(Kinds!Kind("none", {"xiso"}))
    BY <1>2, <2>1, <2>2, Sector16Shows, PlainKind, NoThings, ReturnInv DEF Kinds!IsoTypes
  <2>3. CASE Kinds!Is(buffer', "cd_i") /\ Kinds!Return(Kinds!Kind("interactive", {"any"}))
    BY <1>2, <2>1, <2>3, Sector16Shows, PlainKind, NoThings, ReturnInv DEF Kinds!IsoTypes
  <2>4. CASE Kinds!Is(buffer', "bea01") /\ Kinds!To("udf_version")
    <3>1. IsGuess(guess') /\ guess'.at = "udf_version" /\ guess'.ret = guess.ret
          /\ guess'.track = guess.track /\ guess'.start = guess.start
      BY <2>4, ToStep
    <3>2. Shown(task, cd, guess, "udf")
      BY <1>2, <2>4, Sector16Shows
    <3> QED BY <1>2, <2>1, <3>1, <3>2, GoesOnInv DEF InfoSteps, Read16, Read0, IsoSteps
  <2>5. CASE Kinds!To("sector0")
    <3>1. IsGuess(guess') /\ guess'.at = "sector0" /\ guess'.ret = guess.ret
          /\ guess'.track = guess.track /\ guess'.start = guess.start
      BY <2>5, ToStep
    <3> QED BY <1>2, <2>1, <3>1, GoesOnInv DEF InfoSteps, Read16, Read0, IsoSteps
  <2> QED BY <1>4, <2>2, <2>3, <2>4, <2>5 DEF Kinds!Superblock
<1> QED BY <1>3, <1>4 DEF Kinds!ReadSuperblock

LEMMA UdfVersionInv == ASSUME GuessInv, Kinds!ReadUdfVersion PROVE GuessInv'
<1>1. Kinds!Reads("udf_version", 5, 35)
  BY DEF Kinds!ReadUdfVersion
<1>2. /\ UNCHANGED <<task, cd>> /\ task # "linux" /\ SixBuffers' /\ guess.at = "udf_version"
      /\ Kinds!Readable(35) => buffer'[5] = Kinds!On(cd, guess.start + 35)
      /\ Told(task, cd, guess, guess.ret) /\ AnalysisOf(task, cd, guess, guess.ret, analysis) /\ IsAnalysis(analysis)
  BY <1>1, InfoReads DEF InfoSteps
<1>3. CASE Kinds!GiveUp
  BY <1>2, <1>3, GiveUpInv
<1>4. CASE Kinds!Readable(35) /\ Kinds!UdfVersion(buffer')
  <2>1. /\ IsGuess(guess') /\ guess'.at = "udf_label" /\ guess'.ret = guess.ret
        /\ guess'.track = guess.track /\ guess'.start = guess.start
    BY <1>4, ToStep DEF Kinds!UdfVersion
  <2>2. analysis' = [analysis EXCEPT !.version = Kinds!On(cd, guess.start + 35).value]
    BY <1>2, <1>4 DEF Kinds!UdfVersion
  <2>3. /\ IsAnalysis(analysis') /\ analysis'.version = Kinds!On(cd, guess.start + 35).value
        /\ analysis'.size = analysis.size /\ analysis'.label = analysis.label /\ analysis'.level = analysis.level
    BY <1>2, <2>2 DEF IsAnalysis
  <2>4. AnalysisOf(task, cd, guess, guess.ret, analysis')
    BY <1>2, <2>3 DEF AnalysisOf
  <2>5. Shown(task, cd, guess, "udf")
    BY <1>2 DEF GuessInv
  <2> QED BY <1>2, <2>1, <2>3, <2>4, <2>5, GoesOnInv DEF InfoSteps, Read16, Read0, IsoSteps
<1> QED BY <1>3, <1>4 DEF Kinds!ReadUdfVersion

LEMMA UdfLabelInv == ASSUME GuessInv, Kinds!ReadUdfLabel PROVE GuessInv'
<1>1. Kinds!Reads("udf_label", 5, 32)
  BY DEF Kinds!ReadUdfLabel
<1>2. /\ UNCHANGED <<task, cd>> /\ SixBuffers' /\ guess.at = "udf_label" /\ IsAnalysis(analysis)
  BY <1>1, InfoReads DEF InfoSteps
<1>3. /\ Kinds!Return(Kinds!Kind("udf", {}))
      /\ analysis' = analysis \/ \E l : analysis' = [analysis EXCEPT !.label = l]
  BY DEF Kinds!ReadUdfLabel, Kinds!UdfLabel, Kinds!NoUdfLabel
<1>4. IsAnalysis(analysis') /\ analysis'.version = Kinds!On(cd, guess.start + 35).value
  BY <1>2, <1>3 DEF GuessInv, IsAnalysis
<1>5. Shown(task, cd, guess, "udf")
  BY <1>2 DEF GuessInv
<1>6. LET r == Kinds!Kind("udf", {}) IN r.type = "udf" /\ r.bits = {} /\ IsRet(r)
  BY KindOf
<1>7. LET r == Kinds!Kind("udf", {}) IN Told(task, cd, guess, r) /\ AnalysisOf(task, cd, guess, r, analysis')
  BY <1>4, <1>5, <1>6 DEF Told, AnalysisOf, Kinds!IsoTypes
<1> QED BY <1>2, <1>3, <1>4, <1>6, <1>7, ReturnInv

(* The end of a guess at what is not ISO 9660.                              *)
LEMMA OtherKindInv ==
  ASSUME GuessInv, UNCHANGED <<task, cd>>, SixBuffers', UNCHANGED analysis,
         HoldsBlock(task, buffer', cd, guess, 0, 16), HoldsBlock(task, buffer', cd, guess, 1, 0),
         NEW type, NEW bits, type \notin Kinds!IsoTypes, type # "udf",
         type \in Things => Shown(task, cd, guess, type),
         \A thing \in bits : thing \in Things => Shown(task, cd, guess, thing) /\ thing # "joliet",
         Kinds!Return(Kinds!OtherChecks(buffer', Kinds!Kind(type, bits)))
  PROVE  GuessInv'
<1> DEFINE ret == Kinds!Kind(type, bits)
           r == Kinds!OtherChecks(buffer', ret)
<1>1. IsRet(ret) /\ Told(task, cd, guess, ret) /\ \A a : AnalysisOf(task, cd, guess, ret, a)
  BY PlainKind
<1> HIDE DEF ret
<1>2. IsRet(r) /\ Told(task, cd, guess, r) /\ \A a : AnalysisOf(task, cd, guess, r, a)
  BY <1>1, OtherChecksTell
<1>3. IsAnalysis(analysis') /\ Kinds!Return(r)
  BY DEF GuessInv, ret
<1> HIDE DEF r
<1> QED BY <1>2, <1>3, ReturnInv

LEMMA SectorZeroInv == ASSUME GuessInv, Kinds!ReadSectorZero PROVE GuessInv'
<1> DEFINE b == buffer'
<1>1. Kinds!Reads("sector0", 1, 0)
  BY DEF Kinds!ReadSectorZero
<1>2. /\ UNCHANGED <<task, cd>> /\ task # "linux" /\ SixBuffers' /\ guess.at = "sector0"
      /\ HoldsBlock(task, b, cd, guess, 1, 0) /\ IsGuess(guess) /\ IsAnalysis(analysis)
      /\ HoldsBlock(task, b, cd, guess, 0, 16) <=> HoldsBlock(task, buffer, cd, guess, 0, 16)
      /\ Told(task, cd, guess, guess.ret) /\ AnalysisOf(task, cd, guess, guess.ret, analysis)
  BY <1>1, InfoReads DEF InfoSteps
<1>3. HoldsBlock(task, b, cd, guess, 0, 16)
  BY <1>2 DEF GuessInv, Read16
<1>4. ASSUME NEW bits \in {{}, {"any"}}, UNCHANGED analysis, Kinds!Return(Kinds!OtherChecks(b, Kinds!Kind("unknown", bits)))
      PROVE  GuessInv'
  BY <1>2, <1>3, <1>4, NoThings, OtherKindInv DEF Kinds!IsoTypes
<1>5. CASE Kinds!To("ufs") /\ UNCHANGED analysis
  <2>1. IsGuess(guess') /\ guess'.at = "ufs" /\ guess'.ret = guess.ret
        /\ guess'.track = guess.track /\ guess'.start = guess.start
    BY <1>5, ToStep
  <2> QED BY <1>2, <1>3, <1>5, <2>1, GoesOnInv DEF InfoSteps, Read16, Read0, IsoSteps
<1>6. ASSUME Kinds!Is(b, "cd001"), NEW ok, NEW ret,
             guess' = [guess EXCEPT !.at = "anchor", !.sector0 = ok, !.ret = ret],
             analysis' = [analysis EXCEPT !.size = b[0].value, !.label = b[0].name],
             \/ ret = Kinds!Kind("iso_interactive", {"any"}) /\ Kinds!Is(b, "cd_rtos")
             \/ ret = Kinds!Kind("iso_hfs", {}) /\ Kinds!Is(b, "hfs")
             \/ ret = Kinds!Kind("iso", {"any"})
      PROVE  GuessInv'
  <2>1. Shown(task, cd, guess, "iso") /\ b[0] = Kinds!On(cd, guess.start + 16)
    BY <1>3, <1>6, Sector16Shows
  <2>2. /\ IsRet(ret) /\ ret.bits \in {{}, {"any"}} /\ ret.type \in {"iso", "iso_hfs", "iso_interactive"}
        /\ Shown(task, cd, guess, ret.type)
    BY <1>2, <1>3, <1>6, <2>1, KindOf, Sector16Shows, Sector0Shows
  <2>3. /\ IsGuess(guess') /\ guess'.at = "anchor" /\ guess'.ret = ret
        /\ guess'.track = guess.track /\ guess'.start = guess.start
    BY <1>2, <1>6, <2>2 DEF IsGuess
  <2>4. /\ IsAnalysis(analysis') /\ analysis'.size = b[0].value /\ analysis'.label = b[0].name
    BY <1>2, <1>6 DEF IsAnalysis
  <2>5. Told(task, cd, guess, ret)
    BY <2>2, NoThings DEF Told
  <2>6. AnalysisOf(task, cd, guess, ret, analysis')
    BY <2>1, <2>2, <2>4 DEF AnalysisOf
  <2>7. ret.type \in Kinds!IsoTypes
    BY <2>2 DEF Kinds!IsoTypes
  <2> QED BY <1>2, <1>3, <2>3, <2>4, <2>5, <2>6, <2>7, GoesOnInv DEF InfoSteps, Read16, Read0, IsoSteps
<1>7. Kinds!SectorZero(b)
  BY DEF Kinds!ReadSectorZero
<1>8. CASE Kinds!Is(b, "cd001") /\ ~Kinds!Is(b, "cdrom")
  <2> DEFINE ret == IF Kinds!Is(b, "cd_rtos") /\ Kinds!Is(b, "bridge") THEN Kinds!Kind("iso_interactive", {"any"})
                    ELSE IF Kinds!Is(b, "hfs") THEN Kinds!Kind("iso_hfs", {}) ELSE Kinds!Kind("iso", {"any"})
  <2>1. /\ guess' = [guess EXCEPT !.at = "anchor", !.sector0 = Kinds!Readable(0), !.ret = ret]
        /\ analysis' = [analysis EXCEPT !.size = b[0].value, !.label = b[0].name]
    BY <1>7, <1>8 DEF Kinds!SectorZero
  <2>2. \/ ret = Kinds!Kind("iso_interactive", {"any"}) /\ Kinds!Is(b, "cd_rtos")
        \/ ret = Kinds!Kind("iso_hfs", {}) /\ Kinds!Is(b, "hfs")
        \/ ret = Kinds!Kind("iso", {"any"})
    OBVIOUS
  <2> HIDE DEF ret
  <2> QED BY <1>6, <1>8, <2>1, <2>2
<1>9. CASE ~(Kinds!Is(b, "cd001") /\ ~Kinds!Is(b, "cdrom"))
  BY <1>4, <1>5, <1>7, <1>9 DEF Kinds!SectorZero
<1> QED BY <1>8, <1>9

LEMMA UfsInv == ASSUME GuessInv, Kinds!ReadUfs PROVE GuessInv'
<1>1. Kinds!Reads("ufs", 2, 4)
  BY DEF Kinds!ReadUfs
<1>2. /\ UNCHANGED <<task, cd>> /\ SixBuffers' /\ guess.at = "ufs"
      /\ HoldsBlock(task, buffer', cd, guess, 0, 16) <=> HoldsBlock(task, buffer, cd, guess, 0, 16)
      /\ HoldsBlock(task, buffer', cd, guess, 1, 0) <=> HoldsBlock(task, buffer, cd, guess, 1, 0)
  BY <1>1, InfoReads DEF InfoSteps
<1>3. HoldsBlock(task, buffer', cd, guess, 0, 16) /\ HoldsBlock(task, buffer', cd, guess, 1, 0)
  BY <1>2 DEF GuessInv, Read16, Read0
<1>4. CASE Kinds!GiveUp
  BY <1>2, <1>4, GiveUpInv
<1>5. CASE Kinds!Ufs(buffer')
  BY <1>2, <1>3, <1>5, NoThings, OtherKindInv DEF Kinds!Ufs, Kinds!Unknown, Kinds!IsoTypes
<1> QED BY <1>4, <1>5 DEF Kinds!ReadUfs

(* The steps that follow the descriptor of an ISO 9660 volume.              *)
LEMMA IsoReads ==
  ASSUME GuessInv, NEW step \in IsoSteps \cap InfoSteps, NEW num \in 2 .. 5, NEW block, Kinds!Reads(step, num, block)
  PROVE  /\ guess.at = step /\ UNCHANGED <<task, cd>> /\ task # "linux" /\ SixBuffers'
         /\ HoldsBlock(task, buffer', cd, guess, 0, 16) /\ HoldsBlock(task, buffer', cd, guess, 1, 0)
         /\ HoldsBlock(task, buffer', cd, guess, num, block)
         /\ Kinds!Readable(block) => buffer'[num] = Kinds!On(cd, guess.start + block)
         /\ IsGuess(guess) /\ IsRet(guess.ret) /\ IsAnalysis(analysis) /\ guess.ret.type \in Kinds!IsoTypes
         /\ Told(task, cd, guess, guess.ret) /\ AnalysisOf(task, cd, guess, guess.ret, analysis)
<1>1. /\ guess.at = step /\ UNCHANGED <<task, cd>> /\ task # "linux"
      /\ SixBuffers' /\ HoldsBlock(task, buffer', cd, guess, num, block)
      /\ \A n, l : n \in 0 .. 5 /\ n # num =>
           (HoldsBlock(task, buffer', cd, guess, n, l) <=> HoldsBlock(task, buffer, cd, guess, n, l))
      /\ Kinds!Readable(block) => buffer'[num] = Kinds!On(cd, guess.start + block)
      /\ IsRet(guess.ret) /\ IsGuess(guess) /\ IsAnalysis(analysis)
      /\ Told(task, cd, guess, guess.ret) /\ AnalysisOf(task, cd, guess, guess.ret, analysis)
  BY InfoReads
<1>2. guess.at \in Read16 /\ guess.at \in Read0 /\ guess.at \in IsoSteps
  BY <1>1 DEF Read16, Read0
<1>3. /\ HoldsBlock(task, buffer, cd, guess, 0, 16) /\ HoldsBlock(task, buffer, cd, guess, 1, 0)
      /\ guess.ret.type \in Kinds!IsoTypes
  BY <1>2 DEF GuessInv
<1> QED BY <1>1, <1>3

LEMMA AnchorInv == ASSUME GuessInv, Kinds!ReadAnchor PROVE GuessInv'
<1>1. Kinds!Reads("anchor", 5, 256)
  BY DEF Kinds!ReadAnchor
<1>2. /\ UNCHANGED <<task, cd>> /\ task # "linux" /\ SixBuffers'
      /\ HoldsBlock(task, buffer', cd, guess, 0, 16) /\ HoldsBlock(task, buffer', cd, guess, 1, 0)
      /\ HoldsBlock(task, buffer', cd, guess, 5, 256)
      /\ IsAnalysis(analysis) /\ guess.ret.type \in Kinds!IsoTypes
      /\ Told(task, cd, guess, guess.ret) /\ AnalysisOf(task, cd, guess, guess.ret, analysis)
  BY <1>1, IsoReads DEF InfoSteps, IsoSteps
<1>3. CASE Kinds!GiveUp
  BY <1>2, <1>3, GiveUpInv
<1>4. CASE Kinds!Anchor(buffer')
  <2> DEFINE at == IF Kinds!Is(buffer', "anchor") THEN "iso_udf" ELSE "boot"
  <2>1. UNCHANGED analysis /\ Kinds!To(at)
    BY <1>4 DEF Kinds!Anchor
  <2>2. at \in {"iso_udf", "boot"} /\ (at = "iso_udf" => Shown(task, cd, guess, "iso_udf"))
    BY <1>2, LaterBlocksShow
  <2> HIDE DEF at
  <2>3. IsGuess(guess') /\ guess'.at = at /\ guess'.ret = guess.ret
        /\ guess'.track = guess.track /\ guess'.start = guess.start
    BY <2>1, ToStep
  <2> QED BY <1>2, <2>1, <2>2, <2>3, GoesOnInv DEF InfoSteps, Read16, Read0, IsoSteps
<1> QED BY <1>3, <1>4 DEF Kinds!ReadAnchor

LEMMA IsoUdfInv == ASSUME GuessInv, Kinds!ReadIsoUdf PROVE GuessInv'
<1>1. Kinds!Reads("iso_udf", 5, 35)
  BY DEF Kinds!ReadIsoUdf
<1>2. /\ UNCHANGED <<task, cd>> /\ task # "linux" /\ SixBuffers' /\ guess.at = "iso_udf"
      /\ HoldsBlock(task, buffer', cd, guess, 0, 16) /\ HoldsBlock(task, buffer', cd, guess, 1, 0)
      /\ Kinds!Readable(35) => buffer'[5] = Kinds!On(cd, guess.start + 35)
      /\ IsGuess(guess) /\ IsAnalysis(analysis) /\ guess.ret.type \in Kinds!IsoTypes
      /\ AnalysisOf(task, cd, guess, guess.ret, analysis)
  BY <1>1, IsoReads DEF InfoSteps, IsoSteps
<1>3. CASE Kinds!GiveUp
  BY <1>2, <1>3, GiveUpInv
<1>4. CASE Kinds!Readable(35) /\ Kinds!IsoUdf(buffer')
  <2> DEFINE ret == Kinds!Kind("iso_udf", {})
  <2>1. /\ guess' = [guess EXCEPT !.at = "boot", !.ret = ret]
        /\ analysis' = [analysis EXCEPT !.version = Kinds!On(cd, guess.start + 35).value]
    BY <1>2, <1>4 DEF Kinds!IsoUdf
  <2>2. IsRet(ret) /\ ret.type = "iso_udf" /\ ret.bits = {}
    BY KindOf
  <2> HIDE DEF ret
  <2>3. IsGuess(guess') /\ guess'.at = "boot" /\ guess'.ret = ret
        /\ guess'.track = guess.track /\ guess'.start = guess.start
    BY <1>2, <2>1, <2>2 DEF IsGuess
  <2>4. /\ IsAnalysis(analysis') /\ analysis'.version = Kinds!On(cd, guess.start + 35).value
        /\ analysis'.size = analysis.size /\ analysis'.label = analysis.label
    BY <1>2, <2>1 DEF IsAnalysis
  <2>5. Shown(task, cd, guess, "iso_udf")
    BY <1>2 DEF GuessInv
  <2>6. Told(task, cd, guess, ret) /\ AnalysisOf(task, cd, guess, ret, analysis') /\ ret.type \in Kinds!IsoTypes
    BY <1>2, <2>2, <2>4, <2>5 DEF Told, AnalysisOf, Kinds!IsoTypes
  <2> QED BY <1>2, <2>3, <2>4, <2>6, GoesOnInv DEF InfoSteps, Read16, Read0, IsoSteps
<1> QED BY <1>3, <1>4 DEF Kinds!ReadIsoUdf

(* The end of a guess at an ISO 9660 volume, with the bits found so far.    *)
LEMMA IsoKindInv ==
  ASSUME GuessInv, UNCHANGED <<task, cd>>, SixBuffers', IsAnalysis(analysis'),
         HoldsBlock(task, buffer', cd, guess, 0, 16), HoldsBlock(task, buffer', cd, guess, 1, 0),
         NEW ret, IsRet(ret), Told(task, cd, guess, ret), AnalysisOf(task, cd, guess, ret, analysis'),
         Kinds!Return(Kinds!OtherChecks(buffer', ret))
  PROVE  GuessInv'
<1> DEFINE r == Kinds!OtherChecks(buffer', ret)
<1>1. /\ IsRet(r) /\ Told(task, cd, guess, r)
      /\ \A a : AnalysisOf(task, cd, guess, ret, a) => AnalysisOf(task, cd, guess, r, a)
  BY OtherChecksTell
<1>2. Kinds!Return(r)
  OBVIOUS
<1> HIDE DEF r
<1> QED BY <1>1, <1>2, ReturnInv

(* Bits that show are told as well.                                         *)
LEMMA TellShown ==
  ASSUME NEW ret, IsRet(ret), Told(task, cd, guess, ret), NEW bits,
         \A thing \in bits : thing \in Things => Shown(task, cd, guess, thing)
  PROVE  LET r == Kinds!Tell(ret, bits)
         IN  IsRet(r) /\ Told(task, cd, guess, r) /\ r.type = ret.type /\ r.bits = ret.bits \cup bits
<1> DEFINE r == Kinds!Tell(ret, bits)
<1>1. IsRet(r) /\ r.type = ret.type /\ r.bits = ret.bits \cup bits
  BY DEF Kinds!Tell, IsRet
<1> HIDE DEF r
<1>2. Told(task, cd, guess, r)
  BY <1>1 DEF Told
<1> QED BY <1>1, <1>2 DEF r

(* The level of Joliet is taken from the block that shows it.               *)
LEMMA JolietTold ==
  ASSUME IsGuess(guess), NEW b, HoldsBlock(task, b, cd, guess, 3, 17), IsAnalysis(analysis),
         Told(task, cd, guess, guess.ret), AnalysisOf(task, cd, guess, guess.ret, analysis), NEW bits,
         bits \subseteq {"joliet", "bootable", "any"},
         "joliet" \in bits <=> Kinds!Is(b, "joliet"), "bootable" \in bits <=> Kinds!Is(b, "el_torito"),
         analysis' = IF Kinds!Is(b, "joliet") THEN [analysis EXCEPT !.level = b[3].value] ELSE analysis
  PROVE  LET r == Kinds!Tell(guess.ret, bits)
         IN  /\ IsRet(r) /\ r.type = guess.ret.type /\ Told(task, cd, guess, r) /\ IsAnalysis(analysis')
             /\ AnalysisOf(task, cd, guess, r, analysis')
<1> DEFINE r == Kinds!Tell(guess.ret, bits)
<1>1. \A thing \in bits : thing \in Things => Shown(task, cd, guess, thing)
  BY LaterBlocksShow, NoThings
<1>2. IsRet(r) /\ r.type = guess.ret.type /\ Told(task, cd, guess, r) /\ r.bits = guess.ret.bits \cup bits
  BY <1>1, TellShown DEF IsGuess
<1>3. CASE Kinds!Is(b, "joliet")
  <2>1. b[3] = Kinds!On(cd, guess.start + 17)
    BY <1>3, LaterBlocksShow
  <2>2. /\ IsAnalysis(analysis') /\ analysis'.level = Kinds!On(cd, guess.start + 17).value
        /\ analysis'.size = analysis.size /\ analysis'.label = analysis.label /\ analysis'.version = analysis.version
    BY <1>3, <2>1 DEF IsAnalysis
  <2> HIDE DEF r
  <2>3. AnalysisOf(task, cd, guess, r, analysis')
    BY <1>2, <2>2 DEF AnalysisOf
  <2> QED BY <1>2, <2>2, <2>3 DEF r
<1>4. CASE ~Kinds!Is(b, "joliet")
  <2> HIDE DEF r
  <2>1. IsAnalysis(analysis') /\ analysis' = analysis /\ "joliet" \notin bits
    BY <1>4
  <2>2. AnalysisOf(task, cd, guess, r, analysis')
    BY <1>2, <2>1 DEF AnalysisOf
  <2> QED BY <1>2, <2>1, <2>2 DEF r
<1> QED BY <1>3, <1>4

LEMMA BootInv == ASSUME GuessInv, Kinds!ReadBoot PROVE GuessInv'
<1> DEFINE b == buffer'
           bits == (IF Kinds!Is(b, "joliet") THEN {"joliet", "any"} ELSE {})
                   \cup (IF Kinds!Is(b, "el_torito") THEN {"bootable"} ELSE {})
           ret == Kinds!Tell(guess.ret, bits)
<1>1. Kinds!Reads("boot", 3, 17)
  BY DEF Kinds!ReadBoot
<1>2. /\ UNCHANGED <<task, cd>> /\ task # "linux" /\ SixBuffers'
      /\ HoldsBlock(task, b, cd, guess, 0, 16) /\ HoldsBlock(task, b, cd, guess, 1, 0)
      /\ HoldsBlock(task, b, cd, guess, 3, 17)
      /\ IsGuess(guess) /\ IsAnalysis(analysis) /\ guess.ret.type \in Kinds!IsoTypes
      /\ Told(task, cd, guess, guess.ret) /\ AnalysisOf(task, cd, guess, guess.ret, analysis)
  BY <1>1, IsoReads DEF InfoSteps, IsoSteps
<1>3. CASE Kinds!GiveUp
  BY <1>2, <1>3, GiveUpInv
<1>4. CASE Kinds!Boot(b)
  <2>1. /\ analysis' = IF Kinds!Is(b, "joliet") THEN [analysis EXCEPT !.level = b[3].value] ELSE analysis
        /\ \/ guess' = [guess EXCEPT !.at = "vcd", !.ret = ret]
           \/ Kinds!Return(Kinds!OtherChecks(b, ret))
    BY <1>4 DEF Kinds!Boot
  <2>2. bits \subseteq {"joliet", "bootable", "any"} /\ ("joliet" \in bits <=> Kinds!Is(b, "joliet"))
        /\ ("bootable" \in bits <=> Kinds!Is(b, "el_torito"))
    OBVIOUS
  <2> HIDE DEF bits
  <2>3. /\ IsRet(ret) /\ ret.type = guess.ret.type /\ Told(task, cd, guess, ret) /\ IsAnalysis(analysis')
        /\ AnalysisOf(task, cd, guess, ret, analysis')
    BY <1>2, <2>1, <2>2, JolietTold
  <2> HIDE DEF ret
  <2>4. CASE Kinds!Return(Kinds!OtherChecks(b, ret))
    BY <1>2, <2>3, <2>4, IsoKindInv
  <2>5. CASE guess' = [guess EXCEPT !.at = "vcd", !.ret = ret]
    <3>1. IsGuess(guess') /\ guess'.at = "vcd" /\ guess'.ret = ret
          /\ guess'.track = guess.track /\ guess'.start = guess.start
      BY <1>2, <2>3, <2>5 DEF IsGuess
    <3> QED BY <1>2, <2>3, <3>1, GoesOnInv DEF InfoSteps, Read16, Read0, IsoSteps
  <2> QED BY <2>1, <2>4, <2>5
<1> QED BY <1>3, <1>4 DEF Kinds!ReadBoot

LEMMA VcdInv == ASSUME GuessInv, Kinds!ReadVcd PROVE GuessInv'
<1> DEFINE b == buffer'
           bits == IF Kinds!Is(b, "bridge") /\ Kinds!Is(b, "cd_rtos")
                     THEN {"any"} \cup (IF Kinds!Is(b, "vcd") THEN {"video_cd"}
                                        ELSE IF Kinds!Is(b, "svcd") THEN {"svcd"} ELSE {})
                   ELSE IF Kinds!Is(b, "svcd") THEN {"cvd"} ELSE {}
           ret == Kinds!Tell(guess.ret, bits)
<1>1. Kinds!Reads("vcd", 4, 150)
  BY DEF Kinds!ReadVcd
<1>2. /\ UNCHANGED <<task, cd>> /\ task # "linux" /\ SixBuffers'
      /\ HoldsBlock(task, b, cd, guess, 0, 16) /\ HoldsBlock(task, b, cd, guess, 1, 0)
      /\ HoldsBlock(task, b, cd, guess, 4, 150)
      /\ IsRet(guess.ret) /\ IsAnalysis(analysis)
      /\ Told(task, cd, guess, guess.ret) /\ AnalysisOf(task, cd, guess, guess.ret, analysis)
  BY <1>1, IsoReads DEF InfoSteps, IsoSteps
<1>3. CASE Kinds!GiveUp
  BY <1>2, <1>3, GiveUpInv
<1>4. CASE Kinds!Vcd(b)
  <2>1. UNCHANGED analysis /\ Kinds!Return(Kinds!OtherChecks(b, ret))
    BY <1>4 DEF Kinds!Vcd
  <2>2. \A thing \in bits : (thing \in Things => Shown(task, cd, guess, thing)) /\ thing # "joliet"
    BY <1>2, LaterBlocksShow, NoThings
  <2> HIDE DEF bits
  <2>3. IsRet(ret) /\ Told(task, cd, guess, ret) /\ ret.type = guess.ret.type /\ ret.bits = guess.ret.bits \cup bits
    BY <1>2, <2>2, TellShown
  <2> HIDE DEF ret
  <2>4. AnalysisOf(task, cd, guess, ret, analysis')
    BY <1>2, <2>1, <2>2, <2>3 DEF AnalysisOf
  <2> QED BY <1>2, <2>1, <2>3, <2>4, IsoKindInv
<1> QED BY <1>3, <1>4 DEF Kinds!ReadVcd

(* The steps of cdinfo-linux's guess_filesystem.                            *)
LEMMA LinuxReadsIn ==
  ASSUME GuessInv, NEW step \in LinuxSteps, NEW num \in 0 .. 5, NEW block, Kinds!LinuxReads(step, num, block)
  PROVE  /\ guess.at = step /\ UNCHANGED <<task, cd>> /\ task = "linux"
         /\ SixBuffers' /\ HoldsBlock(task, buffer', cd, guess, num, block)
         /\ step \in Read16 /\ num # 0 => HoldsBlock(task, buffer', cd, guess, 0, 16)
         /\ step \in Read0 /\ num # 1 => HoldsBlock(task, buffer', cd, guess, 1, 0)
         /\ IsRet(guess.ret) /\ IsGuess(guess) /\ IsAnalysis(analysis)
         /\ Told(task, cd, guess, guess.ret) /\ AnalysisOf(task, cd, guess, guess.ret, analysis)
<1>1. /\ guess.at = step /\ UNCHANGED <<task, cd>>
      /\ buffer' = [buffer EXCEPT ![num] = IF Kinds!ReadableByLinux(block)
                                             THEN Kinds!On(cd, guess.start + block) ELSE Kinds!Blank]
  BY DEF Kinds!LinuxReads
<1>2. task = "linux"
  BY <1>1 DEF GuessInv
<1>3. IsRet(guess.ret) /\ IsGuess(guess) /\ IsAnalysis(analysis)
      /\ Told(task, cd, guess, guess.ret) /\ AnalysisOf(task, cd, guess, guess.ret, analysis)
  BY DEF GuessInv, IsGuess
<1>4. /\ step \in Read16 => HoldsBlock(task, buffer, cd, guess, 0, 16)
      /\ step \in Read0 => HoldsBlock(task, buffer, cd, guess, 1, 0)
  BY <1>1 DEF GuessInv
<1>5. /\ SixBuffers' /\ HoldsBlock(task, buffer', cd, guess, num, block)
      /\ \A n, l : n \in 0 .. 5 /\ n # num =>
           (HoldsBlock(task, buffer', cd, guess, n, l) <=> HoldsBlock(task, buffer, cd, guess, n, l))
  BY <1>1, ReadStep
<1>6. step \in Read16 /\ num # 0 => HoldsBlock(task, buffer', cd, guess, 0, 16)
  BY <1>4, <1>5
<1>7. step \in Read0 /\ num # 1 => HoldsBlock(task, buffer', cd, guess, 1, 0)
  BY <1>4, <1>5
<1> QED BY <1>1, <1>2, <1>3, <1>5, <1>6, <1>7

LEMMA LinuxSuperblockInv == ASSUME GuessInv, Kinds!LinuxSuperblock PROVE GuessInv'
<1>1. Kinds!LinuxReads("linux_superblock", 0, 16) /\ UNCHANGED analysis
  BY DEF Kinds!LinuxSuperblock
<1>2. /\ UNCHANGED <<task, cd>> /\ task = "linux" /\ SixBuffers' /\ HoldsBlock(task, buffer', cd, guess, 0, 16)
      /\ Told(task, cd, guess, guess.ret) /\ AnalysisOf(task, cd, guess, guess.ret, analysis) /\ IsAnalysis(analysis)
  BY <1>1, LinuxReadsIn DEF LinuxSteps
<1>3. CASE Kinds!Return(Kinds!Unknown)
  BY <1>1, <1>2, <1>3, PlainKind, NoThings, ReturnInv DEF Kinds!IsoTypes, Kinds!Unknown
<1>4. CASE Kinds!Is(buffer', "cd_i") /\ Kinds!Return(Kinds!Kind("interactive", {}))
  BY <1>1, <1>2, <1>4, Sector16Shows, PlainKind, ReturnInv DEF Kinds!IsoTypes
<1>5. CASE Kinds!To("linux_sector0")
  <2>1. IsGuess(guess') /\ guess'.at = "linux_sector0" /\ guess'.ret = guess.ret
        /\ guess'.track = guess.track /\ guess'.start = guess.start
    BY <1>5, ToStep
  <2> QED BY <1>1, <1>2, <2>1, GoesOnInv DEF LinuxSteps, Read16, Read0, IsoSteps
<1> QED BY <1>3, <1>4, <1>5 DEF Kinds!LinuxSuperblock

LEMMA LinuxSectorZeroInv == ASSUME GuessInv, Kinds!LinuxSectorZero PROVE GuessInv'
<1> DEFINE b == buffer'
<1>1. Kinds!LinuxReads("linux_sector0", 1, 0)
  BY DEF Kinds!LinuxSectorZero
<1>2. /\ UNCHANGED <<task, cd>> /\ task = "linux" /\ SixBuffers' /\ IsGuess(guess) /\ IsAnalysis(analysis)
      /\ HoldsBlock(task, b, cd, guess, 1, 0) /\ HoldsBlock(task, b, cd, guess, 0, 16)
      /\ Told(task, cd, guess, guess.ret) /\ AnalysisOf(task, cd, guess, guess.ret, analysis)
  BY <1>1, LinuxReadsIn DEF LinuxSteps, Read16
<1>3. CASE Kinds!GiveUp
  BY <1>2, <1>3, GiveUpInv
<1>4. CASE Kinds!To("linux_ufs") /\ UNCHANGED analysis
  <2>1. IsGuess(guess') /\ guess'.at = "linux_ufs" /\ guess'.ret = guess.ret
        /\ guess'.track = guess.track /\ guess'.start = guess.start
    BY <1>4, ToStep
  <2> QED BY <1>2, <1>4, <2>1, GoesOnInv DEF LinuxSteps, Read16, Read0, IsoSteps
<1>5. CASE /\ Kinds!Return(Kinds!OtherChecks(b, Kinds!Kind(Kinds!OtherFileSystem(b), {}))) /\ UNCHANGED analysis
           /\ Kinds!OtherFileSystem(b) # "none"
  <2> DEFINE type == Kinds!OtherFileSystem(b)
  <2>1. \/ type = "high_sierra" /\ Kinds!Is(b, "cdrom")
        \/ type = "hfs" /\ Kinds!Is(b, "hfs")
        \/ type = "ext2" /\ Kinds!Is(b, "ext2")
        \/ type = "panasonic" /\ Kinds!Is(b, "3do")
        \/ type = "none"
    BY DEF Kinds!OtherFileSystem
  <2>2. type \in {"high_sierra", "hfs", "ext2", "panasonic"} /\ Shown(task, cd, guess, type)
    BY <1>2, <1>5, <2>1, Sector16Shows, Sector0Shows
  <2> HIDE DEF type
  <2>3. type \notin Kinds!IsoTypes /\ type # "udf"
    BY <2>2 DEF Kinds!IsoTypes
  <2>4. Kinds!Return(Kinds!OtherChecks(b, Kinds!Kind(type, {}))) /\ UNCHANGED analysis
    BY <1>5 DEF type
  <2> QED BY <1>2, <2>2, <2>3, <2>4, OtherKindInv
<1>6. CASE /\ Kinds!Is(b, "cd001")
           /\ guess' = [guess EXCEPT !.at = "linux_boot", !.ret = Kinds!Kind(Kinds!IsoFileSystem(b), {})]
           /\ analysis' = [analysis EXCEPT !.size = b[0].value, !.label = b[0].name]
  <2> DEFINE type == Kinds!IsoFileSystem(b)
             ret == Kinds!Kind(type, {})
  <2>1. Shown(task, cd, guess, "iso") /\ b[0] = Kinds!On(cd, guess.start + 16)
    BY <1>2, <1>6, Sector16Shows
  <2>2. \/ type = "iso_interactive" /\ Kinds!Is(b, "cd_rtos")
        \/ type = "iso_hfs" /\ Kinds!Is(b, "hfs")
        \/ type = "iso"
    BY DEF Kinds!IsoFileSystem
  <2>3. type \in {"iso", "iso_hfs", "iso_interactive"} /\ Shown(task, cd, guess, type)
    BY <1>2, <2>1, <2>2, Sector16Shows, Sector0Shows
  <2>4. guess' = [guess EXCEPT !.at = "linux_boot", !.ret = ret]
    BY <1>6
  <2> HIDE DEF type
  <2>5. IsRet(ret) /\ ret.bits = {} /\ ret.type = type
    BY KindOf
  <2> HIDE DEF ret
  <2>6. IsGuess(guess') /\ guess'.at = "linux_boot" /\ guess'.ret = ret
        /\ guess'.track = guess.track /\ guess'.start = guess.start
    BY <1>2, <2>4, <2>5 DEF IsGuess
  <2>7. /\ IsAnalysis(analysis') /\ analysis'.size = b[0].value /\ analysis'.label = b[0].name
    BY <1>2, <1>6 DEF IsAnalysis
  <2>8. Told(task, cd, guess, ret) /\ AnalysisOf(task, cd, guess, ret, analysis')
    BY <2>1, <2>3, <2>5, <2>7 DEF Told, AnalysisOf
  <2>9. ret.type \in Kinds!IsoTypes
    BY <2>3, <2>5 DEF Kinds!IsoTypes
  <2> QED BY <1>2, <2>6, <2>7, <2>8, <2>9, GoesOnInv DEF LinuxSteps, Read16, Read0, IsoSteps
<1> QED BY <1>3, <1>4, <1>5, <1>6 DEF Kinds!LinuxSectorZero

LEMMA LinuxBootInv == ASSUME GuessInv, Kinds!LinuxBoot PROVE GuessInv'
<1> DEFINE b == buffer'
           bits == (IF Kinds!Is(b, "joliet") THEN {"joliet"} ELSE {})
                   \cup (IF Kinds!Is(b, "el_torito") THEN {"bootable"} ELSE {})
           ret == Kinds!Tell(guess.ret, bits)
<1>1. Kinds!LinuxReads("linux_boot", 3, 17)
  BY DEF Kinds!LinuxBoot
<1>2. /\ UNCHANGED <<task, cd>> /\ task = "linux" /\ SixBuffers' /\ IsGuess(guess) /\ IsAnalysis(analysis)
      /\ HoldsBlock(task, b, cd, guess, 1, 0) /\ HoldsBlock(task, b, cd, guess, 0, 16)
      /\ HoldsBlock(task, b, cd, guess, 3, 17) /\ guess.at = "linux_boot"
      /\ Told(task, cd, guess, guess.ret) /\ AnalysisOf(task, cd, guess, guess.ret, analysis)
  BY <1>1, LinuxReadsIn DEF LinuxSteps, Read16, Read0, IsoSteps
<1>3. guess.ret.type \in Kinds!IsoTypes
  BY <1>2 DEF GuessInv, IsoSteps
<1>4. CASE Kinds!GiveUp
  BY <1>2, <1>4, GiveUpInv
<1>5. CASE /\ analysis' = IF Kinds!Is(b, "joliet") THEN [analysis EXCEPT !.level = b[3].value] ELSE analysis
           /\ \/ guess' = [guess EXCEPT !.at = "linux_vcd", !.ret = ret]
              \/ Kinds!Return(Kinds!OtherChecks(b, ret))
  <2>1. bits \subseteq {"joliet", "bootable", "any"} /\ ("joliet" \in bits <=> Kinds!Is(b, "joliet"))
        /\ ("bootable" \in bits <=> Kinds!Is(b, "el_torito"))
    OBVIOUS
  <2> HIDE DEF bits
  <2>2. /\ IsRet(ret) /\ ret.type = guess.ret.type /\ Told(task, cd, guess, ret) /\ IsAnalysis(analysis')
        /\ AnalysisOf(task, cd, guess, ret, analysis')
    BY <1>2, <1>5, <2>1, JolietTold
  <2> HIDE DEF ret
  <2>3. CASE Kinds!Return(Kinds!OtherChecks(b, ret))
    BY <1>2, <2>2, <2>3, IsoKindInv
  <2>4. CASE guess' = [guess EXCEPT !.at = "linux_vcd", !.ret = ret]
    <3>1. IsGuess(guess') /\ guess'.at = "linux_vcd" /\ guess'.ret = ret
          /\ guess'.track = guess.track /\ guess'.start = guess.start
      BY <1>2, <2>2, <2>4 DEF IsGuess
    <3> QED BY <1>2, <1>3, <2>2, <3>1, GoesOnInv DEF LinuxSteps, Read16, Read0, IsoSteps
  <2> QED BY <1>5, <2>3, <2>4
<1> QED BY <1>4, <1>5 DEF Kinds!LinuxBoot

LEMMA LinuxVcdInv == ASSUME GuessInv, Kinds!LinuxVcd PROVE GuessInv'
<1> DEFINE b == buffer'
           bits == IF Kinds!Is(b, "vcd") THEN {"video_cd"} ELSE {}
           ret == Kinds!Tell(guess.ret, bits)
<1>1. Kinds!LinuxReads("linux_vcd", 4, 150)
  BY DEF Kinds!LinuxVcd
<1>2. /\ UNCHANGED <<task, cd>> /\ task = "linux" /\ SixBuffers' /\ IsRet(guess.ret) /\ IsAnalysis(analysis)
      /\ HoldsBlock(task, b, cd, guess, 1, 0) /\ HoldsBlock(task, b, cd, guess, 0, 16)
      /\ HoldsBlock(task, b, cd, guess, 4, 150)
      /\ Told(task, cd, guess, guess.ret) /\ AnalysisOf(task, cd, guess, guess.ret, analysis)
  BY <1>1, LinuxReadsIn DEF LinuxSteps, Read16, Read0, IsoSteps
<1>3. CASE Kinds!GiveUp
  BY <1>2, <1>3, GiveUpInv
<1>4. CASE Kinds!Return(Kinds!OtherChecks(b, ret)) /\ UNCHANGED analysis
  <2>1. \A thing \in bits : (thing \in Things => Shown(task, cd, guess, thing)) /\ thing # "joliet"
    BY <1>2, LaterBlocksShow
  <2> HIDE DEF bits
  <2>2. IsRet(ret) /\ Told(task, cd, guess, ret) /\ ret.type = guess.ret.type /\ ret.bits = guess.ret.bits \cup bits
    BY <1>2, <2>1, TellShown
  <2> HIDE DEF ret
  <2>3. AnalysisOf(task, cd, guess, ret, analysis')
    BY <1>2, <1>4, <2>1, <2>2 DEF AnalysisOf
  <2> QED BY <1>2, <1>4, <2>2, <2>3, IsoKindInv
<1> QED BY <1>3, <1>4 DEF Kinds!LinuxVcd

LEMMA LinuxUfsInv == ASSUME GuessInv, Kinds!LinuxUfs PROVE GuessInv'
<1> DEFINE b == buffer'
           type == IF Kinds!Is(b, "ufs") THEN "ufs" ELSE "unknown"
<1>1. Kinds!LinuxReads("linux_ufs", 2, 4)
  BY DEF Kinds!LinuxUfs
<1>2. /\ UNCHANGED <<task, cd>> /\ SixBuffers'
      /\ HoldsBlock(task, b, cd, guess, 1, 0) /\ HoldsBlock(task, b, cd, guess, 0, 16)
      /\ HoldsBlock(task, b, cd, guess, 2, 4)
  BY <1>1, LinuxReadsIn DEF LinuxSteps, Read16, Read0
<1>3. CASE Kinds!GiveUp
  BY <1>2, <1>3, GiveUpInv
<1>4. CASE Kinds!Return(Kinds!OtherChecks(b, Kinds!Kind(type, {}))) /\ UNCHANGED analysis
  <2>1. type \in {"ufs", "unknown"} /\ (type = "ufs" => Shown(task, cd, guess, "ufs"))
    BY <1>2, LaterBlocksShow
  <2> HIDE DEF type
  <2> QED BY <1>2, <1>4, <2>1, NoThings, OtherKindInv DEF Kinds!IsoTypes
<1> QED BY <1>3, <1>4 DEF Kinds!LinuxUfs

LEMMA GuessingInv == ASSUME GuessInv, Kinds!GuessCdType \/ Kinds!GuessFilesystem PROVE GuessInv'
<1>1. CASE Kinds!GuessCdType
  BY <1>1, SuperblockInv, UdfVersionInv, UdfLabelInv, SectorZeroInv, UfsInv, AnchorInv, IsoUdfInv, BootInv, VcdInv
     DEF Kinds!GuessCdType
<1>2. CASE Kinds!GuessFilesystem
  BY <1>2, LinuxSuperblockInv, LinuxSectorZeroInv, LinuxBootInv, LinuxVcdInv, LinuxUfsInv DEF Kinds!GuessFilesystem
<1> QED BY <1>1, <1>2

(* The programs and the search, which start guesses and drop them.          *)
LEMMA BeginsInv ==
  ASSUME GuessInv, UNCHANGED <<task, buffer, analysis>>, IsGuess(guess'), guess'.ret.bits = {},
         guess'.ret.type \in {"unknown", "none", "audio"},
         \/ guess'.at \in {"idle", "done"}
         \/ guess'.at = "superblock" /\ task # "linux"
         \/ guess'.at = "linux_superblock" /\ task = "linux"
  PROVE  GuessInv'
<1>1. Told(task', cd', guess', guess'.ret)
  BY NoThings DEF Told
<1>2. AnalysisOf(task', cd', guess', guess'.ret, analysis')
  BY DEF AnalysisOf, Kinds!IsoTypes
<1>3. SixBuffers' /\ IsAnalysis(analysis')
  BY DEF GuessInv, SixBuffers
<1>4. guess'.at \notin Read16 /\ guess'.at \notin Read0 /\ guess'.at \notin IsoSteps
  BY DEF Read16, Read0, IsoSteps
<1>5. /\ guess'.at \in {"idle", "done"} \cup InfoSteps \cup LinuxSteps
      /\ guess'.at \in InfoSteps => task' # "linux"
      /\ guess'.at \in LinuxSteps => task' = "linux"
  BY DEF InfoSteps, LinuxSteps
<1> QED BY <1>1, <1>2, <1>3, <1>4, <1>5 DEF GuessInv

LEMMA GuessRecord ==
  ASSUME NEW at, NEW p, NEW t, NEW s, NEW z, NEW type, NEW bits, NEW g,
         g = [at |-> at, purpose |-> p, track |-> t, start |-> s, sector0 |-> z, ret |-> [type |-> type, bits |-> bits]]
  PROVE  /\ IsGuess(g) /\ g.at = at /\ g.purpose = p /\ g.track = t /\ g.start = s
         /\ g.ret.type = type /\ g.ret.bits = bits
BY DEF IsGuess, IsRet

LEMMA NewGuesses ==
  /\ LET g == Kinds!Idle IN IsGuess(g) /\ g.at = "idle" /\ g.ret.bits = {} /\ g.ret.type = "unknown"
  /\ \A p, t, s : LET g == Kinds!Guessing(p, t, s)
                  IN  /\ IsGuess(g) /\ g.at \in {"done", "superblock"} /\ g.ret.bits = {}
                      /\ g.ret.type \in {"unknown", "audio"} /\ g.purpose = p
  /\ \A p, t, s : LET g == Kinds!LinuxGuessing(p, t, s)
                  IN  /\ IsGuess(g) /\ g.at = "linux_superblock" /\ g.ret.bits = {} /\ g.ret.type = "none"
                      /\ g.purpose = p
<1>1. LET g == Kinds!Idle IN IsGuess(g) /\ g.at = "idle" /\ g.ret.bits = {} /\ g.ret.type = "unknown"
  BY DEF Kinds!Idle, Kinds!Unknown, Kinds!Kind, IsGuess, IsRet
<1>2. ASSUME NEW p, NEW t, NEW s
      PROVE  LET g == Kinds!Guessing(p, t, s)
             IN  /\ IsGuess(g) /\ g.at \in {"done", "superblock"} /\ g.ret.bits = {}
                 /\ g.ret.type \in {"unknown", "audio"} /\ g.purpose = p
  <2> DEFINE audio == Kinds!Format(cd, t) = "audio"
  <2>1. Kinds!Guessing(p, t, s) =
          [at |-> IF audio THEN "done" ELSE "superblock", purpose |-> p, track |-> t, start |-> s,
           sector0 |-> FALSE, ret |-> [type |-> IF audio THEN "audio" ELSE "unknown", bits |-> {}]]
    BY DEF Kinds!Guessing, Kinds!Unknown, Kinds!Kind
  <2> HIDE DEF audio
  <2> QED BY <2>1, GuessRecord
<1>3. ASSUME NEW p, NEW t, NEW s
      PROVE  LET g == Kinds!LinuxGuessing(p, t, s)
             IN  /\ IsGuess(g) /\ g.at = "linux_superblock" /\ g.ret.bits = {} /\ g.ret.type = "none"
                 /\ g.purpose = p
  BY DEF Kinds!LinuxGuessing, Kinds!NoData, Kinds!Kind, IsGuess, IsRet
<1> QED BY <1>1, <1>2, <1>3

(* What a step of a program does about the guess.                           *)
Moves ==
  /\ UNCHANGED <<task, cd, buffer, search, analysis>>
  /\ \/ UNCHANGED guess
     \/ guess' = Kinds!Idle
     \/ task = "info" /\ \E p \in {"hidden", "session"} : \E t, s : guess' = Kinds!Guessing(p, t, s)
     \/ task = "linux" /\ \E p \in {"linux_hidden", "session"} : \E t, s : guess' = Kinds!LinuxGuessing(p, t, s)

LEMMA NewNotIdle ==
  \A p, t, s : Kinds!Guessing(p, t, s) # Kinds!Idle /\ Kinds!LinuxGuessing(p, t, s) # Kinds!Idle
BY NewGuesses

LEMMA InfoMoves == Kinds!CdInfo => Moves /\ (guess' = Kinds!Idle => guess.purpose # "search" \/ UNCHANGED guess)
<1>1. CASE Kinds!OpenDisc \/ Kinds!TrackLine \/ Kinds!Identify
  BY <1>1 DEF Kinds!OpenDisc, Kinds!TrackLine, Kinds!Identify, Kinds!InfoStep, Moves
<1>2. CASE Kinds!HiddenTrack
  <2>1. \/ guess' = Kinds!Guessing("hidden", 1, 0) \/ UNCHANGED guess
    BY <1>2 DEF Kinds!HiddenTrack
  <2>2. UNCHANGED <<task, cd, buffer, search, analysis>> /\ task = "info" /\ guess.at = "idle"
    BY <1>2 DEF Kinds!HiddenTrack, Kinds!InfoStep, Kinds!InfoAt, Kinds!ProgramAt
  <2> QED BY <2>1, <2>2, NewNotIdle DEF Moves
<1>3. CASE Kinds!HiddenChecked
  BY <1>3 DEF Kinds!HiddenChecked, Kinds!InfoStep, Moves
<1>4. CASE Kinds!ListDirectory \/ Kinds!Listed \/ Kinds!BeginData \/ Kinds!NextTrack \/ Kinds!StopWalk
  BY <1>4 DEF Kinds!ListDirectory, Kinds!Listed, Kinds!BeginData, Kinds!NextTrack, Kinds!StopWalk, Kinds!InfoStep, Moves
<1>5. CASE Kinds!WalkTrack
  <2>1. UNCHANGED <<task, cd, buffer, search, analysis>> /\ task = "info"
    BY <1>5 DEF Kinds!WalkTrack, Kinds!PassOrGuess, Kinds!InfoStep, Kinds!InfoAt
  <2>2. (\E i, at : guess' = Kinds!GuessAtTrack(i, at)) \/ UNCHANGED guess
    BY <1>5 DEF Kinds!WalkTrack, Kinds!PassOrGuess
  <2>3. (\E i, at : guess' = Kinds!Guessing("session", i, at)) \/ UNCHANGED guess
    BY <2>1, <2>2 DEF Kinds!GuessAtTrack
  <2> QED BY <2>1, <2>3, NewNotIdle DEF Moves
<1>6. CASE Kinds!SessionGuessed
  BY <1>6 DEF Kinds!SessionGuessed, Kinds!SessionAsGuessed, Kinds!InfoStep, Moves
<1> QED BY <1>1, <1>2, <1>3, <1>4, <1>5, <1>6 DEF Kinds!CdInfo

LEMMA LinuxMoves == Kinds!CdInfoLinux => Moves /\ (guess' = Kinds!Idle => guess.purpose # "search" \/ UNCHANGED guess)
<1>1. CASE Kinds!LinuxOpen \/ Kinds!LinuxLine \/ Kinds!LinuxStatus
  BY <1>1 DEF Kinds!LinuxOpen, Kinds!LinuxLine, Kinds!LinuxStatus, Kinds!InfoStep, Moves
<1>2. CASE Kinds!LinuxHidden
  <2>1. \/ guess' = Kinds!LinuxGuessing("linux_hidden", 1, 0) \/ UNCHANGED guess
    BY <1>2 DEF Kinds!LinuxHidden
  <2>2. UNCHANGED <<task, cd, buffer, search, analysis>> /\ task = "linux" /\ guess.at = "idle"
    BY <1>2 DEF Kinds!LinuxHidden, Kinds!InfoStep, Kinds!LinuxAt, Kinds!ProgramAt
  <2> QED BY <2>1, <2>2, NewNotIdle DEF Moves
<1>3. CASE Kinds!LinuxHiddenChecked
  BY <1>3 DEF Kinds!LinuxHiddenChecked, Kinds!InfoStep, Moves
<1>4. CASE Kinds!LinuxWalk
  <2>1. UNCHANGED <<task, cd, buffer, search, analysis>> /\ task = "linux"
    BY <1>4 DEF Kinds!LinuxWalk, Kinds!PassOrGuess, Kinds!InfoStep, Kinds!LinuxAt
  <2>2. (\E i, at : guess' = Kinds!GuessAtTrack(i, at)) \/ UNCHANGED guess
    BY <1>4 DEF Kinds!LinuxWalk, Kinds!PassOrGuess
  <2>3. (\E i, at : guess' = Kinds!LinuxGuessing("session", i, at)) \/ UNCHANGED guess
    BY <2>1, <2>2 DEF Kinds!GuessAtTrack
  <2> QED BY <2>1, <2>3, NewNotIdle DEF Moves
<1>5. CASE Kinds!LinuxSession
  BY <1>5 DEF Kinds!LinuxSession, Kinds!SessionAsGuessed, Kinds!InfoStep, Moves
<1> QED BY <1>1, <1>2, <1>3, <1>4, <1>5 DEF Kinds!CdInfoLinux

LEMMA MovesInv == ASSUME GuessInv, Moves PROVE GuessInv'
<1>1. CASE UNCHANGED guess
  BY <1>1 DEF Moves, GuessInv, SixBuffers
<1>2. CASE guess' = Kinds!Idle
  BY <1>2, NewGuesses, BeginsInv DEF Moves
<1>3. ASSUME task = "info", NEW p, NEW t, NEW s, guess' = Kinds!Guessing(p, t, s) PROVE GuessInv'
  BY <1>3, NewGuesses, BeginsInv DEF Moves
<1>4. ASSUME task = "linux", NEW p, NEW t, NEW s, guess' = Kinds!LinuxGuessing(p, t, s) PROVE GuessInv'
  BY <1>4, NewGuesses, BeginsInv DEF Moves
<1> QED BY <1>1, <1>2, <1>3, <1>4 DEF Moves

LEMMA OpenDriveGuess ==
  ASSUME Kinds!OpenDrive
  PROVE  /\ UNCHANGED <<task, buffer, analysis>> /\ task = "search" /\ guess.at = "idle" /\ search.left # << >>
         /\ \/ UNCHANGED <<cd, guess>> /\ search' = [search EXCEPT !.left = Tail(@)]
            \/ /\ cd' = Head(search.left) /\ UNCHANGED search
               /\ IsGuess(guess') /\ guess'.at \in {"done", "superblock"} /\ guess'.ret.bits = {}
               /\ guess'.ret.type \in {"unknown", "audio"} /\ guess'.purpose = "search"
               /\ guess'.track = cd'.first /\ guess'.start = 0
<1> DEFINE d == Head(search.left)
           audio == Kinds!Format(d, d.first) = "audio"
<1>1. /\ UNCHANGED <<task, buffer, analysis>> /\ task = "search" /\ guess.at = "idle" /\ search.left # << >>
      /\ \/ UNCHANGED <<cd, guess>> /\ search' = [search EXCEPT !.left = Tail(@)]
         \/ /\ cd' = d /\ UNCHANGED search
            /\ guess' = [Kinds!Idle EXCEPT !.purpose = "search", !.track = d.first,
                           !.at = IF audio THEN "done" ELSE "superblock",
                           !.ret = IF audio THEN Kinds!Kind("audio", {}) ELSE Kinds!Unknown]
  BY DEF Kinds!OpenDrive
<1>2. ASSUME cd' = d,
             guess' = [Kinds!Idle EXCEPT !.purpose = "search", !.track = d.first,
                         !.at = IF audio THEN "done" ELSE "superblock",
                         !.ret = IF audio THEN Kinds!Kind("audio", {}) ELSE Kinds!Unknown]
      PROVE  /\ IsGuess(guess') /\ guess'.at \in {"done", "superblock"} /\ guess'.ret.bits = {}
             /\ guess'.ret.type \in {"unknown", "audio"} /\ guess'.purpose = "search"
             /\ guess'.track = cd'.first /\ guess'.start = 0
  <2> HIDE DEF audio, d
  <2>1. guess' = [at |-> IF audio THEN "done" ELSE "superblock", purpose |-> "search", track |-> d.first, start |-> 0,
                  sector0 |-> FALSE, ret |-> [type |-> IF audio THEN "audio" ELSE "unknown", bits |-> {}]]
    BY <1>2 DEF Kinds!Idle, Kinds!Unknown, Kinds!Kind
  <2>2. /\ IsGuess(guess') /\ guess'.at = (IF audio THEN "done" ELSE "superblock") /\ guess'.purpose = "search"
        /\ guess'.track = d.first /\ guess'.start = 0
        /\ guess'.ret.type = (IF audio THEN "audio" ELSE "unknown") /\ guess'.ret.bits = {}
    <3> DEFINE at == IF audio THEN "done" ELSE "superblock"
               type == IF audio THEN "audio" ELSE "unknown"
               first == d.first
    <3>1. guess' = [at |-> at, purpose |-> "search", track |-> first, start |-> 0, sector0 |-> FALSE,
                    ret |-> [type |-> type, bits |-> {}]]
      BY <2>1
    <3> HIDE DEF at, type, first
    <3>2. /\ IsGuess(guess') /\ guess'.at = at /\ guess'.purpose = "search"
          /\ guess'.track = first /\ guess'.start = 0 /\ guess'.ret.type = type /\ guess'.ret.bits = {}
      BY <3>1, GuessRecord
    <3> QED BY <3>2 DEF at, type, first
  <2> QED BY <1>2, <2>2
<1> QED BY <1>1, <1>2

LEMMA GuessNext == ASSUME GuessInv, [Kinds!Next]_(Kinds!vars) PROVE GuessInv'
<1>1. CASE Kinds!OpenDrive
  <2>1. CASE UNCHANGED <<cd, guess>>
    BY <1>1, <2>1, OpenDriveGuess DEF GuessInv, SixBuffers
  <2> QED BY <1>1, <2>1, OpenDriveGuess, BeginsInv
<1>2. CASE Kinds!JudgeDrive
  <2>1. guess' = Kinds!Idle /\ UNCHANGED <<task, buffer, analysis>>
    BY <1>2 DEF Kinds!JudgeDrive
  <2> QED BY <2>1, NewGuesses, BeginsInv
<1>3. CASE UNCHANGED Kinds!vars
  BY <1>3 DEF Kinds!vars, GuessInv, SixBuffers
<1> QED BY <1>1, <1>2, <1>3, GuessingInv, InfoMoves, LinuxMoves, MovesInv DEF Kinds!Next

LEMMA GuessStarts == Kinds!Init \/ Kinds!InitNone => GuessInv
<1> SUFFICES ASSUME Kinds!Init \/ Kinds!InitNone PROVE GuessInv
  OBVIOUS
<1>1. buffer = [n \in 0 .. 5 |-> Kinds!Blank] /\ guess = Kinds!Idle /\ analysis = Kinds!NoAnalysis
  BY DEF Kinds!Init, Kinds!InitNone
<1>2. SixBuffers /\ IsAnalysis(analysis)
  BY <1>1 DEF SixBuffers, IsAnalysis, Kinds!NoAnalysis
<1>3. IsGuess(guess) /\ guess.at = "idle" /\ guess.ret.bits = {} /\ guess.ret.type = "unknown"
  BY <1>1, NewGuesses
<1>4. Told(task, cd, guess, guess.ret) /\ AnalysisOf(task, cd, guess, guess.ret, analysis)
  BY <1>3, NoThings DEF Told, AnalysisOf, Kinds!IsoTypes
<1> QED BY <1>2, <1>3, <1>4 DEF GuessInv, Read16, Read0, IsoSteps, InfoSteps, LinuxSteps

LEMMA GuessTells == GuessInv => Kinds!ToldOfItsTrack
<1> SUFFICES ASSUME GuessInv PROVE Kinds!ToldOfItsTrack
  OBVIOUS
<1>1. \A thing : Shown(task, cd, guess, thing) <=> Kinds!Shows(cd, guess.track, guess.start, thing)
  BY DEF Shown, Reached, Kinds!Shows
<1>2. Told(task, cd, guess, guess.ret) /\ AnalysisOf(task, cd, guess, guess.ret, analysis)
  BY DEF GuessInv
<1>3. \A thing \in (guess.ret.bits \cup {guess.ret.type}) \cap DOMAIN Kinds!Evidence :
        Kinds!Shows(cd, guess.track, guess.start, thing)
  BY <1>1, <1>2 DEF Told, Things
<1> QED BY <1>1, <1>2, <1>3 DEF AnalysisOf, Kinds!ToldOfItsTrack

(* The invariant holds of the composed specification, whose other parts     *)
(* leave the kinds alone.                                                   *)
LEMMA KindsStart == DiscDataInit => Kinds!Init \/ Kinds!InitNone
BY DEF DiscDataInit

LEMMA KindsStepOnly == [DiscDataNext]_dataVars => [Kinds!Next]_(Kinds!vars)
BY DEF DiscDataNext, dataVars, Addresses, OfText, OfMmc, OfKinds, kindVars, Kinds!vars

(* What cdio_guess_cd_type and guess_filesystem tell of a track - its file  *)
(* system, what is more in it, size, label, version and level - is in the   *)
(* blocks of that track on the disc now open, though it is looked for in    *)
(* static buffers that an earlier guess, of another disc, has filled.       *)
THEOREM GuessesTellOfTheirTrack == DiscDataSpec => []Kinds!ToldOfItsTrack
<1>1. DiscDataInit => GuessInv
  BY KindsStart, GuessStarts
<1>2. GuessInv /\ [DiscDataNext]_dataVars => GuessInv'
  BY KindsStepOnly, GuessNext
<1>3. GuessInv => Kinds!ToldOfItsTrack
  BY GuessTells
<1>4. DiscDataSpec <=> DiscDataInit /\ [][DiscDataNext]_dataVars
  BY DEF DiscDataSpec, DiscDataNext, dataVars
<1> QED BY <1>1, <1>2, <1>3, <1>4, PTL

(* The drives found by a search.  The disc of the guess being made for it   *)
(* is in the drive that is next.                                            *)
Satisfies(k, d, request) ==
  LET asked == request.need.bits \cap Things
      shown == {b \in asked : Shown(k, d, [track |-> d.first, start |-> 0], b)}
  IN  asked # {} => IF ~request.any THEN shown = asked ELSE shown # {} \/ asked # request.need.bits

SearchedIn(s) == {s.request.drives[k] : k \in DOMAIN s.request.drives}
IsSearch(s) ==
  /\ DOMAIN s = {"request", "left", "found"} /\ s = [x \in DOMAIN s |-> s[x]]
  /\ s.left \in Seq(SearchedIn(s)) /\ s.found \in Seq(SearchedIn(s))

FoundInv ==
  /\ IsSearch(search)
  /\ \A n \in DOMAIN search.found : Satisfies(task, search.found[n], search.request)
  /\ guess.at # "idle" /\ guess.purpose = "search" =>
       /\ search.left # << >> /\ cd = Head(search.left)
       /\ guess.track = cd.first /\ guess.start = 0

LEMMA Stays ==
  ASSUME GuessInv, NEW at, NEW ret, NEW zero,
         \/ Kinds!To(at) \/ Kinds!Return(ret)
         \/ guess' = [guess EXCEPT !.at = at, !.ret = ret]
         \/ guess' = [guess EXCEPT !.at = at, !.sector0 = zero, !.ret = ret]
  PROVE  guess'.purpose = guess.purpose /\ guess'.track = guess.track /\ guess'.start = guess.start
BY DEF GuessInv, IsGuess, Kinds!To, Kinds!Return

(* A step of a guess is about the same track of the same disc.              *)
SameGuess ==
  /\ UNCHANGED <<task, cd, search>> /\ guess.at # "idle"
  /\ guess'.purpose = guess.purpose /\ guess'.track = guess.track /\ guess'.start = guess.start

LEMMA InfoReadsOnly == ASSUME NEW step \in InfoSteps \cup LinuxSteps, NEW num, NEW block,
                              Kinds!Reads(step, num, block) \/ Kinds!LinuxReads(step, num, block)
                       PROVE  UNCHANGED <<task, cd, search>> /\ guess.at # "idle"
BY DEF Kinds!Reads, Kinds!LinuxReads, InfoSteps, LinuxSteps

LEMMA InfoGuessesSame == ASSUME GuessInv, Kinds!GuessCdType PROVE SameGuess
<1> USE DEF SameGuess, InfoSteps
<1>1. CASE Kinds!ReadSuperblock
  BY <1>1, InfoReadsOnly, Stays DEF Kinds!ReadSuperblock, Kinds!Superblock, Kinds!GiveUp
<1>2. CASE Kinds!ReadUdfVersion
  BY <1>2, InfoReadsOnly, Stays DEF Kinds!ReadUdfVersion, Kinds!UdfVersion, Kinds!GiveUp
<1>3. CASE Kinds!ReadUdfLabel
  BY <1>3, InfoReadsOnly, Stays DEF Kinds!ReadUdfLabel, Kinds!UdfLabel, Kinds!NoUdfLabel
<1>4. CASE Kinds!ReadSectorZero
  BY <1>4, InfoReadsOnly, Stays DEF Kinds!ReadSectorZero, Kinds!SectorZero
<1>5. CASE Kinds!ReadUfs
  BY <1>5, InfoReadsOnly, Stays DEF Kinds!ReadUfs, Kinds!Ufs, Kinds!GiveUp
<1>6. CASE Kinds!ReadAnchor
  BY <1>6, InfoReadsOnly, Stays DEF Kinds!ReadAnchor, Kinds!Anchor, Kinds!GiveUp
<1>7. CASE Kinds!ReadIsoUdf
  BY <1>7, InfoReadsOnly, Stays DEF Kinds!ReadIsoUdf, Kinds!IsoUdf, Kinds!GiveUp
<1>8. CASE Kinds!ReadBoot
  BY <1>8, InfoReadsOnly, Stays DEF Kinds!ReadBoot, Kinds!Boot, Kinds!GiveUp
<1>9. CASE Kinds!ReadVcd
  BY <1>9, InfoReadsOnly, Stays DEF Kinds!ReadVcd, Kinds!Vcd, Kinds!GiveUp
<1> QED BY <1>1, <1>2, <1>3, <1>4, <1>5, <1>6, <1>7, <1>8, <1>9 DEF Kinds!GuessCdType

LEMMA LinuxGuessesSame == ASSUME GuessInv, Kinds!GuessFilesystem PROVE SameGuess
<1> USE DEF SameGuess, LinuxSteps
<1>1. CASE Kinds!LinuxSuperblock
  BY <1>1, InfoReadsOnly, Stays DEF Kinds!LinuxSuperblock
<1>2. CASE Kinds!LinuxSectorZero
  BY <1>2, InfoReadsOnly, Stays DEF Kinds!LinuxSectorZero, Kinds!GiveUp
<1>3. CASE Kinds!LinuxBoot
  BY <1>3, InfoReadsOnly, Stays DEF Kinds!LinuxBoot, Kinds!GiveUp
<1>4. CASE Kinds!LinuxVcd
  BY <1>4, InfoReadsOnly, Stays DEF Kinds!LinuxVcd, Kinds!GiveUp
<1>5. CASE Kinds!LinuxUfs
  BY <1>5, InfoReadsOnly, Stays DEF Kinds!LinuxUfs, Kinds!GiveUp
<1> QED BY <1>1, <1>2, <1>3, <1>4, <1>5 DEF Kinds!GuessFilesystem

(* A guess that fits the request shows what was asked for.                  *)
LEMMA FitsSatisfies ==
  ASSUME NEW g, NEW d, NEW request, Told(task, d, g, g.ret), g.track = d.first, g.start = 0,
         Kinds!Fits(g.ret, request)
  PROVE  Satisfies(task, d, request)
<1> DEFINE asked == request.need.bits \cap Things
           shown == {b \in asked : Shown(task, d, [track |-> d.first, start |-> 0], b)}
<1>1. \A b : Shown(task, d, g, b) <=> Shown(task, d, [track |-> d.first, start |-> 0], b)
  BY SamePlace
<1>2. \A b \in g.ret.bits \cap asked : b \in shown
  BY <1>1 DEF Told
<1>3. \/ request.need.bits = {}
      \/ request.any /\ g.ret.bits \cap request.need.bits # {}
      \/ ~request.any /\ request.need.bits \subseteq g.ret.bits
  BY DEF Kinds!Fits
<1>4. CASE request.need.bits = {}
  BY <1>4 DEF Satisfies
<1>5. CASE request.any /\ g.ret.bits \cap request.need.bits # {}
  BY <1>2, <1>5 DEF Satisfies
<1>6. CASE ~request.any /\ request.need.bits \subseteq g.ret.bits
  BY <1>2, <1>6 DEF Satisfies
<1> QED BY <1>3, <1>4, <1>5, <1>6

LEMMA SearchStarts == ASSUME Kinds!KindConstants, Kinds!Init \/ Kinds!InitNone PROVE FoundInv
<1>1. guess = Kinds!Idle /\ guess.at = "idle"
  BY NewGuesses DEF Kinds!Init, Kinds!InitNone
<1>2. ASSUME NEW r, NEW drives, drives = r.drives, \E S : drives \in Seq(S), NEW left, left \in {<< >>, drives},
             search = [request |-> r, left |-> left, found |-> << >>]
      PROVE  FoundInv
  <2> DEFINE S == {drives[k] : k \in DOMAIN drives}
  <2>1. drives \in Seq(S)
    <3>1. PICK T : drives \in Seq(T)
      BY <1>2
    <3>2. Len(drives) \in Nat /\ drives \in [1 .. Len(drives) -> T]
      BY <3>1
    <3>3. drives \in [1 .. Len(drives) -> S]
      BY <3>2
    <3> HIDE DEF S
    <3> QED BY <3>2, <3>3, SeqDef
  <2>2. SearchedIn(search) = S /\ search.found = << >> /\ search.left = left
    BY <1>2 DEF SearchedIn
  <2> HIDE DEF S
  <2>3. left \in Seq(S) /\ << >> \in Seq(S)
    <3>1. << >> \in Seq(S)
      OBVIOUS
    <3> QED BY <1>2, <2>1, <3>1
  <2>4. IsSearch(search) /\ search.found = << >>
    BY <1>2, <2>2, <2>3 DEF IsSearch
  <2> QED BY <1>1, <2>4 DEF FoundInv
<1>3. CASE Kinds!InitSearch
  <2>1. PICK r \in Searches : search = [request |-> r, left |-> r.drives, found |-> << >>]
    BY <1>3 DEF Kinds!InitSearch
  <2> QED BY <1>2, <2>1 DEF Kinds!KindConstants
<1>4. CASE Kinds!InitInfo \/ Kinds!InitLinux \/ Kinds!InitNone
  <2> DEFINE r == [need |-> Kinds!Unknown, any |-> FALSE, drives |-> << >>]
  <2>1. search = [request |-> r, left |-> << >>, found |-> << >>]
    BY <1>4 DEF Kinds!InitInfo, Kinds!InitLinux, Kinds!InitNone
  <2>2. r.drives = << >> /\ << >> \in Seq({})
    OBVIOUS
  <2> QED BY <1>2, <2>1, <2>2
<1> QED BY <1>3, <1>4 DEF Kinds!Init

LEMMA SearchNext == ASSUME GuessInv, FoundInv, [Kinds!Next]_(Kinds!vars) PROVE FoundInv'
<1> USE DEF FoundInv
<1>1. CASE Kinds!GuessCdType \/ Kinds!GuessFilesystem
  <2>1. SameGuess
    BY <1>1, InfoGuessesSame, LinuxGuessesSame
  <2> QED BY <2>1 DEF SameGuess
<1>2. CASE Kinds!OpenDrive
  <2>1. CASE UNCHANGED <<cd, guess, task>> /\ guess.at = "idle" /\ search' = [search EXCEPT !.left = Tail(@)] /\ search.left # << >>
    <3>1. IsSearch(search') /\ search'.found = search.found /\ search'.request = search.request
      <4>1. Tail(search.left) \in Seq(SearchedIn(search))
        BY <2>1 DEF IsSearch
      <4>2. search' = [request |-> search.request, left |-> Tail(search.left), found |-> search.found]
        BY <2>1 DEF IsSearch
      <4> QED BY <4>1, <4>2 DEF IsSearch, SearchedIn
    <3> QED BY <2>1, <3>1
  <2>2. CASE /\ cd' = Head(search.left) /\ UNCHANGED <<search, task>> /\ search.left # << >>
             /\ guess'.track = cd'.first /\ guess'.start = 0
    BY <2>2
  <2> QED BY <1>2, <2>1, <2>2, OpenDriveGuess
<1>3. CASE Kinds!JudgeDrive
  <2> DEFINE fits == Kinds!Fits(guess.ret, search.request)
             found == IF fits THEN Append(search.found, cd) ELSE search.found
  <2>1. /\ guess.at = "done" /\ guess.purpose = "search" /\ guess' = Kinds!Idle /\ task' = task
        /\ search' = [search EXCEPT !.left = Tail(@), !.found = found]
    BY <1>3 DEF Kinds!JudgeDrive
  <2>2. search.left # << >> /\ cd = Head(search.left) /\ guess.track = cd.first /\ guess.start = 0
    BY <2>1
  <2>3. cd \in SearchedIn(search) /\ Tail(search.left) \in Seq(SearchedIn(search))
    BY <2>2 DEF IsSearch
  <2>4. fits => Satisfies(task, cd, search.request)
    BY <2>2, FitsSatisfies DEF GuessInv
  <2> HIDE DEF fits
  <2>5. /\ found \in Seq(SearchedIn(search))
        /\ \A n \in DOMAIN found :
             (n \in DOMAIN search.found /\ found[n] = search.found[n]) \/ (fits /\ found[n] = cd)
    <3> DEFINE S == SearchedIn(search)
    <3>1. search.found \in Seq(S) /\ cd \in S
      BY <2>3 DEF IsSearch
    <3> HIDE DEF S
    <3>2. CASE fits
      <4>1. /\ Append(search.found, cd) \in Seq(S)
            /\ DOMAIN Append(search.found, cd) = 1 .. Len(search.found) + 1 /\ DOMAIN search.found = 1 .. Len(search.found)
            /\ Len(search.found) \in Nat
            /\ \A n \in 1 .. Len(search.found) + 1 :
                 Append(search.found, cd)[n] = IF n <= Len(search.found) THEN search.found[n] ELSE cd
        BY <3>1
      <4>2. found = Append(search.found, cd)
        BY <3>2
      <4> HIDE DEF found
      <4>3. found \in Seq(S)
        BY <4>1, <4>2
      <4>4. \A n \in 1 .. Len(search.found) + 1 :
              (n \in DOMAIN search.found /\ found[n] = search.found[n]) \/ found[n] = cd
        BY <4>1, <4>2
      <4> QED BY <3>2, <4>1, <4>2, <4>3, <4>4 DEF S
    <3>3. CASE ~fits
      <4>1. found = search.found
        BY <3>3
      <4> QED BY <3>1, <4>1 DEF S
    <3> QED BY <3>2, <3>3
  <2>6. \A n \in DOMAIN found : Satisfies(task, found[n], search.request)
    BY <2>4, <2>5
  <2> HIDE DEF found
  <2>7. search' = [request |-> search.request, left |-> Tail(search.left), found |-> found]
    BY <2>1 DEF IsSearch
  <2>8. IsSearch(search') /\ search'.found = found /\ search'.request = search.request
    BY <2>3, <2>5, <2>7 DEF IsSearch, SearchedIn
  <2>9. guess'.at = "idle"
    BY <2>1, NewGuesses
  <2> QED BY <2>1, <2>6, <2>8, <2>9
<1>4. CASE Moves
  <2>1. CASE UNCHANGED guess
    BY <1>4, <2>1 DEF Moves
  <2>2. CASE guess' = Kinds!Idle
    BY <1>4, <2>2, NewGuesses DEF Moves
  <2>3. CASE guess'.purpose # "search"
    BY <1>4, <2>3 DEF Moves
  <2> QED BY <1>4, <2>1, <2>2, <2>3, NewGuesses DEF Moves
<1>5. CASE UNCHANGED Kinds!vars
  BY <1>5 DEF Kinds!vars
<1> QED BY <1>1, <1>2, <1>3, <1>4, <1>5, InfoMoves, LinuxMoves DEF Kinds!Next

LEMMA SearchTells == FoundInv => Kinds!FoundAsAsked
<1> SUFFICES ASSUME FoundInv, NEW n \in DOMAIN search.found
             PROVE  LET d == search.found[n]
                        asked == search.request.need.bits \cap DOMAIN Kinds!Evidence
                        shown == {b \in asked : Kinds!Shows(d, d.first, 0, b)}
                    IN  /\ d \in Kinds!ToSet(search.request.drives)
                        /\ asked # {} => IF ~search.request.any THEN shown = asked
                                         ELSE shown # {} \/ asked # search.request.need.bits
  BY DEF Kinds!FoundAsAsked
<1> DEFINE d == search.found[n]
<1>1. \A b : Shown(task, d, [track |-> d.first, start |-> 0], b) <=> Kinds!Shows(d, d.first, 0, b)
  BY DEF Shown, Reached, Kinds!Shows
<1>2. d \in Kinds!ToSet(search.request.drives)
  BY DEF FoundInv, IsSearch, SearchedIn, Kinds!ToSet
<1>3. Satisfies(task, d, search.request)
  BY DEF FoundInv
<1> QED BY <1>1, <1>2, <1>3 DEF Satisfies, Things

(* cdio_get_devices_with_cap_ret gives only drives of the list it was asked *)
(* to search, and in each of them a disc with all that was asked for, or    *)
(* with some of it when any will do.                                        *)
THEOREM SearchesFindAsAsked == DiscDataSpec => []Kinds!FoundAsAsked
<1>1. DiscDataInit => GuessInv /\ FoundInv
  BY KindsStart, GuessStarts, SearchStarts, SearchesOfDiscs
<1>2. GuessInv /\ FoundInv /\ [DiscDataNext]_dataVars => (GuessInv /\ FoundInv)'
  BY KindsStepOnly, GuessNext, SearchNext
<1>3. FoundInv => Kinds!FoundAsAsked
  BY SearchTells
<1>4. DiscDataSpec <=> DiscDataInit /\ [][DiscDataNext]_dataVars
  BY DEF DiscDataSpec, DiscDataNext, dataVars
<1> QED BY <1>1, <1>2, <1>3, <1>4, PTL
=============================================================================
