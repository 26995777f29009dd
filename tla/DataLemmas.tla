------------------------------ MODULE DataLemmas ------------------------------
(***************************************************************************)
(* Lemmas that the proofs of the components share: division with a divisor *)
(* that is not a numeral, induction over the natural numbers, sequences of *)
(* sequences, the bytes and carets of BsonFormat, and the headers of       *)
(* WireMessage.                                                            *)
(***************************************************************************)
EXTENDS WireMessage, SequencesExt, SequenceTheorems, TLAPS

WF == INSTANCE WellFoundedInduction

-----------------------------------------------------------------------------
(* \div and %. *)

(* Division with remainder. *)
LEMMA DivMod ==
  ASSUME NEW n \in Int, NEW m \in Nat \ {0}
  PROVE  /\ n \div m \in Int
         /\ n % m \in 0 .. m - 1
         /\ n = m * (n \div m) + (n % m)
  BY Z3

(* A positive multiple is no smaller than its factor. *)
LEMMA MulAtLeast ==
  ASSUME NEW m \in Nat \ {0}, NEW q \in Int, q >= 1
  PROVE  m * q >= m
  BY Z3

(* Quotient and remainder are unique. *)
LEMMA ModUnique ==
  ASSUME NEW n \in Int, NEW m \in Nat \ {0}, NEW q \in Int,
         NEW r \in 0 .. m - 1, n = m * q + r
  PROVE  n % m = r /\ n \div m = q
<1> DEFINE p == n \div m
           s == n % m
<1>1. p \in Int /\ s \in 0 .. m - 1 /\ n = m * p + s
  BY DivMod
<1> HIDE DEF p, s
<1>2. p - q \in Int /\ m * (p - q) = r - s
  BY <1>1, Z3
<1>3. q - p \in Int /\ m * (q - p) = s - r
  BY <1>1, Z3
<1>4. ~(p - q >= 1) /\ ~(q - p >= 1)
  BY <1>1, <1>2, <1>3, MulAtLeast, Z3
<1>5. p = q
  BY <1>1, <1>4
<1> QED
  BY <1>1, <1>5, Z3 DEF p, s

(* A number below the modulus is its own remainder. *)
LEMMA ModSmall ==
  ASSUME NEW m \in Nat \ {0}, NEW n \in 0 .. m - 1
  PROVE  n % m = n
<1>1. n = m * 0 + n
  BY Z3
<1> QED
  BY <1>1, ModUnique

(* Reducing by a multiple of the modulus first changes no remainder. *)
LEMMA ModOfMod ==
  ASSUME NEW m \in Nat \ {0}, NEW r \in Nat \ {0}, r % m = 0, NEW n \in Int
  PROVE  (n % r) % m = n % m
<1> DEFINE k == r \div m
           q == n \div r
           s == n % r
           p == s \div m
           t == s % m
<1>1. k \in Int /\ r = m * k
  BY DivMod
<1>2. q \in Int /\ s \in Int /\ n = r * q + s
  BY DivMod
<1>3. p \in Int /\ t \in 0 .. m - 1 /\ s = m * p + t
  BY <1>2, DivMod
<1> HIDE DEF k, q, s, p, t
<1>4. n = m * (k * q + p) + t /\ k * q + p \in Int
  BY <1>1, <1>2, <1>3, Z3
<1>5. n % m = t
  BY <1>3, <1>4, ModUnique
<1> QED
  BY <1>5 DEF s, t

(* Dividing twice is dividing by the product; what is lost on the way are  *)
(* two digits.                                                             *)
LEMMA DivDiv ==
  ASSUME NEW n \in Nat, NEW b \in Nat \ {0}, NEW d \in Nat \ {0}
  PROVE  /\ (n \div b) \div d = n \div (b * d)
         /\ n = (b * d) * (n \div (b * d)) + b * ((n \div b) % d) + (n % b)
<1> DEFINE q == n \div b
           r == n % b
           t == q \div d
           s == q % d
<1>1. q \in Int /\ r \in 0 .. b - 1 /\ n = b * q + r
  BY DivMod
<1>2. t \in Int /\ s \in 0 .. d - 1 /\ q = d * t + s
  BY <1>1, DivMod
<1> HIDE DEF q, r, t, s
<1>3. b * q = (b * d) * t + b * s
  <2>1. b * q = b * (d * t + s)
    BY <1>2
  <2> QED
    BY <2>1, <1>1, <1>2, Z3
<1>4. n = (b * d) * t + (b * s + r)
  BY <1>1, <1>2, <1>3, Z3
<1>5. b * s + r \in 0 .. (b * d) - 1 /\ b * d \in Nat \ {0}
  <2>1. b * s <= b * (d - 1)
    BY <1>2, Z3
  <2>2. b * s \in Nat /\ b * d \in Nat \ {0}
    BY <1>2, Z3
  <2>3. b * (d - 1) = b * d - b
    BY Z3
  <2> QED
    BY <1>1, <2>1, <2>2, <2>3
<1>6. n \div (b * d) = t
  BY <1>2, <1>4, <1>5, ModUnique
<1> QED
  BY <1>1, <1>2, <1>4, <1>6, Z3 DEF q, r, t, s

(* The quotient of a number below a product. *)
LEMMA DivSmall ==
  ASSUME NEW n \in Nat, NEW b \in Nat \ {0}, NEW d \in Nat \ {0}, n < b * d
  PROVE  n \div b \in 0 .. d - 1
<1> DEFINE q == n \div b
<1>1. q \in Int /\ n = b * q + (n % b) /\ n % b \in 0 .. b - 1
  BY DivMod
<1> HIDE DEF q
<1>2. ~(q <= -1)
  <2> SUFFICES ASSUME q <= -1 PROVE FALSE
    OBVIOUS
  <2>1. b * (-q) >= b
    BY <1>1, MulAtLeast
  <2>2. b * q = -(b * (-q))
    BY <1>1, Z3
  <2> QED
    BY <1>1, <2>1, <2>2, Z3
<1>3. ~(q >= d)
  <2> SUFFICES ASSUME q >= d PROVE FALSE
    OBVIOUS
  <2>1. b * q >= b * d
    BY <1>1, Z3
  <2> QED
    BY <1>1, <2>1, Z3
<1> QED
  BY <1>1, <1>2, <1>3 DEF q

(* The quotient of a natural number is one. *)
LEMMA DivNat ==
  ASSUME NEW n \in Nat, NEW b \in Nat \ {0}
  PROVE  n \div b \in Nat
<1>1. n < b * (n + 1)
  BY Z3
<1> QED
  BY <1>1, DivSmall
-----------------------------------------------------------------------------
(* The natural numbers: the least of a set, and what holds of 0 and of the *)
(* successor of each number it holds of.                                   *)

LEMMA LeastNatural ==
  ASSUME NEW T, T \subseteq Nat, T # {}
  PROVE  \E i \in T : \A j \in T : i <= j
<1> DEFINE R == { ss \in Nat \X Nat : ss[1] < ss[2] }
<1>1. WF!IsWellFoundedOn(R, Nat)
  BY WF!NatLessThanWellFounded DEF WF!OpToRel
<1>2. \A i, j \in Nat : <<j, i>> \notin R => i <= j
  OBVIOUS
<1> HIDE DEF R
<1>3. \E i \in T : \A j \in T : <<j, i>> \notin R
  BY <1>1, WF!WFMin
<1> QED
  BY <1>2, <1>3

LEMMA AllNaturals ==
  ASSUME NEW T, T \subseteq Nat, 0 \in T, \A n \in T : n + 1 \in T
  PROVE  T = Nat
<1> DEFINE U == Nat \ T
<1> SUFFICES ASSUME U # {}
             PROVE  FALSE
  OBVIOUS
<1>1. PICK i \in U : \A j \in U : i <= j
  BY LeastNatural
<1>2. i - 1 \in T
  BY <1>1
<1> QED
  BY <1>2

-----------------------------------------------------------------------------
(* FlattenSeq: it is defined by a recursive function, which exists, and    *)
(* which puts one element after another.                                   *)

Flattens(s, f) ==
  f = [i \in 1 .. Len(s) |-> IF i = 1 THEN s[i] ELSE f[i - 1] \o s[i]]

LEMMA FlattensExists ==
  ASSUME NEW s, Len(s) \in Nat
  PROVE  \E f : Flattens(s, f)
<1> DEFINE G(n, f) == f = [i \in 1 .. n |-> IF i = 1 THEN s[i] ELSE f[i - 1] \o s[i]]
           T == { n \in Nat : \E f : G(n, f) }
<1>1. 0 \in T
  <2> DEFINE f == [i \in 1 .. 0 |-> 0]
  <2>1. G(0, f)
    OBVIOUS
  <2> QED
    BY <2>1
<1>2. ASSUME NEW n \in T
      PROVE  n + 1 \in T
  <2>1. PICK f : G(n, f)
    OBVIOUS
  <2> DEFINE g == [i \in 1 .. n + 1 |->
                     IF i = n + 1 THEN IF i = 1 THEN s[i] ELSE f[i - 1] \o s[i] ELSE f[i]]
  <2>2. \A i \in 1 .. n : f[i] = IF i = 1 THEN s[i] ELSE f[i - 1] \o s[i]
    BY <2>1
  <2>3. \A i \in 1 .. n + 1 : g[i] = IF i = 1 THEN s[i] ELSE g[i - 1] \o s[i]
    BY <2>2
  <2>4. G(n + 1, g)
    BY <2>3
  <2> HIDE DEF G
  <2>5. \E x : G(n + 1, x)
    BY <2>4, Zenon
  <2> QED
    BY <2>5
<1> HIDE DEF T
<1>3. T = Nat
  BY <1>1, <1>2, AllNaturals DEF T
<1> QED
  BY <1>3 DEF T, Flattens

LEMMA FlattenIs ==
  ASSUME NEW s, Len(s) \in Nat \ {0}
  PROVE  \E f : Flattens(s, f) /\ FlattenSeq(s) = f[Len(s)]
<1> DEFINE h == CHOOSE f : f = [i \in 1 .. Len(s) |-> IF i = 1 THEN s[i] ELSE f[i - 1] \o s[i]]
<1>1. FlattenSeq(s) = h[Len(s)]
  BY DEF FlattenSeq
<1>2. \E f : f = [i \in 1 .. Len(s) |-> IF i = 1 THEN s[i] ELSE f[i - 1] \o s[i]]
  BY FlattensExists DEF Flattens
<1>3. Flattens(s, h)
  BY <1>2 DEF Flattens
<1> QED
  BY <1>1, <1>3

(* The first k elements put together. *)
First(s, k) == FlattenSeq(SubSeq(s, 1, k))

LEMMA FirstNone ==
  ASSUME NEW s
  PROVE  First(s, 0) = <<>>
<1>1. SubSeq(s, 1, 0) = <<>>
  BY SubSeqEmpty
<1> QED
  BY <1>1 DEF First, FlattenSeq

LEMMA SubSeqFirst ==
  ASSUME NEW S, NEW s \in Seq(S), NEW k \in 0 .. Len(s)
  PROVE  /\ SubSeq(s, 1, k) \in Seq(S) /\ Len(SubSeq(s, 1, k)) = k
         /\ \A i \in 1 .. k : SubSeq(s, 1, k)[i] = s[i]
<1>1. \A i \in 1 .. k : s[i] \in S
  BY ElementOfSeq
<1>2. /\ SubSeq(s, 1, k) \in Seq(S)
      /\ Len(SubSeq(s, 1, k)) = IF 1 <= k THEN k - 1 + 1 ELSE 0
      /\ \A i \in 1 .. k - 1 + 1 : SubSeq(s, 1, k)[i] = s[1 + i - 1]
  <2>1. k \in Int /\ 1 \in Int
    OBVIOUS
  <2> QED
    BY <1>1, <2>1, SubSeqProperties
<1> QED
  BY <1>2

(* One function gives them all. *)
LEMMA FirstIs ==
  ASSUME NEW S, NEW s \in Seq(S), NEW g, Flattens(s, g)
  PROVE  \A k \in 1 .. Len(s) : First(s, k) = g[k]
<1> SUFFICES ASSUME NEW k \in 1 .. Len(s)
             PROVE  First(s, k) = g[k]
  OBVIOUS
<1> DEFINE t == SubSeq(s, 1, k)
<1>1. t \in Seq(S) /\ Len(t) = k /\ \A i \in 1 .. k : t[i] = s[i]
  BY SubSeqFirst
<1> HIDE DEF t
<1>2. Len(t) \in Nat \ {0}
  BY <1>1
<1>3. PICK h : Flattens(t, h) /\ FlattenSeq(t) = h[k]
  BY <1>1, <1>2, FlattenIs
<1>4. \A i \in 1 .. k : h[i] = IF i = 1 THEN s[i] ELSE h[i - 1] \o s[i]
  BY <1>1, <1>3 DEF Flattens
<1>5. \A i \in 1 .. Len(s) : g[i] = IF i = 1 THEN s[i] ELSE g[i - 1] \o s[i]
  BY DEF Flattens
<1> DEFINE T == { n \in Nat : n \in 1 .. k => h[n] = g[n] }
<1>6. 0 \in T
  OBVIOUS
<1>7. ASSUME NEW n \in T
      PROVE  n + 1 \in T
  <2> SUFFICES ASSUME n + 1 \in 1 .. k
               PROVE  h[n + 1] = g[n + 1]
    OBVIOUS
  <2>1. CASE n = 0
    BY <1>4, <1>5, <2>1
  <2>2. CASE n # 0
    <3>1. n \in 1 .. k /\ n + 1 \in 1 .. Len(s) /\ (n + 1) - 1 = n /\ n + 1 # 1
      BY <2>2
    <3>2. h[n] = g[n]
      BY <3>1
    <3>3. h[n + 1] = h[n] \o s[n + 1]
      BY <1>4, <3>1
    <3>4. g[n + 1] = g[n] \o s[n + 1]
      BY <1>5, <3>1
    <3> QED
      BY <3>2, <3>3, <3>4
  <2> QED
    BY <2>1, <2>2
<1> HIDE DEF T
<1>8. T = Nat
  BY <1>6, <1>7, AllNaturals DEF T
<1> QED
  BY <1>3, <1>8 DEF T, t, First

LEMMA FirstNext ==
  ASSUME NEW S, NEW s \in Seq(Seq(S)), NEW k \in 1 .. Len(s)
  PROVE  First(s, k) = First(s, k - 1) \o s[k]
<1>1. PICK g : Flattens(s, g)
  BY FlattensExists
<1>2. \A i \in 1 .. Len(s) : First(s, i) = g[i]
  BY <1>1, FirstIs
<1>3. g[k] = IF k = 1 THEN s[k] ELSE g[k - 1] \o s[k]
  BY <1>1 DEF Flattens
<1>4. CASE k = 1
  <2>1. s[k] \in Seq(S)
    BY ElementOfSeq
  <2>2. First(s, k - 1) = <<>>
    BY <1>4, FirstNone
  <2>3. <<>> \o s[k] = s[k]
    BY <2>1, ConcatEmptySeq
  <2> QED
    BY <1>2, <1>3, <1>4, <2>2, <2>3
<1>5. CASE k # 1
  <2>1. k - 1 \in 1 .. Len(s)
    BY <1>5
  <2> QED
    BY <1>2, <1>3, <1>5, <2>1
<1> QED
  BY <1>4, <1>5

LEMMA FirstType ==
  ASSUME NEW S, NEW s \in Seq(Seq(S))
  PROVE  \A k \in 0 .. Len(s) : First(s, k) \in Seq(S)
<1> DEFINE T == { n \in Nat : n \in 0 .. Len(s) => First(s, n) \in Seq(S) }
<1>1. 0 \in T
  <2>1. First(s, 0) = <<>> /\ <<>> \in Seq(S)
    BY FirstNone, EmptySeq
  <2> QED
    BY <2>1
<1>2. ASSUME NEW n \in T
      PROVE  n + 1 \in T
  <2> SUFFICES ASSUME n + 1 \in 0 .. Len(s)
               PROVE  First(s, n + 1) \in Seq(S)
    OBVIOUS
  <2>1. n \in 0 .. Len(s) /\ n + 1 \in 1 .. Len(s) /\ (n + 1) - 1 = n
    OBVIOUS
  <2>2. First(s, n) \in Seq(S) /\ s[n + 1] \in Seq(S)
    BY <2>1, ElementOfSeq
  <2>3. First(s, n + 1) = First(s, n) \o s[n + 1]
    BY <2>1, FirstNext
  <2> QED
    BY <2>2, <2>3, ConcatProperties
<1> HIDE DEF T
<1>3. T = Nat
  BY <1>1, <1>2, AllNaturals DEF T
<1> QED
  BY <1>3 DEF T

LEMMA FirstAll ==
  ASSUME NEW S, NEW s \in Seq(S)
  PROVE  First(s, Len(s)) = FlattenSeq(s)
BY SubSeqFull DEF First

LEMMA FlattenType ==
  ASSUME NEW S, NEW s \in Seq(Seq(S))
  PROVE  FlattenSeq(s) \in Seq(S)
<1>1. Len(s) \in 0 .. Len(s)
  BY LenProperties
<1> QED
  BY <1>1, FirstType, FirstAll

LEMMA FirstSame ==
  ASSUME NEW S, NEW s \in Seq(S), NEW t \in Seq(S), NEW k \in 0 .. Len(s), k <= Len(t),
         \A i \in 1 .. k : s[i] = t[i]
  PROVE  First(s, k) = First(t, k)
<1>1. k \in 0 .. Len(t)
  BY LenProperties
<1>2. SubSeq(s, 1, k) = SubSeq(t, 1, k)
  BY <1>1, SubSeqFirst, SeqEqual
<1> QED
  BY <1>2 DEF First

(* Fewer elements are the beginning of more. *)
LEMMA FirstGrows ==
  ASSUME NEW S, NEW s \in Seq(Seq(S)), NEW k \in 0 .. Len(s), NEW n \in k .. Len(s)
  PROVE  /\ Len(First(s, k)) <= Len(First(s, n))
         /\ \A i \in 1 .. Len(First(s, k)) : First(s, n)[i] = First(s, k)[i]
<1> DEFINE a    == First(s, k)
           P(m) == /\ Len(a) <= Len(First(s, m))
                   /\ \A i \in 1 .. Len(a) : First(s, m)[i] = a[i]
           T    == { d \in Nat : k + d <= Len(s) => P(k + d) }
<1>0. a \in Seq(S) /\ Len(a) \in Nat
  BY FirstType
<1>1. 0 \in T
  BY <1>0
<1>2. ASSUME NEW d \in T
      PROVE  d + 1 \in T
  <2> SUFFICES ASSUME k + (d + 1) <= Len(s)
               PROVE  P(k + (d + 1))
    OBVIOUS
  <2> DEFINE m == k + d
             b == First(s, m)
             c == s[m + 1]
  <2>1. m \in 0 .. Len(s) /\ m + 1 \in 1 .. Len(s) /\ (m + 1) - 1 = m /\ k + (d + 1) = m + 1
    OBVIOUS
  <2>2. P(m)
    BY <2>1
  <2>3. b \in Seq(S) /\ c \in Seq(S)
    BY <2>1, FirstType, ElementOfSeq
  <2>4. First(s, m + 1) = b \o c
    BY <2>1, FirstNext
  <2> HIDE DEF a, b, c, m
  <2>5. Len(b \o c) >= Len(b) /\ \A i \in 1 .. Len(b) : (b \o c)[i] = b[i]
    BY <2>3
  <2>6. Len(b) \in Nat /\ Len(b \o c) \in Nat
    BY <2>3
  <2>7. Len(a) <= Len(b) /\ \A i \in 1 .. Len(a) : b[i] = a[i]
    BY <2>2 DEF b
  <2>8. Len(a) <= Len(b \o c) /\ \A i \in 1 .. Len(a) : (b \o c)[i] = a[i]
    BY <1>0, <2>5, <2>6, <2>7
  <2> QED
    BY <2>1, <2>4, <2>8
<1> HIDE DEF T, P
<1>3. T = Nat
  BY <1>1, <1>2, AllNaturals DEF T
<1>4. n - k \in Nat /\ k + (n - k) = n /\ n <= Len(s)
  OBVIOUS
<1>5. P(n)
  BY <1>3, <1>4 DEF T
<1> QED
  BY <1>5 DEF P

(* Where an element stands in the whole. *)
LEMMA PartOfWhole ==
  ASSUME NEW S, NEW s \in Seq(Seq(S)), NEW k \in 1 .. Len(s)
  PROVE  /\ First(s, k - 1) \in Seq(S) /\ s[k] \in Seq(S) /\ FlattenSeq(s) \in Seq(S)
         /\ Len(First(s, k)) = Len(First(s, k - 1)) + Len(s[k])
         /\ Len(First(s, k)) <= Len(FlattenSeq(s))
         /\ \A i \in 1 .. Len(s[k]) : FlattenSeq(s)[Len(First(s, k - 1)) + i] = s[k][i]
<1> DEFINE a == First(s, k - 1)
           b == s[k]
           w == FlattenSeq(s)
<1>1. k - 1 \in 0 .. Len(s) /\ k \in 0 .. Len(s) /\ Len(s) \in k .. Len(s)
  BY LenProperties
<1>2. a \in Seq(S) /\ b \in Seq(S) /\ w \in Seq(S)
  BY <1>1, FirstType, ElementOfSeq, FlattenType
<1>3. First(s, k) = a \o b /\ First(s, Len(s)) = w
  BY FirstNext, FirstAll
<1>4. /\ Len(First(s, k)) <= Len(First(s, Len(s)))
      /\ \A i \in 1 .. Len(First(s, k)) : First(s, Len(s))[i] = First(s, k)[i]
  BY <1>1, FirstGrows
<1> HIDE DEF a, b, w
<1>5. /\ Len(a \o b) = Len(a) + Len(b)
      /\ \A i \in 1 .. Len(b) : Len(a) + i \in 1 .. Len(a \o b) /\ (a \o b)[Len(a) + i] = b[i]
  BY <1>2
<1>6. Len(a \o b) <= Len(w) /\ \A i \in 1 .. Len(a \o b) : w[i] = (a \o b)[i]
  BY <1>3, <1>4
<1> QED
  BY <1>2, <1>3, <1>5, <1>6 DEF a, b, w

-----------------------------------------------------------------------------
(* Bytes. *)

LEMMA ByteRange ==
  ASSUME NEW b \in BsonByte
  PROVE  b \in Int /\ 0 <= b /\ b <= 255
BY DEF BsonByte

LEMMA ConcatType ==
  ASSUME NEW s \in Seq(BsonByte), NEW t \in Seq(BsonByte)
  PROVE  /\ s \o t \in Seq(BsonByte) /\ Len(s \o t) = Len(s) + Len(t)
         /\ \A i \in 1 .. Len(s) : (s \o t)[i] = s[i]
  OBVIOUS

LEMMA ConcatAt ==
  ASSUME NEW s \in Seq(BsonByte), NEW t \in Seq(BsonByte)
  PROVE  /\ s \o t \in Seq(BsonByte) /\ Len(s \o t) = Len(s) + Len(t)
         /\ \A i \in 1 .. Len(s) : (s \o t)[i] = s[i]
         /\ \A i \in 1 .. Len(t) : (s \o t)[Len(s) + i] = t[i]
  OBVIOUS

LEMMA AroundType ==
  ASSUME NEW h \in Seq(BsonByte), NEW s \in Seq(BsonByte),
         NEW t \in Seq(BsonByte)
  PROVE  /\ h \o s \o t \in Seq(BsonByte)
         /\ Len(h \o s \o t) = Len(h) + Len(s) + Len(t)
         /\ \A i \in 1 .. Len(h) : (h \o s \o t)[i] = h[i]
  OBVIOUS

LEMMA Int32BytesType ==
  ASSUME NEW n \in Int
  PROVE  Int32Bytes(n) \in Seq(BsonByte) /\ Len(Int32Bytes(n)) = 4
<1>1. /\ n % 256 \in BsonByte /\ (n \div 256) % 256 \in BsonByte
      /\ (n \div 65536) % 256 \in BsonByte
      /\ (n \div 16777216) % 256 \in BsonByte
  BY DEF BsonByte
<1> QED
  BY <1>1 DEF Int32Bytes

LEMMA ConcatFour ==
  ASSUME NEW n \in Nat, NEW s \in Seq(BsonByte), Len(s) = n,
         NEW t \in Seq(BsonByte), Len(t) = 4
  PROVE  /\ s \o t \in Seq(BsonByte) /\ Len(s \o t) = n + 4
         /\ \A i \in 1 .. n : (s \o t)[i] = s[i]
         /\ \A i \in 1 .. 4 : (s \o t)[n + i] = t[i]
<1>1. /\ s \o t \in Seq(BsonByte) /\ Len(s \o t) = Len(s) + Len(t)
      /\ \A i \in 1 .. Len(s) : (s \o t)[i] = s[i]
      /\ \A i \in 1 .. Len(t) : (s \o t)[Len(s) + i] = t[i]
  BY ConcatAt, Zenon
<1>2. Len(s \o t) = n + 4
  BY <1>1, Zenon
<1>3. \A i \in 1 .. n : (s \o t)[i] = s[i]
  BY <1>1, Zenon
<1>4. \A i \in 1 .. 4 : (s \o t)[n + i] = t[i]
  BY <1>1, Zenon
<1> QED
  BY <1>1, <1>2, <1>3, <1>4, Zenon

(* Four bytes more. *)
LEMMA AppendInt32 ==
  ASSUME NEW n \in Nat, NEW s \in Seq(BsonByte), Len(s) = n, NEW x \in Int
  PROVE  /\ s \o Int32Bytes(x) \in Seq(BsonByte) /\ Len(s \o Int32Bytes(x)) = n + 4
         /\ \A i \in 1 .. n : (s \o Int32Bytes(x))[i] = s[i]
         /\ \A i \in 1 .. 4 : (s \o Int32Bytes(x))[n + i] = Int32Bytes(x)[i]
<1>1. Int32Bytes(x) \in Seq(BsonByte) /\ Len(Int32Bytes(x)) = 4
  BY Int32BytesType
<1> QED
  BY <1>1, ConcatFour, Zenon

LEMMA Int32AtRange ==
  ASSUME NEW c, \A i \in 1 .. 4 : CurrBytes(c, 4)[i] \in BsonByte
  PROVE  Int32At(c) \in Int /\ -MaxInt32 - 1 <= Int32At(c) /\ Int32At(c) <= MaxInt32
<1> DEFINE b == CurrBytes(c, 4)
<1>1. b[1] \in BsonByte /\ b[2] \in BsonByte /\ b[3] \in BsonByte /\ b[4] \in BsonByte
  OBVIOUS
<1>2. Int32At(c) = b[1] + 256 * b[2] + 65536 * b[3]
                     + 16777216 * (IF b[4] < 128 THEN b[4] ELSE b[4] - 256)
  BY DEF Int32At
<1> HIDE DEF b
<1>3. /\ b[1] \in Int /\ 0 <= b[1] /\ b[1] <= 255
      /\ b[2] \in Int /\ 0 <= b[2] /\ b[2] <= 255
      /\ b[3] \in Int /\ 0 <= b[3] /\ b[3] <= 255
      /\ b[4] \in Int /\ 0 <= b[4] /\ b[4] <= 255
  BY <1>1, ByteRange
<1> QED
  BY <1>2, <1>3, SMT DEF MaxInt32

(* A number of 32 bits is read as it was written. *)
LEMMA Int32RoundTrip ==
  ASSUME NEW n \in Int, -MaxInt32 - 1 <= n, n <= MaxInt32, NEW c,
         \A i \in 1 .. 4 : CurrBytes(c, 4)[i] = Int32Bytes(n)[i]
  PROVE  Int32At(c) = n
<1> DEFINE b == CurrBytes(c, 4)
           q == n \div 16777216
           r == (n % 256) + 256 * ((n \div 256) % 256) + 65536 * ((n \div 65536) % 256)
<1>1. b[1] + 256 * b[2] + 65536 * b[3] = r /\ b[4] = q % 256
  BY SMT DEF Int32Bytes
<1>2. n \in Int /\ -2147483648 <= n /\ n <= 2147483647
  BY SMT DEF MaxInt32
<1>3. q \in Int /\ -128 <= q /\ q < 128
  BY <1>2, SMT
<1>4. r + 16777216 * q = n
  BY <1>2, SMT
<1> HIDE DEF q, r
<1>5. (IF b[4] < 128 THEN b[4] ELSE b[4] - 256) = q
  BY <1>1, <1>3, SMT
<1>6. Int32At(c) = b[1] + 256 * b[2] + 65536 * b[3]
                     + 16777216 * (IF b[4] < 128 THEN b[4] ELSE b[4] - 256)
  BY DEF Int32At
<1> HIDE DEF b
<1> QED
  BY <1>1, <1>4, <1>5, <1>6

-----------------------------------------------------------------------------
(* Carets within their data. *)

CaretType == [data : Seq(BsonByte), pos : Nat, error : BOOLEAN]

Within(c) == c \in CaretType /\ c.pos <= DataSize(c)

LEMMA IncType ==
  ASSUME NEW c, Within(c), NEW n \in Nat, n <= Left(c)
  PROVE  /\ Within(Inc(c, n)) /\ Left(Inc(c, n)) = Left(c) - n
         /\ Inc(c, n).data = c.data /\ Inc(c, n).error = c.error
         /\ Inc(c, n).pos = c.pos + n
<1>1. /\ c \in CaretType /\ Len(c.data) \in Nat
      /\ n <= Len(c.data) - c.pos /\ c.pos + n \in Nat
  BY DEF Within, CaretType, Left, DataSize
<1>2. Inc(c, n) = [c EXCEPT !.pos = c.pos + n]
  BY DEF Inc
<1>3. /\ Inc(c, n) \in CaretType
      /\ Inc(c, n).data = c.data /\ Inc(c, n).error = c.error
      /\ Inc(c, n).pos = c.pos + n
  BY <1>1, <1>2 DEF CaretType
<1> QED
  BY <1>1, <1>3 DEF Within, Left, DataSize, CaretType

LEMMA SetErrorType ==
  ASSUME NEW c, Within(c)
  PROVE  Within(SetError(c)) /\ SetError(c).error
BY DEF Within, CaretType, SetError, DataSize

LEMMA LeftType ==
  ASSUME NEW c, Within(c)
  PROVE  Left(c) \in Nat
BY DEF Within, CaretType, Left, DataSize

LEMMA AtCharLeft ==
  ASSUME NEW c, Within(c), NEW char, AtChar(c, char)
  PROVE  Left(c) >= 1 /\ ~c.error
BY DEF AtChar, CanContinue, Within, CaretType, Left, DataSize

LEMMA CurrBytesType ==
  ASSUME NEW c, Within(c), NEW n \in Nat, n <= Left(c)
  PROVE  /\ CurrBytes(c, n) \in Seq(BsonByte) /\ Len(CurrBytes(c, n)) = n
         /\ \A i \in 1 .. n : CurrBytes(c, n)[i] = c.data[c.pos + i]
<1>1. /\ c.data \in Seq(BsonByte) /\ c.pos \in Nat
      /\ c.pos + n <= Len(c.data) /\ c.pos + 1 \in 1 .. Len(c.data) + 1
  BY LenProperties DEF Within, CaretType, Left, DataSize
<1>2. \A i \in c.pos + 1 .. c.pos + n : c.data[i] \in BsonByte
  BY <1>1, ElementOfSeq
<1>3. /\ CurrBytes(c, n) \in Seq(BsonByte)
      /\ Len(CurrBytes(c, n)) =
           IF c.pos + 1 <= c.pos + n THEN (c.pos + n) - (c.pos + 1) + 1 ELSE 0
      /\ \A i \in 1 .. (c.pos + n) - (c.pos + 1) + 1 :
            CurrBytes(c, n)[i] = c.data[(c.pos + 1) + i - 1]
  <2>1. c.pos + 1 \in Int /\ c.pos + n \in Int
    BY <1>1
  <2> QED
    BY <1>2, <2>1, SubSeqProperties DEF CurrBytes
<1>4. (c.pos + n) - (c.pos + 1) + 1 = n
  BY <1>1
<1>5. ASSUME NEW i \in 1 .. n
      PROVE  CurrBytes(c, n)[i] = c.data[c.pos + i]
  <2>1. (c.pos + 1) + i - 1 = c.pos + i
    BY <1>1
  <2> QED
    BY <1>3, <1>4, <2>1
<1> QED
  BY <1>1, <1>3, <1>4, <1>5

LEMMA ReadInt32Type ==
  ASSUME NEW c, Within(c), NEW r, r = ReadInt32(c)
  PROVE  /\ r.value \in Int /\ Within(r.caret)
         /\ Left(c) >= 4 => /\ r.caret = Inc(c, 4) /\ r.value = Int32At(c)
                            /\ Left(r.caret) = Left(c) - 4
         /\ Left(c) < 4  => r.value = 0 /\ r.caret = SetError(c)
<1>1. CASE Left(c) < 4
  <2>1. r = [value |-> 0, caret |-> SetError(c)]
    BY <1>1 DEF ReadInt32
  <2> QED
    BY <1>1, <2>1, SetErrorType, LeftType
<1>2. CASE ~(Left(c) < 4)
  <2>1. r = [value |-> Int32At(c), caret |-> Inc(c, 4)]
    BY <1>2 DEF ReadInt32
  <2>2. 4 \in Nat /\ 4 <= Left(c)
    BY <1>2, LeftType
  <2>3. \A i \in 1 .. 4 : CurrBytes(c, 4)[i] \in Int
    <3>1. CurrBytes(c, 4) \in Seq(BsonByte) /\ Len(CurrBytes(c, 4)) = 4
      BY <2>2, CurrBytesType
    <3>2. \A i \in 1 .. 4 : CurrBytes(c, 4)[i] \in BsonByte
      BY <3>1, ElementOfSeq
    <3> QED
      BY <3>2 DEF BsonByte
  <2>4. Int32At(c) \in Int
    BY <2>3 DEF Int32At
  <2>5. Within(Inc(c, 4)) /\ Left(Inc(c, 4)) = Left(c) - 4
    BY <2>2, IncType
  <2> QED
    BY <1>2, <2>1, <2>4, <2>5
<1> QED
  BY <1>1, <1>2

(* findChar(0) stays within the data, at a NUL unless at the end. *)
LEMMA NulOffsetIs ==
  ASSUME NEW c, Within(c)
  PROVE  /\ NulOffset(c) \in Nat /\ NulOffset(c) <= Left(c)
         /\ NulOffset(c) < Left(c) => c.data[c.pos + NulOffset(c) + 1] = 0
         /\ \A j \in 1 .. NulOffset(c) : c.data[c.pos + j] # 0
<1> DEFINE n    == IF Left(c) < 0 THEN 0 ELSE Left(c)
           Q(i) == /\ i < n => c.data[c.pos + i + 1] = 0
                   /\ \A j \in 1 .. i : c.data[c.pos + j] # 0
           T    == { i \in Nat : i < n /\ c.data[c.pos + i + 1] = 0 }
<1>1. n \in Nat /\ n = Left(c)
  BY LeftType
<1>2. \E i \in 0 .. n : Q(i)
  <2>1. CASE T = {}
    <3>1. Q(n)
      <4> SUFFICES ASSUME NEW j \in 1 .. n
                   PROVE  c.data[c.pos + j] # 0
        BY <1>1
      <4>1. j - 1 \in Nat /\ j - 1 < n /\ j - 1 \notin T
        BY <1>1, <2>1
      <4>2. c.data[c.pos + (j - 1) + 1] # 0
        BY <4>1
      <4>3. c.pos + (j - 1) + 1 = c.pos + j
        BY DEF Within, CaretType
      <4> QED
        BY <4>2, <4>3
    <3> QED
      BY <1>1, <3>1
  <2>2. CASE T # {}
    <3>1. T \subseteq Nat
      OBVIOUS
    <3>2. PICK i \in T : \A y \in T : i <= y
      <4> HIDE DEF T
      <4> QED
        BY <2>2, <3>1, LeastNatural
    <3>3. Q(i)
      <4> SUFFICES ASSUME NEW j \in 1 .. i
                   PROVE  c.data[c.pos + j] # 0
        BY <1>1
      <4>1. j - 1 \in Nat /\ j - 1 < n /\ j - 1 < i
        BY <1>1
      <4>2. j - 1 \notin T
        BY <3>2, <4>1
      <4>3. c.data[c.pos + (j - 1) + 1] # 0
        BY <4>1, <4>2
      <4>4. c.pos + (j - 1) + 1 = c.pos + j
        BY DEF Within, CaretType
      <4> QED
        BY <4>3, <4>4
    <3> QED
      BY <1>1, <3>3
  <2> QED
    BY <2>1, <2>2
<1>3. NulOffset(c) = CHOOSE i \in 0 .. n : Q(i)
  BY Zenon DEF NulOffset
<1> HIDE DEF Q
<1>4. NulOffset(c) \in 0 .. n /\ Q(NulOffset(c))
  BY <1>2, <1>3, Zenon
<1>5. /\ NulOffset(c) < n => c.data[c.pos + NulOffset(c) + 1] = 0
      /\ \A j \in 1 .. NulOffset(c) : c.data[c.pos + j] # 0
  BY <1>4 DEF Q
<1> QED
  BY <1>1, <1>4, <1>5

LEMMA NulOffsetType ==
  ASSUME NEW c, Within(c)
  PROVE  NulOffset(c) \in Nat /\ NulOffset(c) <= Left(c)
BY NulOffsetIs

(* PayloadEnd, by the code. *)
Fitting(bytes, end) == IF end > Len(bytes) THEN 0 ELSE end

(* Before it is compared with the end of the bytes. *)
EndOf(bytes, i, code) ==
  LET size == SizeAt(bytes, i)
      sized(more) == IF size + more < 0 THEN 0 ELSE i + 4 + size + more
  IN CASE code \in {NULL_VALUE, UNDEFINED, MIN_KEY, MAX_KEY} -> i
       [] code \in {STRING_CODE, JAVASCRIPT_CODE, SYMBOL}    -> sized(0)
       [] code \in {DOCUMENT_EMBEDDED, DOCUMENT_ARRAY,
                    JAVASCRIPT_CODE_WS}                      -> sized(-4)
       [] code = BINARY                                      -> sized(1)
       [] code = BD_POINTER                                  -> sized(12)
       [] code = DECIMAL_128                                 -> i + 16
       [] code = REGEXP ->
            LET j == AfterNul(bytes, i) IN
            IF j = 0 THEN 0 ELSE AfterNul(bytes, j)
       [] code \in {ScalarCode[c] : c \in ScalarClass \ {"String"}} ->
            i + ScalarWidth(code)
       [] OTHER                                              -> 0

LEMMA EndFits ==
  ASSUME NEW b, NEW i, NEW code
  PROVE  PayloadEnd(b, i, code) = Fitting(b, EndOf(b, i, code))
BY Zenon DEF PayloadEnd, Fitting, EndOf

-----------------------------------------------------------------------------
(* Headers. *)

LEMMA AnyInt32Type ==
  ASSUME NEW n \in Int
  PROVE  n \in AnyInt32 <=> -MaxInt32 - 1 <= n /\ n <= MaxInt32
<1>1. MaxInt32 \in Int
  BY SMT DEF MaxInt32
<1> QED
  BY <1>1, SMT DEF AnyInt32

LEMMA AnyInt32Int ==
  ASSUME NEW n \in AnyInt32
  PROVE  n \in Int
BY DEF AnyInt32

(* Four bytes of a buffer are an int32, the one that was written there.    *)
LEMMA Field ==
  ASSUME NEW s \in Seq(BsonByte), NEW p \in Nat, p + 4 <= Len(s)
  PROVE  /\ Int32At(Inc(Caret(s), p)) \in AnyInt32
         /\ \A n \in AnyInt32 :
              (\A j \in 1 .. 4 : s[p + j] = Int32Bytes(n)[j]) => Int32At(Inc(Caret(s), p)) = n
<1> DEFINE c == Inc(Caret(s), p)
           b == CurrBytes(c, 4)
<1>1. Within(Caret(s)) /\ Left(Caret(s)) = Len(s) /\ Caret(s).data = s /\ Caret(s).pos = 0
  BY DEF Within, CaretType, Caret, Left, DataSize
<1>2. /\ Within(c) /\ c.data = s /\ c.pos = p /\ Left(c) = Len(s) - p
  <2>1. p <= Left(Caret(s))
    BY <1>1
  <2> HIDE DEF c
  <2>2. /\ Within(Inc(Caret(s), p)) /\ Left(Inc(Caret(s), p)) = Left(Caret(s)) - p
        /\ Inc(Caret(s), p).data = Caret(s).data /\ Inc(Caret(s), p).pos = Caret(s).pos + p
    BY <1>1, <2>1, IncType
  <2> QED
    BY <1>1, <2>2 DEF c
<1> HIDE DEF c
<1>3. b \in Seq(BsonByte) /\ Len(b) = 4 /\ \A j \in 1 .. 4 : b[j] = s[p + j]
  <2>1. 4 \in Nat /\ 4 <= Left(c)
    BY <1>2
  <2> QED
    BY <1>2, <2>1, CurrBytesType
<1>4. \A j \in 1 .. 4 : b[j] \in BsonByte
  BY <1>3, ElementOfSeq
<1>6. Int32At(c) \in AnyInt32
  <2>1. /\ Int32At(c) \in Int
        /\ -MaxInt32 - 1 <= Int32At(c) /\ Int32At(c) <= MaxInt32
    BY <1>4, Int32AtRange
  <2> QED
    BY <2>1, AnyInt32Type
<1>7. ASSUME NEW n \in AnyInt32, \A j \in 1 .. 4 : s[p + j] = Int32Bytes(n)[j]
      PROVE  Int32At(c) = n
  <2>1. n \in Int /\ -MaxInt32 - 1 <= n /\ n <= MaxInt32
    BY AnyInt32Int, AnyInt32Type
  <2>2. \A j \in 1 .. 4 : CurrBytes(c, 4)[j] = Int32Bytes(n)[j]
    BY <1>3, <1>7
  <2> QED
    BY <2>1, <2>2, Int32RoundTrip
<1> QED
  BY <1>6, <1>7 DEF c

LEMMA HeaderBytesType ==
  ASSUME NEW h \in MessageHeader
  PROVE  /\ HeaderBytes(h) \in Seq(BsonByte) /\ Len(HeaderBytes(h)) = HeaderSize
         /\ \A j \in 1 .. 4 :
              /\ HeaderBytes(h)[0 + j]  = Int32Bytes(h.messageLength)[j]
              /\ HeaderBytes(h)[4 + j]  = Int32Bytes(h.requestId)[j]
              /\ HeaderBytes(h)[8 + j]  = Int32Bytes(h.responseTo)[j]
              /\ HeaderBytes(h)[12 + j] = Int32Bytes(h.opCode)[j]
<1> DEFINE a == Int32Bytes(h.messageLength)
           b == Int32Bytes(h.requestId)
           c == Int32Bytes(h.responseTo)
           d == Int32Bytes(h.opCode)
<1>1. /\ h.messageLength \in Int /\ h.requestId \in Int
      /\ h.responseTo \in Int /\ h.opCode \in Int
  BY AnyInt32Int DEF MessageHeader
<1>2. /\ a \in Seq(BsonByte) /\ Len(a) = 4 /\ b \in Seq(BsonByte) /\ Len(b) = 4
      /\ c \in Seq(BsonByte) /\ Len(c) = 4 /\ d \in Seq(BsonByte) /\ Len(d) = 4
  BY <1>1, Int32BytesType
<1>3. HeaderBytes(h) = a \o b \o c \o d
  BY DEF HeaderBytes
<1> HIDE DEF a, b, c, d
<1>4. 4 \in Nat /\ 8 \in Nat /\ 12 \in Nat /\ 4 + 4 = 8 /\ 8 + 4 = 12 /\ 12 + 4 = 16
  OBVIOUS
<1> DEFINE e == a \o b
           f == e \o c
<1>5. /\ e \in Seq(BsonByte) /\ Len(e) = 8
      /\ \A j \in 1 .. 4 : e[j] = a[j]
      /\ \A j \in 1 .. 4 : e[4 + j] = b[j]
  <2>1. 4 \in Nat /\ a \in Seq(BsonByte) /\ Len(a) = 4 /\ h.requestId \in Int
    BY <1>1, <1>2, <1>4
  <2> QED
    BY <1>4, <2>1, AppendInt32, Zenon DEF b
<1> HIDE DEF e
<1>6. /\ f \in Seq(BsonByte) /\ Len(f) = 12
      /\ \A j \in 1 .. 8 : f[j] = e[j]
      /\ \A j \in 1 .. 4 : f[8 + j] = c[j]
  <2>1. 8 \in Nat /\ e \in Seq(BsonByte) /\ Len(e) = 8 /\ h.responseTo \in Int
    BY <1>1, <1>4, <1>5
  <2> QED
    BY <1>4, <2>1, AppendInt32, Zenon DEF c
<1> HIDE DEF f
<1>7. HeaderBytes(h) = f \o d
  BY <1>3, Zenon DEF e, f
<1> DEFINE g == f \o d
<1>8. /\ g \in Seq(BsonByte) /\ Len(g) = 16
      /\ \A j \in 1 .. 12 : g[j] = f[j]
      /\ \A j \in 1 .. 4 : g[12 + j] = d[j]
  <2>1. 12 \in Nat /\ f \in Seq(BsonByte) /\ Len(f) = 12 /\ h.opCode \in Int
    BY <1>1, <1>4, <1>6
  <2> QED
    BY <1>4, <2>1, AppendInt32, Zenon DEF d
<1> HIDE DEF g
<1>9. ASSUME NEW j \in 1 .. 4
      PROVE  g[0 + j] = a[j] /\ g[4 + j] = b[j] /\ g[8 + j] = c[j] /\ g[12 + j] = d[j]
  <2>1. /\ 0 + j = j /\ j \in 1 .. 12 /\ 4 + j \in 1 .. 12 /\ 8 + j \in 1 .. 12
        /\ j \in 1 .. 8 /\ 4 + j \in 1 .. 8
    OBVIOUS
  <2>2. g[j] = a[j]
    BY <1>5, <1>6, <1>8, <2>1, Zenon
  <2>3. g[4 + j] = b[j]
    BY <1>5, <1>6, <1>8, <2>1, Zenon
  <2>4. g[8 + j] = c[j] /\ g[12 + j] = d[j]
    BY <1>6, <1>8, <2>1, Zenon
  <2> QED
    BY <2>1, <2>2, <2>3, <2>4, Zenon
<1> QED
  BY <1>7, <1>8, <1>9, Zenon DEF a, b, c, d, g, HeaderSize

(* A header is read as it was written. *)
LEMMA HeaderRead ==
  ASSUME NEW s \in Seq(BsonByte), Len(s) >= HeaderSize
  PROVE  /\ HeaderOf(s) \in MessageHeader
         /\ \A h \in MessageHeader :
              (\A k \in 1 .. HeaderSize : s[k] = HeaderBytes(h)[k]) => HeaderOf(s) = h
<1> DEFINE field(i) == Int32At(Inc(Caret(s), 4 * i))
<1>1. HeaderOf(s) = [ messageLength |-> field(0), requestId |-> field(1),
                      responseTo    |-> field(2), opCode    |-> field(3) ]
  BY DEF HeaderOf
<1>2. /\ 4 * 0 = 0 /\ 4 * 1 = 4 /\ 4 * 2 = 8 /\ 4 * 3 = 12
      /\ 0 + 4 <= Len(s) /\ 4 + 4 <= Len(s) /\ 8 + 4 <= Len(s) /\ 12 + 4 <= Len(s)
  BY DEF HeaderSize
<1>3. /\ field(0) \in AnyInt32 /\ field(1) \in AnyInt32
      /\ field(2) \in AnyInt32 /\ field(3) \in AnyInt32
  BY <1>2, Field
<1>4. ASSUME NEW h \in MessageHeader, \A k \in 1 .. HeaderSize : s[k] = HeaderBytes(h)[k]
      PROVE  HeaderOf(s) = h
  <2>1. \A j \in 1 .. 4 : /\ s[0 + j] = Int32Bytes(h.messageLength)[j]
                          /\ s[4 + j] = Int32Bytes(h.requestId)[j]
                          /\ s[8 + j] = Int32Bytes(h.responseTo)[j]
                          /\ s[12 + j] = Int32Bytes(h.opCode)[j]
    <3>1. \A j \in 1 .. 4 : /\ 0 + j \in 1 .. HeaderSize /\ 4 + j \in 1 .. HeaderSize
                            /\ 8 + j \in 1 .. HeaderSize /\ 12 + j \in 1 .. HeaderSize
      BY DEF HeaderSize
    <3> QED
      BY <1>4, <3>1, HeaderBytesType
  <2>2. /\ h.messageLength \in AnyInt32 /\ h.requestId \in AnyInt32
        /\ h.responseTo \in AnyInt32 /\ h.opCode \in AnyInt32
    BY DEF MessageHeader
  <2>3. field(0) = h.messageLength
    <3>1. \A j \in 1 .. 4 : s[0 + j] = Int32Bytes(h.messageLength)[j]
      BY <2>1, Zenon
    <3>2. 0 \in Nat /\ 0 + 4 <= Len(s) /\ 4 * 0 = 0
      BY <1>2
    <3>3. Int32At(Inc(Caret(s), 0)) = h.messageLength
      BY <2>2, <3>1, <3>2, Field, Zenon
    <3> QED
      BY <3>2, <3>3, Zenon
  <2>4. field(1) = h.requestId
    <3>1. \A j \in 1 .. 4 : s[4 + j] = Int32Bytes(h.requestId)[j]
      BY <2>1, Zenon
    <3>2. 4 \in Nat /\ 4 + 4 <= Len(s) /\ 4 * 1 = 4
      BY <1>2
    <3>3. Int32At(Inc(Caret(s), 4)) = h.requestId
      BY <2>2, <3>1, <3>2, Field, Zenon
    <3> QED
      BY <3>2, <3>3, Zenon
  <2>5. field(2) = h.responseTo
    <3>1. \A j \in 1 .. 4 : s[8 + j] = Int32Bytes(h.responseTo)[j]
      BY <2>1, Zenon
    <3>2. 8 \in Nat /\ 8 + 4 <= Len(s) /\ 4 * 2 = 8
      BY <1>2
    <3>3. Int32At(Inc(Caret(s), 8)) = h.responseTo
      BY <2>2, <3>1, <3>2, Field, Zenon
    <3> QED
      BY <3>2, <3>3, Zenon
  <2>6. field(3) = h.opCode
    <3>1. \A j \in 1 .. 4 : s[12 + j] = Int32Bytes(h.opCode)[j]
      BY <2>1, Zenon
    <3>2. 12 \in Nat /\ 12 + 4 <= Len(s) /\ 4 * 3 = 12
      BY <1>2
    <3>3. Int32At(Inc(Caret(s), 12)) = h.opCode
      BY <2>2, <3>1, <3>2, Field, Zenon
    <3> QED
      BY <3>2, <3>3, Zenon
  <2> QED
    BY <1>1, <2>3, <2>4, <2>5, <2>6 DEF MessageHeader
<1> QED
  BY <1>1, <1>3, <1>4 DEF MessageHeader
=============================================================================
