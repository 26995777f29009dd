----------------------------- MODULE WireProofs -----------------------------
(***************************************************************************)
(* Proofs about Wire, for any messages, headers and bounds.                *)
(***************************************************************************)
EXTENDS Wire, DataLemmas

-----------------------------------------------------------------------------
(* Bytes on the way. *)

LEMMA RestType ==
  ASSUME NEW st \in Seq(BsonByte), NEW n \in Nat, n <= Len(st)
  PROVE  /\ SubSeq(st, n + 1, Len(st)) \in Seq(BsonByte)
         /\ Len(SubSeq(st, n + 1, Len(st))) = Len(st) - n
         /\ \A i \in 1 .. Len(st) - n : SubSeq(st, n + 1, Len(st))[i] = st[n + i]
<1>1. Len(st) \in Nat /\ n + 1 \in Int /\ \A i \in n + 1 .. Len(st) : st[i] \in BsonByte
  BY LenProperties, ElementOfSeq
<1>2. /\ SubSeq(st, n + 1, Len(st)) \in Seq(BsonByte)
      /\ Len(SubSeq(st, n + 1, Len(st))) =
           IF n + 1 <= Len(st) THEN Len(st) - (n + 1) + 1 ELSE 0
      /\ \A i \in 1 .. Len(st) - (n + 1) + 1 : SubSeq(st, n + 1, Len(st))[i] = st[(n + 1) + i - 1]
  BY <1>1, SubSeqProperties
<1>3. ASSUME NEW i \in 1 .. Len(st) - n
      PROVE  SubSeq(st, n + 1, Len(st))[i] = st[n + i]
  <2>1. i \in 1 .. Len(st) - (n + 1) + 1 /\ (n + 1) + i - 1 = n + i
    BY <1>1
  <2> QED
    BY <1>2, <2>1
<1>4. Len(SubSeq(st, n + 1, Len(st))) = Len(st) - n
  BY <1>1, <1>2
<1> QED
  BY <1>2, <1>3, <1>4

LEMMA HeadType ==
  ASSUME NEW st \in Seq(BsonByte), NEW n \in Nat, n <= Len(st)
  PROVE  /\ SubSeq(st, 1, n) \in Seq(BsonByte) /\ Len(SubSeq(st, 1, n)) = n
         /\ \A i \in 1 .. n : SubSeq(st, 1, n)[i] = st[i]
<1>1. n \in Int /\ 1 \in Int /\ \A i \in 1 .. n : st[i] \in BsonByte
  BY LenProperties, ElementOfSeq
<1>2. /\ SubSeq(st, 1, n) \in Seq(BsonByte)
      /\ Len(SubSeq(st, 1, n)) = IF 1 <= n THEN n - 1 + 1 ELSE 0
      /\ \A i \in 1 .. n - 1 + 1 : SubSeq(st, 1, n)[i] = st[1 + i - 1]
  BY <1>1, SubSeqProperties
<1>3. ASSUME NEW i \in 1 .. n
      PROVE  SubSeq(st, 1, n)[i] = st[i]
  <2>1. i \in 1 .. n - 1 + 1 /\ 1 + i - 1 = i
    OBVIOUS
  <2> QED
    BY <1>2, <2>1
<1>4. Len(SubSeq(st, 1, n)) = n
  BY <1>2
<1> QED
  BY <1>2, <1>3, <1>4

-----------------------------------------------------------------------------
(* The bytes of messages. *)

Writable == { m \in Messages : LengthIsRight(m) }

Size(m) == HeaderSize + m.data.size

Bytes(m) == HeaderBytes(m.header) \o m.data.bytes

LEMMA WritableType ==
  ASSUME NEW m \in Writable
  PROVE  /\ m \in Messages /\ m \in MessageType /\ m.header \in MessageHeader
         /\ m.data.bytes \in Seq(BsonByte) /\ m.data.size = Len(m.data.bytes)
         /\ m.data.size \in Nat /\ Size(m) \in Nat /\ Size(m) = HeaderSize + m.data.size
         /\ m.header.messageLength = Size(m) /\ HeaderSize \in Nat
<1>1. m \in Messages /\ m \in MessageType /\ LengthIsRight(m)
      /\ m.data.size = Len(m.data.bytes)
  BY WireAssumption DEF Writable
<1>2. m.header \in MessageHeader /\ m.data.bytes \in Seq(BsonByte)
  BY <1>1 DEF MessageType, BufferType
<1>3. Len(m.data.bytes) \in Nat
  BY <1>2, LenProperties
<1> QED
  BY <1>1, <1>2, <1>3 DEF Size, LengthIsRight, HeaderSize

LEMMA BytesType ==
  ASSUME NEW m \in Writable
  PROVE  /\ \A k \in 1 .. HeaderSize : Bytes(m)[k] = HeaderBytes(m.header)[k]
         /\ \A k \in 1 .. m.data.size : Bytes(m)[HeaderSize + k] = m.data.bytes[k]
<1> DEFINE h == HeaderBytes(m.header)
           t == m.data.bytes
<1>1. h \in Seq(BsonByte) /\ Len(h) = HeaderSize /\ t \in Seq(BsonByte)
      /\ m.data.size = Len(t)
  BY WritableType, HeaderBytesType
<1> HIDE DEF h, t
<1>2. /\ \A k \in 1 .. Len(h) : (h \o t)[k] = h[k]
      /\ \A k \in 1 .. Len(t) : (h \o t)[Len(h) + k] = t[k]
  BY <1>1, ConcatAt, Zenon
<1> QED
  BY <1>1, <1>2, Zenon DEF h, t, Bytes

-----------------------------------------------------------------------------
(* Messages that lie one after the other around a stream: those of ms from *)
(* number d + 1 on, message i after position off[i] of the stream st, the  *)
(* first after position begin and the last up to position end.  What has   *)
(* been read lies before the stream, what has not been written behind it.  *)

Laid(st, ms, d, off, begin, end) ==
  /\ off \in [d + 1 .. Len(ms) + 1 -> Int]
  /\ off[d + 1] = begin /\ off[Len(ms) + 1] = end
  /\ \A i \in d + 1 .. Len(ms) : off[i + 1] = off[i] + Size(ms[i])
  /\ \A i, j \in d + 1 .. Len(ms) + 1 : i <= j => off[i] <= off[j]
  /\ \A i \in d + 1 .. Len(ms) : \A k \in 1 .. Size(ms[i]) :
       off[i] + k \in 1 .. Len(st) => st[off[i] + k] = Bytes(ms[i])[k]

Lines(st, ms, d, begin, end) == \E off : Laid(st, ms, d, off, begin, end)

LEMMA LinesEmpty ==
  Lines(<<>>, <<>>, 0, 0, 0)
<1> DEFINE off == [i \in 1 .. 1 |-> 0]
<1>1. Len(<<>>) = 0
  OBVIOUS
<1>2. Laid(<<>>, <<>>, 0, off, 0, 0)
  BY <1>1 DEF Laid
<1> QED
  BY <1>2 DEF Lines

LEMMA Shifted ==
  ASSUME NEW n \in Int, NEW a \in Int, NEW x \in Int, NEW k \in Int, NEW y, y = x - n,
         n >= 0, y + k \in 1 .. a - n
  PROVE  n + (y + k) = x + k /\ x + k \in 1 .. a
  OBVIOUS

LEMMA Before ==
  ASSUME NEW x \in Int, NEW y \in Int, NEW z \in Int, NEW s \in Int, NEW k \in Int,
         y = x + s, k <= s, y <= z
  PROVE  x + k <= z
  OBVIOUS

(* A message more, of which nothing has been written. *)
LEMMA LinesAppend ==
  ASSUME NEW st \in Seq(BsonByte), NEW ms \in Seq(Writable), NEW m \in Writable,
         NEW d \in Nat, d <= Len(ms), NEW begin \in Int,
         Lines(st, ms, d, begin, Len(st))
  PROVE  Lines(st, Append(ms, m), d, begin, Len(st) + Size(m))
<1> DEFINE n == Len(ms)
           a == Len(st)
           new == Append(ms, m)
<1>1. PICK off : Laid(st, ms, d, off, begin, a)
  BY DEF Lines
<1> DEFINE f == [i \in d + 1 .. n + 2 |-> IF i = n + 2 THEN a + Size(m) ELSE off[i]]
<1>2. n \in Nat /\ a \in Nat /\ Size(m) \in Nat
  BY LenProperties, WritableType
<1>3. /\ Len(new) = n + 1
      /\ \A i \in 1 .. n : new[i] = ms[i]
      /\ new[n + 1] = m
  BY AppendProperties
<1>4. /\ off \in [d + 1 .. n + 1 -> Int]
      /\ off[d + 1] = begin /\ off[n + 1] = a
      /\ \A i \in d + 1 .. n : off[i + 1] = off[i] + Size(ms[i])
      /\ \A i, j \in d + 1 .. n + 1 : i <= j => off[i] <= off[j]
      /\ \A i \in d + 1 .. n : \A k \in 1 .. Size(ms[i]) :
           off[i] + k \in 1 .. a => st[off[i] + k] = Bytes(ms[i])[k]
  BY <1>1 DEF Laid
<1> HIDE DEF n, a, new
<1>d. d <= n
  BY DEF n
<1>5. /\ \A i \in d + 1 .. n + 1 : f[i] = off[i] /\ off[i] \in Int /\ off[i] <= a
      /\ f[n + 2] = a + Size(m)
  BY <1>2, <1>4, <1>d
<1>6. f \in [d + 1 .. n + 2 -> Int]
  BY <1>2, <1>4, <1>d
<1> HIDE DEF f
<1>7. f[d + 1] = begin
  BY <1>2, <1>4, <1>5, <1>d
<1>8. \A i \in d + 1 .. n + 1 : f[i + 1] = f[i] + Size(new[i])
  <2> SUFFICES ASSUME NEW i \in d + 1 .. n + 1
               PROVE  f[i + 1] = f[i] + Size(new[i])
    OBVIOUS
  <2>1. CASE i = n + 1
    <3>1. i + 1 = n + 2
      BY <1>2, <2>1
    <3> QED
      BY <1>2, <1>3, <1>4, <1>5, <2>1, <3>1
  <2>2. CASE i # n + 1
    <3>1. i \in d + 1 .. n /\ i \in 1 .. n /\ i + 1 \in d + 1 .. n + 1
      BY <1>2, <2>2
    <3>2. new[i] = ms[i] /\ f[i + 1] = off[i + 1] /\ f[i] = off[i]
      BY <1>3, <1>5, <3>1
    <3> QED
      BY <1>4, <3>1, <3>2
  <2> QED
    BY <2>1, <2>2
<1>9. \A i, j \in d + 1 .. n + 2 : i <= j => f[i] <= f[j]
  <2> SUFFICES ASSUME NEW i \in d + 1 .. n + 2, NEW j \in d + 1 .. n + 2, i <= j
               PROVE  f[i] <= f[j]
    OBVIOUS
  <2>1. CASE j # n + 2
    <3>1. i \in d + 1 .. n + 1 /\ j \in d + 1 .. n + 1
      BY <1>2, <2>1
    <3> QED
      BY <1>4, <1>5, <3>1
  <2>2. CASE j = n + 2 /\ i # n + 2
    <3>1. i \in d + 1 .. n + 1
      BY <1>2, <2>2
    <3> QED
      BY <1>2, <1>5, <2>2, <3>1
  <2>3. CASE j = n + 2 /\ i = n + 2
    BY <1>2, <1>5, <2>3
  <2> QED
    BY <2>1, <2>2, <2>3
<1>10. ASSUME NEW i \in d + 1 .. n + 1, NEW k \in 1 .. Size(new[i]), f[i] + k \in 1 .. a
       PROVE  st[f[i] + k] = Bytes(new[i])[k]
  <2>1. CASE i = n + 1
    BY <1>2, <1>4, <1>5, <1>10, <2>1
  <2>2. CASE i # n + 1
    <3>1. i \in d + 1 .. n /\ i \in 1 .. n
      BY <1>2, <2>2
    <3>2. new[i] = ms[i] /\ f[i] = off[i]
      BY <1>3, <1>5, <3>1
    <3> QED
      BY <1>4, <1>10, <3>1, <3>2
  <2> QED
    BY <2>1, <2>2
<1>11. (n + 1) + 1 = n + 2
  BY <1>2
<1>12. Laid(st, new, d, f, begin, a + Size(m))
  BY <1>3, <1>5, <1>6, <1>7, <1>8, <1>9, <1>10, <1>11 DEF Laid, a
<1> QED
  BY <1>12 DEF Lines, a, new

(* The next bytes of the last message are written. *)
LEMMA LinesPut ==
  ASSUME NEW st \in Seq(BsonByte), NEW t \in Seq(BsonByte), NEW ms \in Seq(Writable),
         NEW d \in Nat, d < Len(ms), NEW begin \in Int, NEW end \in Int, NEW p \in Nat,
         end = Len(st) + Size(ms[Len(ms)]) - p, p + Len(t) <= Size(ms[Len(ms)]),
         \A k \in 1 .. Len(t) : t[k] = Bytes(ms[Len(ms)])[p + k],
         Lines(st, ms, d, begin, end)
  PROVE  Lines(st \o t, ms, d, begin, end)
<1> DEFINE n == Len(ms)
           a == Len(st)
           b == Len(t)
           m == ms[n]
           new == st \o t
<1>1. PICK off : Laid(st, ms, d, off, begin, end)
  BY DEF Lines
<1>2. n \in Nat /\ a \in Nat /\ b \in Nat /\ d + 1 <= n
  BY LenProperties
<1>3. m \in Writable /\ Size(m) \in Nat
  <2>1. n \in 1 .. Len(ms)
    BY <1>2
  <2> QED
    BY <2>1, ElementOfSeq, WritableType
<1>4. Len(new) = a + b /\ (\A i \in 1 .. a : new[i] = st[i])
      /\ (\A i \in 1 .. b : new[a + i] = t[i])
  BY ConcatAt
<1>5. /\ off \in [d + 1 .. n + 1 -> Int]
      /\ off[d + 1] = begin /\ off[n + 1] = end
      /\ \A i \in d + 1 .. n : off[i + 1] = off[i] + Size(ms[i])
      /\ \A i, j \in d + 1 .. n + 1 : i <= j => off[i] <= off[j]
      /\ \A i \in d + 1 .. n : \A k \in 1 .. Size(ms[i]) :
           off[i] + k \in 1 .. a => st[off[i] + k] = Bytes(ms[i])[k]
  BY <1>1 DEF Laid
<1>6. end = a + Size(m) - p /\ p + b <= Size(m)
  OBVIOUS
<1>t. \A k \in 1 .. b : t[k] = Bytes(m)[p + k]
  OBVIOUS
<1> HIDE DEF n, a, b, m, new
<1>7. off[n] + p = a /\ off[n] \in Int
  <2>1. n \in d + 1 .. n /\ n \in d + 1 .. n + 1
    BY <1>2
  <2>2. off[n + 1] = off[n] + Size(m) /\ off[n] \in Int
    BY <1>5, <2>1 DEF m
  <2>3. off[n + 1] = end
    BY <1>5
  <2>4. off[n] + Size(m) = a + Size(m) - p
    BY <1>6, <2>2, <2>3, Zenon
  <2> DEFINE o == off[n]
             z == Size(m)
  <2>5. o \in Int /\ z \in Nat /\ o + z = a + z - p
    BY <1>3, <2>2, <2>4, Zenon
  <2> HIDE DEF o, z
  <2>6. o + p = a
    BY <1>2, <2>5
  <2> QED
    BY <2>2, <2>6, Zenon DEF o
<1>8. ASSUME NEW i \in d + 1 .. n, NEW k \in 1 .. Size(ms[i]), off[i] + k \in 1 .. a + b
      PROVE  new[off[i] + k] = Bytes(ms[i])[k]
  <2>1. CASE off[i] + k <= a
    <3>1. off[i] + k \in 1 .. a
      BY <1>2, <1>8, <2>1
    <3> QED
      BY <1>4, <1>5, <3>1
  <2>2. CASE ~(off[i] + k <= a)
    <3>0. Size(ms[i]) \in Int
      <4>1. i \in 1 .. Len(ms)
        BY <1>2 DEF n
      <4>2. ms[i] \in Writable
        BY <4>1, ElementOfSeq
      <4> QED
        BY <4>2, WritableType
    <3>1. i \in Int /\ k \in Int /\ i + 1 \in d + 1 .. n + 1 /\ i \in d + 1 .. n + 1
          /\ n \in d + 1 .. n + 1 /\ off[i] \in Int /\ off[i + 1] \in Int
      BY <1>2, <1>5
    <3>2. i = n
      <4> SUFFICES ASSUME i # n PROVE FALSE
        OBVIOUS
      <4>1. i + 1 <= n
        BY <1>2
      <4>2. off[i + 1] <= off[n]
        BY <1>5, <3>1, <4>1, SMTT(30)
      <4>3. off[i + 1] = off[i] + Size(ms[i]) /\ k <= Size(ms[i])
        BY <1>5, <3>0, SMTT(30)
      <4>4. off[i] + k <= off[n]
        BY <3>0, <3>1, <4>2, <4>3, <1>7, Before, Zenon
      <4>5. off[n] <= a
        BY <1>2, <1>7
      <4> QED
        BY <1>2, <1>7, <2>2, <3>1, <4>4, <4>5, SMTT(30)
    <3> DEFINE j == k - p
    <3>3. off[i] + k = a + j /\ off[i] + k \in 1 .. a + b
      <4>1. p \in Int /\ a \in Int /\ off[n] \in Int
        BY <1>2, <1>7
      <4>2. off[n] + k = a + (k - p)
        <5>1. \A x \in Int : x + p = a => x + k = a + (k - p)
          BY <4>1, <3>1
        <5> QED
          BY <1>7, <4>1, <5>1, Zenon
      <4>3. off[i] + k = a + (k - p)
        BY <3>2, <4>2, Zenon
      <4> QED
        BY <1>8, <4>3, Zenon
    <3>4. j \in 1 .. b /\ p + j = k
      BY <1>2, <2>2, <3>1, <3>3
    <3> HIDE DEF j
    <3> QED
      BY <1>4, <1>t, <3>2, <3>3, <3>4 DEF m
  <2> QED
    BY <2>1, <2>2
<1>9. Laid(new, ms, d, off, begin, end)
  BY <1>4, <1>5, <1>8 DEF Laid, n
<1> QED
  BY <1>9 DEF Lines, new

(* The first n bytes of the stream are read. *)
LEMMA LinesTake ==
  ASSUME NEW st \in Seq(BsonByte), NEW ms \in Seq(Writable), NEW d \in Nat,
         NEW begin \in Int, NEW end \in Int, NEW n \in Nat, n <= Len(st),
         d <= Len(ms), Lines(st, ms, d, begin, end)
  PROVE  /\ SubSeq(st, n + 1, Len(st)) \in Seq(BsonByte)
         /\ Len(SubSeq(st, n + 1, Len(st))) = Len(st) - n
         /\ Lines(SubSeq(st, n + 1, Len(st)), ms, d, begin - n, end - n)
<1> DEFINE a == Len(st)
           l == Len(ms)
           new == SubSeq(st, n + 1, a)
<1>1. PICK off : Laid(st, ms, d, off, begin, end)
  BY DEF Lines
<1>2. a \in Nat /\ l \in Nat /\ d <= l
  BY LenProperties
<1>3. /\ new \in Seq(BsonByte) /\ Len(new) = a - n
      /\ \A i \in 1 .. a - n : new[i] = st[n + i]
  BY RestType
<1> DEFINE f == [i \in d + 1 .. l + 1 |-> off[i] - n]
<1>4. /\ off \in [d + 1 .. l + 1 -> Int]
      /\ off[d + 1] = begin /\ off[l + 1] = end
      /\ \A i \in d + 1 .. l : off[i + 1] = off[i] + Size(ms[i])
      /\ \A i, j \in d + 1 .. l + 1 : i <= j => off[i] <= off[j]
      /\ \A i \in d + 1 .. l : \A k \in 1 .. Size(ms[i]) :
           off[i] + k \in 1 .. a => st[off[i] + k] = Bytes(ms[i])[k]
  BY <1>1 DEF Laid
<1> HIDE DEF a, l, new
<1>5. f \in [d + 1 .. l + 1 -> Int] /\ \A i \in d + 1 .. l + 1 : f[i] = off[i] - n
  BY <1>2, <1>4
<1> HIDE DEF f
<1>6. f[d + 1] = begin - n /\ f[l + 1] = end - n
  BY <1>2, <1>4, <1>5
<1>7. ASSUME NEW i \in d + 1 .. l
      PROVE  /\ f[i + 1] = f[i] + Size(ms[i])
             /\ \A k \in 1 .. Size(ms[i]) :
                  f[i] + k \in 1 .. a - n => new[f[i] + k] = Bytes(ms[i])[k]
  <2>1. i \in d + 1 .. l + 1 /\ i + 1 \in d + 1 .. l + 1 /\ i \in 1 .. Len(ms)
    BY <1>2 DEF l
  <2>2. Size(ms[i]) \in Int
    BY <2>1, ElementOfSeq, WritableType
  <2>3. f[i] = off[i] - n /\ f[i + 1] = off[i + 1] - n
        /\ off[i] \in Int /\ off[i + 1] \in Int /\ off[i + 1] = off[i] + Size(ms[i])
    BY <1>4, <1>5, <2>1
  <2>4. ASSUME NEW k \in 1 .. Size(ms[i]), f[i] + k \in 1 .. a - n
        PROVE  new[f[i] + k] = Bytes(ms[i])[k]
    <3>1. n + (f[i] + k) = off[i] + k /\ off[i] + k \in 1 .. a
      <4>1. k \in Int /\ n \in Int /\ a \in Int /\ n >= 0
        BY <1>2, <2>2
      <4> QED
        BY <2>3, <2>4, <4>1, Shifted, Zenon
    <3>2. new[f[i] + k] = st[n + (f[i] + k)]
      BY <1>3, <2>4
    <3> QED
      BY <1>4, <3>1, <3>2
  <2> QED
    BY <2>2, <2>3, <2>4
<1>8. ASSUME NEW i \in d + 1 .. l + 1, NEW j \in d + 1 .. l + 1, i <= j
      PROVE  f[i] <= f[j]
  <2>1. f[i] = off[i] - n /\ f[j] = off[j] - n /\ off[i] \in Int /\ off[j] \in Int
        /\ off[i] <= off[j]
    BY <1>4, <1>5, <1>8
  <2> QED
    BY <2>1
<1>9. Laid(new, ms, d, f, begin - n, end - n)
  BY <1>3, <1>5, <1>6, <1>7, <1>8 DEF Laid, l
<1> QED
  BY <1>3, <1>9 DEF Lines, new, a

(* What the stream holds of the first message. *)
LEMMA LinesFirst ==
  ASSUME NEW st \in Seq(BsonByte), NEW ms \in Seq(Writable), NEW d \in Nat,
         NEW begin \in Int, NEW end \in Int, d < Len(ms), Lines(st, ms, d, begin, end)
  PROVE  /\ ms[d + 1] \in Writable
         /\ \A k \in 1 .. Size(ms[d + 1]) :
              begin + k \in 1 .. Len(st) => st[begin + k] = Bytes(ms[d + 1])[k]
         /\ Lines(st, ms, d + 1, begin + Size(ms[d + 1]), end)
<1> DEFINE l == Len(ms)
<1>1. PICK off : Laid(st, ms, d, off, begin, end)
  BY DEF Lines
<1>2. l \in Nat /\ d + 1 <= l /\ d + 1 \in 1 .. Len(ms)
  BY LenProperties
<1>3. /\ off \in [d + 1 .. l + 1 -> Int]
      /\ off[d + 1] = begin /\ off[l + 1] = end
      /\ \A i \in d + 1 .. l : off[i + 1] = off[i] + Size(ms[i])
      /\ \A i, j \in d + 1 .. l + 1 : i <= j => off[i] <= off[j]
      /\ \A i \in d + 1 .. l : \A k \in 1 .. Size(ms[i]) :
           off[i] + k \in 1 .. Len(st) => st[off[i] + k] = Bytes(ms[i])[k]
  BY <1>1 DEF Laid
<1>4. ms[d + 1] \in Writable
  BY <1>2, ElementOfSeq
<1> HIDE DEF l
<1>5. d + 1 \in d + 1 .. l
  BY <1>2
<1> DEFINE f == [i \in (d + 1) + 1 .. l + 1 |-> off[i]]
<1>6. /\ f \in [(d + 1) + 1 .. l + 1 -> Int]
      /\ \A i \in (d + 1) + 1 .. l + 1 : f[i] = off[i] /\ i \in d + 1 .. l + 1
      /\ \A i \in (d + 1) + 1 .. l :
           i \in d + 1 .. l /\ i \in (d + 1) + 1 .. l + 1 /\ i + 1 \in (d + 1) + 1 .. l + 1
      /\ (d + 1) + 1 \in (d + 1) + 1 .. l + 1 /\ l + 1 \in (d + 1) + 1 .. l + 1
  BY <1>2, <1>3
<1> HIDE DEF f
<1>7. f[(d + 1) + 1] = begin + Size(ms[d + 1]) /\ f[l + 1] = end
  BY <1>3, <1>5, <1>6
<1>8. /\ \A i \in (d + 1) + 1 .. l : f[i + 1] = f[i] + Size(ms[i])
      /\ \A i, j \in (d + 1) + 1 .. l + 1 : i <= j => f[i] <= f[j]
      /\ \A i \in (d + 1) + 1 .. l : \A k \in 1 .. Size(ms[i]) :
           f[i] + k \in 1 .. Len(st) => st[f[i] + k] = Bytes(ms[i])[k]
  BY <1>3, <1>6
<1>9. Laid(st, ms, d + 1, f, begin + Size(ms[d + 1]), end)
  BY <1>6, <1>7, <1>8 DEF Laid, l
<1> QED
  BY <1>3, <1>4, <1>5, <1>9 DEF Lines

(* Nothing lies between the ends when there is no message.                 *)
LEMMA LinesNone ==
  ASSUME NEW st, NEW ms, NEW begin, NEW end, Lines(st, ms, Len(ms), begin, end)
  PROVE  begin = end
BY DEF Lines, Laid

-----------------------------------------------------------------------------
(* The invariant: as long as no transfer has broken off, the messages that *)
(* are sent and not delivered lie around the stream.                       *)

(* The bytes the writing end has still to write, and where the message     *)
(* begins that the reading end is in. *)
Missing ==
  IF writer = "idle" THEN 0
  ELSE IF writer = "header" THEN Size(writing) ELSE writing.data.size

Begin == IF reader = "data" THEN -HeaderSize ELSE 0

Agree ==
  /\ Len(delivered) <= Len(sent)
  /\ writer # "idle" => Len(sent) > 0 /\ writing = sent[Len(sent)]
  /\ reader = "data" =>
       Len(delivered) < Len(sent) /\ message.header = sent[Len(delivered) + 1].header
  /\ Lines(stream, sent, Len(delivered), Begin, Len(stream) + Missing)

InOrder == sent \in Seq(Writable) /\ (~told => Agree)

IInv == TypeOK /\ InOrder /\ WholeOrTold

LEMMA InitInOrder ==
  ASSUME Init
  PROVE  InOrder
<1>1. Len(<<>>) = 0 /\ <<>> \in Seq(Writable) /\ 0 + 0 = 0
  OBVIOUS
<1>2. /\ Len(sent) = 0 /\ Len(delivered) = 0 /\ writer = "idle" /\ reader = "idle"
      /\ Missing = 0 /\ Begin = 0 /\ stream = <<>> /\ sent = <<>>
  BY <1>1 DEF Init, Missing, Begin
<1>3. Lines(stream, sent, Len(delivered), Begin, Len(stream) + Missing)
  BY <1>1, <1>2, LinesEmpty
<1> QED
  BY <1>1, <1>2, <1>3 DEF InOrder, Agree

(* What the invariant says before a step. *)
LEMMA Beforehand ==
  ASSUME TypeOK, InOrder
  PROVE  /\ stream \in Seq(BsonByte) /\ sent \in Seq(Writable)
         /\ Len(stream) \in Nat /\ Len(sent) \in Nat /\ Len(delivered) \in Nat
         /\ message \in MessageType /\ HeaderSize = 16
         /\ Missing \in Nat /\ Begin \in Int
         /\ (writer = "idle" => Missing = 0)
         /\ (writer = "header" => Missing = Size(writing))
         /\ (writer = "data" => Missing = writing.data.size)
         /\ (reader = "idle" => Begin = 0) /\ (reader = "data" => Begin = -16)
         /\ (writer # "idle" => writing \in Writable)
<1>1. /\ stream \in Seq(BsonByte) /\ sent \in Seq(Writable)
      /\ delivered \in Seq(Messages) /\ message \in MessageType
      /\ writer \in {"idle", "header", "data"}
  BY DEF TypeOK, InOrder
<1>2. writer # "idle" => writing \in Writable
  BY DEF TypeOK, Writable, LengthIsRight
<1>3. writer # "idle" => Size(writing) \in Nat /\ writing.data.size \in Nat
  BY <1>2, WritableType
<1>4. Len(stream) \in Nat /\ Len(sent) \in Nat /\ Len(delivered) \in Nat
  BY <1>1, LenProperties
<1>5. Begin \in Int
  BY DEF Begin, HeaderSize
<1>6. /\ Missing \in Nat
      /\ (writer = "idle" => Missing = 0)
      /\ (writer = "header" => Missing = Size(writing))
      /\ (writer = "data" => Missing = writing.data.size)
  BY <1>1, <1>3 DEF Missing
<1> QED
  BY <1>1, <1>2, <1>4, <1>5, <1>6 DEF Begin, HeaderSize

LEMMA WriteInOrder ==
  ASSUME TypeOK, InOrder, NEW m \in Messages, Write(m)
  PROVE  InOrder'
<1>1. /\ writer = "idle"
      /\ UNCHANGED <<stream, reader, message, readResult, delivered, faults, told>>
  BY DEF Write, readerVars
<1>2. /\ stream \in Seq(BsonByte) /\ sent \in Seq(Writable)
      /\ Len(stream) \in Nat /\ Len(sent) \in Nat /\ Len(delivered) \in Nat
      /\ Begin \in Int /\ Missing = 0
  BY <1>1, Beforehand
<1>3. Begin' = Begin
  BY <1>1 DEF Begin
<1>4. CASE ~LengthIsRight(m)
  <2>1. UNCHANGED <<writer, writing, sent>>
    BY <1>4 DEF Write
  <2>2. Missing' = Missing
    BY <2>1 DEF Missing
  <2> QED
    BY <1>1, <1>3, <2>1, <2>2 DEF InOrder, Agree
<1>5. CASE LengthIsRight(m)
  <2>1. /\ writer' = "header" /\ writing' = m
        /\ sent' = IF told THEN sent ELSE Append(sent, m)
    BY <1>5 DEF Write
  <2>2. m \in Writable
    BY <1>5 DEF Writable
  <2>3. Missing' = Size(m)
    BY <2>1 DEF Missing
  <2>4. CASE told
    BY <1>1, <1>2, <2>1, <2>4 DEF InOrder
  <2>5. CASE ~told
    <3>1. Agree
      BY <2>5 DEF InOrder
    <3>2. sent' = Append(sent, m)
      BY <2>1, <2>5
    <3>3. /\ sent' \in Seq(Writable) /\ Len(sent') = Len(sent) + 1
          /\ \A i \in 1 .. Len(sent) : sent'[i] = sent[i]
          /\ sent'[Len(sent) + 1] = m
      BY <1>2, <2>2, <3>2, AppendProperties
    <3>4. Lines(stream, sent, Len(delivered), Begin, Len(stream))
      <4>1. Len(stream) + Missing = Len(stream)
        BY <1>2
      <4> QED
        BY <3>1, <4>1 DEF Agree
    <3>5. Len(delivered) <= Len(sent)
      BY <3>1 DEF Agree
    <3>6. Lines(stream, Append(sent, m), Len(delivered), Begin, Len(stream) + Size(m))
      BY <1>2, <2>2, <3>4, <3>5, LinesAppend
    <3>7. Lines(stream', sent', Len(delivered'), Begin', Len(stream') + Missing')
      BY <1>1, <1>3, <2>3, <3>2, <3>6
    <3>8. reader' = "data" => /\ Len(delivered') < Len(sent')
                              /\ message'.header = sent'[Len(delivered') + 1].header
      BY <1>1, <1>2, <3>1, <3>3 DEF Agree
    <3> QED
      BY <1>1, <1>2, <2>1, <3>3, <3>5, <3>7, <3>8 DEF InOrder, Agree
  <2> QED
    BY <2>4, <2>5
<1> QED
  BY <1>4, <1>5

(* A step of an end that keeps what the other one and the channel know.    *)
LEMMA KeepInOrder ==
  ASSUME InOrder, sent' = sent, told'
  PROVE  InOrder'
BY DEF InOrder

LEMMA WriteHeaderInOrder ==
  ASSUME TypeOK, InOrder, WriteHeader
  PROVE  InOrder'
<1>1. /\ writer = "header"
      /\ UNCHANGED <<writes, sent, reader, message, readResult, delivered>>
  BY DEF WriteHeader, readerVars
<1>2. CASE told'
  BY <1>1, <1>2, KeepInOrder
<1>3. CASE ~told'
  <2> DEFINE m == writing
             t == HeaderBytes(m.header)
  <2>1. /\ stream' = stream \o t /\ writer' = "data" /\ UNCHANGED <<writing, told>>
    BY <1>3 DEF WriteHeader
  <2>2. /\ stream \in Seq(BsonByte) /\ sent \in Seq(Writable) /\ HeaderSize = 16
        /\ Len(stream) \in Nat /\ Len(sent) \in Nat /\ Len(delivered) \in Nat
        /\ Begin \in Int /\ Missing = Size(m) /\ m \in Writable
        /\ (reader = "idle" => Begin = 0)
    BY <1>1, Beforehand
  <2>3. /\ m.header \in MessageHeader /\ Size(m) \in Nat /\ m.data.size \in Nat
        /\ Size(m) = HeaderSize + m.data.size
    BY <2>2, WritableType
  <2>4. t \in Seq(BsonByte) /\ Len(t) = HeaderSize
    BY <2>3, HeaderBytesType
  <2>5. \A k \in 1 .. HeaderSize : Bytes(m)[k] = t[k]
    BY <2>2, BytesType
  <2>6. Agree
    BY <1>3, <2>1 DEF InOrder
  <2>7. /\ Len(delivered) <= Len(sent) /\ Len(sent) > 0 /\ m = sent[Len(sent)]
        /\ (reader = "data" => /\ Len(delivered) < Len(sent)
                               /\ message.header = sent[Len(delivered) + 1].header)
        /\ Lines(stream, sent, Len(delivered), Begin, Len(stream) + Size(m))
    BY <1>1, <2>2, <2>6 DEF Agree
  <2>8. Len(delivered) < Len(sent)
    <3> SUFFICES ASSUME ~(Len(delivered) < Len(sent)) PROVE FALSE
      OBVIOUS
    <3>1. Len(delivered) = Len(sent) /\ reader # "data"
      BY <2>2, <2>7
    <3>2. Begin = Len(stream) + Size(m)
      BY <2>7, <3>1, LinesNone
    <3>3. Begin = 0
      BY <2>2, <3>1 DEF TypeOK
    <3> QED
      BY <2>2, <2>3, <3>2, <3>3
  <2> DEFINE end == Len(stream) + Size(m)
  <2>9. Lines(stream \o t, sent, Len(delivered), Begin, end)
    <3>1. 0 \in Nat /\ end \in Int /\ end = Len(stream) + Size(m) - 0
          /\ 0 + Len(t) <= Size(m)
      BY <2>2, <2>3, <2>4
    <3>2. \A k \in 1 .. Len(t) : t[k] = Bytes(m)[0 + k]
      <4> TAKE k \in 1 .. Len(t)
      <4>1. 0 + k = k /\ k \in 1 .. HeaderSize
        BY <2>4
      <4> QED
        BY <2>5, <4>1, Zenon
    <3> HIDE DEF end, t, m
    <3> QED
      BY <2>2, <2>4, <2>7, <2>8, <3>1, <3>2, LinesPut DEF end
  <2>10. Missing' = m.data.size /\ Begin' = Begin
    BY <1>1, <2>1 DEF Missing, Begin
  <2>11. Len(stream') + Missing' = end
    <3>1. Len(stream \o t) = Len(stream) + Len(t)
      BY <2>2, <2>4, ConcatType
    <3> QED
      BY <2>1, <2>2, <2>3, <2>4, <2>10, <3>1
  <2> HIDE DEF end, t
  <2>12. Lines(stream', sent', Len(delivered'), Begin', Len(stream') + Missing')
    BY <1>1, <2>1, <2>9, <2>10, <2>11
  <2> QED
    BY <1>1, <2>1, <2>2, <2>7, <2>12 DEF InOrder, Agree
<1> QED
  BY <1>2, <1>3

LEMMA WriteDataInOrder ==
  ASSUME TypeOK, InOrder, WriteData
  PROVE  InOrder'
<1>1. /\ writer = "data" /\ writer' = "idle"
      /\ UNCHANGED <<writes, sent, reader, message, readResult, delivered>>
  BY DEF WriteData, readerVars
<1>2. CASE told'
  BY <1>1, <1>2, KeepInOrder
<1>3. CASE ~told'
  <2> DEFINE m == writing
             t == m.data.bytes
             end == Len(stream) + m.data.size
  <2>1. stream' = stream \o t /\ UNCHANGED told
    BY <1>3 DEF WriteData
  <2>2. /\ stream \in Seq(BsonByte) /\ sent \in Seq(Writable) /\ HeaderSize = 16
        /\ Len(stream) \in Nat /\ Len(sent) \in Nat /\ Len(delivered) \in Nat
        /\ Begin \in Int /\ Missing = m.data.size /\ m \in Writable
        /\ (reader = "idle" => Begin = 0)
    BY <1>1, Beforehand
  <2>3. /\ m.data.size \in Nat /\ m.data.size = Len(t) /\ t \in Seq(BsonByte)
        /\ Size(m) = HeaderSize + m.data.size /\ Size(m) \in Nat
    BY <2>2, WritableType
  <2>4. \A k \in 1 .. m.data.size : Bytes(m)[HeaderSize + k] = t[k]
    BY <2>2, BytesType
  <2>5. Agree
    BY <1>3, <2>1 DEF InOrder
  <2>6. /\ Len(delivered) <= Len(sent) /\ Len(sent) > 0 /\ m = sent[Len(sent)]
        /\ (reader = "data" => /\ Len(delivered) < Len(sent)
                               /\ message.header = sent[Len(delivered) + 1].header)
        /\ Lines(stream, sent, Len(delivered), Begin, end)
    BY <1>1, <2>2, <2>5 DEF Agree
  <2>7. Lines(stream \o t, sent, Len(delivered), Begin, end)
    <3>1. CASE Len(delivered) < Len(sent)
      <4>1. 16 \in Nat /\ end \in Int /\ end = Len(stream) + Size(m) - 16
            /\ 16 + Len(t) <= Size(m)
        BY <2>2, <2>3
      <4>2. \A k \in 1 .. Len(t) : t[k] = Bytes(m)[16 + k]
        BY <2>2, <2>3, <2>4
      <4> HIDE DEF end, t, m
      <4> QED
        BY <2>2, <2>3, <2>6, <3>1, <4>1, <4>2, LinesPut DEF end
    <3>2. CASE ~(Len(delivered) < Len(sent))
      <4>1. Len(delivered) = Len(sent) /\ reader # "data"
        BY <2>2, <2>6, <3>2
      <4>2. Begin = end
        BY <2>6, <4>1, LinesNone
      <4>3. Begin = 0
        BY <2>2, <4>1 DEF TypeOK
      <4>4. Len(t) = 0
        BY <2>2, <2>3, <4>2, <4>3
      <4>5. t = <<>>
        BY <2>3, <4>4, EmptySeq
      <4>6. stream \o t = stream
        BY <2>2, <4>5, ConcatEmptySeq
      <4> QED
        BY <2>6, <4>6
    <3> QED
      BY <3>1, <3>2
  <2>8. Missing' = 0 /\ Begin' = Begin
    BY <1>1 DEF Missing, Begin
  <2>9. Len(stream') + Missing' = end
    <3>1. Len(stream \o t) = Len(stream) + Len(t)
      BY <2>2, <2>3, ConcatType
    <3> QED
      BY <2>1, <2>2, <2>3, <2>8, <3>1
  <2> HIDE DEF end, t
  <2>10. Lines(stream', sent', Len(delivered'), Begin', Len(stream') + Missing')
    BY <1>1, <2>1, <2>7, <2>8, <2>9
  <2> QED
    BY <1>1, <2>1, <2>2, <2>6, <2>10 DEF InOrder, Agree
<1> QED
  BY <1>2, <1>3

LEMMA ReadDataShortInOrder ==
  ASSUME InOrder, ReadDataShort
  PROVE  InOrder'
BY KeepInOrder DEF ReadDataShort, writerVars

LEMMA ReadHeaderShortInOrder ==
  ASSUME TypeOK, InOrder, ReadHeaderShort
  PROVE  InOrder'
<1>1. /\ reader = "idle"
      /\ UNCHANGED <<writer, writing, writeResult, writes, sent, reader, message, delivered>>
  BY DEF ReadHeaderShort, writerVars
<1>2. PICK k \in 0 .. Len(stream) : told' = (told \/ k > 0) /\ stream' = Rest(k)
  BY DEF ReadHeaderShort
<1>3. CASE told \/ k > 0
  BY <1>1, <1>2, <1>3, KeepInOrder
<1>4. CASE ~(told \/ k > 0)
  <2>1. Agree
    BY <1>4 DEF InOrder
  <2>2. /\ stream \in Seq(BsonByte) /\ Len(stream) \in Nat
    BY Beforehand
  <2>3. k = 0
    BY <1>4, <2>2
  <2>4. stream' = SubSeq(stream, 1, Len(stream))
    BY <1>2, <2>3 DEF Rest
  <2>5. stream' = stream
    BY <2>2, <2>4, SubSeqFull
  <2>6. Missing' = Missing /\ Begin' = Begin
    BY <1>1 DEF Missing, Begin
  <2> QED
    BY <1>1, <2>1, <2>5, <2>6 DEF InOrder, Agree
<1> QED
  BY <1>3, <1>4

LEMMA ReadHeaderInOrder ==
  ASSUME TypeOK, InOrder, ReadHeader
  PROVE  InOrder'
<1> DEFINE h == HeaderOf(stream)
<1>1. /\ reader = "idle" /\ Len(stream) >= HeaderSize /\ stream' = Rest(HeaderSize)
      /\ message' = [message EXCEPT !.header = h]
      /\ IF h.messageLength >= HeaderSize THEN reader' = "data" ELSE reader' = "idle"
      /\ UNCHANGED <<writer, writing, writeResult, writes, sent, delivered, told>>
  BY DEF ReadHeader, writerVars
<1>2. CASE told
  BY <1>1, <1>2, KeepInOrder
<1>3. CASE ~told
  <2>1. /\ stream \in Seq(BsonByte) /\ sent \in Seq(Writable) /\ HeaderSize = 16
        /\ Len(stream) \in Nat /\ Len(sent) \in Nat /\ Len(delivered) \in Nat
        /\ Begin = 0 /\ Missing \in Nat /\ message \in MessageType
    BY <1>1, Beforehand
  <2>2. Agree
    BY <1>3 DEF InOrder
  <2> DEFINE d == Len(delivered)
             end == Len(stream) + Missing
             m == sent[d + 1]
  <2>3. d <= Len(sent) /\ Lines(stream, sent, d, 0, end)
    BY <2>1, <2>2 DEF Agree
  <2>4. d < Len(sent)
    <3> SUFFICES ASSUME ~(d < Len(sent)) PROVE FALSE
      OBVIOUS
    <3>1. d = Len(sent)
      BY <2>1, <2>3
    <3>2. 0 = end
      BY <2>3, <3>1, LinesNone
    <3> QED
      BY <1>1, <2>1, <3>2
  <2>5. d \in Nat /\ end \in Int /\ 0 \in Int
    BY <2>1
  <2> HIDE DEF d, end
  <2>6. /\ m \in Writable
        /\ \A k \in 1 .. Size(m) : 0 + k \in 1 .. Len(stream) => stream[0 + k] = Bytes(m)[k]
    BY <2>1, <2>3, <2>4, <2>5, LinesFirst
  <2>7. /\ m.header \in MessageHeader /\ Size(m) \in Nat /\ m.data.size \in Nat
        /\ Size(m) = HeaderSize + m.data.size /\ m.header.messageLength = Size(m)
    BY <2>6, WritableType
  <2>8. ASSUME NEW k \in 1 .. HeaderSize
        PROVE  stream[k] = HeaderBytes(m.header)[k]
    <3>1. k \in 1 .. Size(m) /\ 0 + k \in 1 .. Len(stream) /\ 0 + k = k
      <4>1. Size(m) \in Int /\ HeaderSize <= Size(m) /\ Len(stream) \in Int
            /\ HeaderSize <= Len(stream)
        BY <1>1, <2>1, <2>7
      <4> HIDE DEF m, h
      <4> QED
        BY <2>1, <4>1
    <3>2. Bytes(m)[k] = HeaderBytes(m.header)[k]
      BY <2>6, BytesType
    <3> QED
      BY <2>6, <3>1, <3>2
  <2>9. h = m.header
    BY <1>1, <2>1, <2>7, <2>8, HeaderRead
  <2>10. reader' = "data"
    BY <1>1, <2>1, <2>7, <2>9
  <2>11. message'.header = m.header
    BY <1>1, <2>1, <2>9 DEF MessageType
  <2>12. /\ Len(stream') = Len(stream) - HeaderSize
         /\ Lines(stream', sent, d, 0 - HeaderSize, end - HeaderSize)
    <3>1. HeaderSize \in Nat /\ HeaderSize <= Len(stream)
      BY <1>1, <2>1
    <3>2. stream' = SubSeq(stream, HeaderSize + 1, Len(stream))
      BY <1>1 DEF Rest
    <3> HIDE DEF m, h
    <3>3. /\ Len(SubSeq(stream, HeaderSize + 1, Len(stream))) = Len(stream) - HeaderSize
          /\ Lines(SubSeq(stream, HeaderSize + 1, Len(stream)), sent, d,
                   0 - HeaderSize, end - HeaderSize)
      <4>1. stream \in Seq(BsonByte) /\ sent \in Seq(Writable)
        BY <2>1
      <4> QED
        BY <2>3, <2>5, <3>1, <4>1, LinesTake
    <3> QED
      BY <3>2, <3>3
  <2>13. Begin' = 0 - HeaderSize /\ Missing' = Missing
    BY <1>1, <2>1, <2>10 DEF Begin, Missing
  <2>14. Len(stream') + Missing' = end - HeaderSize
    BY <2>1, <2>12, <2>13 DEF end
  <2>15. Lines(stream', sent', Len(delivered'), Begin', Len(stream') + Missing')
    BY <1>1, <2>12, <2>13, <2>14 DEF d
  <2> QED
    BY <1>1, <2>1, <2>2, <2>4, <2>10, <2>11, <2>15 DEF InOrder, Agree, d
<1> QED
  BY <1>2, <1>3

(* What read returns is the next message that was sent.                    *)
LEMMA ReadDataDelivers ==
  ASSUME TypeOK, InOrder, ReadData, ~told
  PROVE  /\ Len(delivered) < Len(sent)
         /\ message' = sent[Len(delivered) + 1] /\ message' \in Writable
         /\ stream' = Rest(message'.data.size) /\ message'.data.size <= Len(stream)
<1> DEFINE d == Len(delivered)
           m == sent[d + 1]
           n == m.data.size
           end == Len(stream) + Missing
<1>1. /\ reader = "data" /\ Len(stream) >= DataSizeRead /\ stream' = Rest(DataSizeRead)
      /\ message' = [message EXCEPT !.data =
                        Buffer(DataSizeRead, SubSeq(stream, 1, DataSizeRead))]
  BY DEF ReadData
<1>2. /\ stream \in Seq(BsonByte) /\ sent \in Seq(Writable) /\ HeaderSize = 16
      /\ Len(stream) \in Nat /\ Len(sent) \in Nat /\ Len(delivered) \in Nat
      /\ Begin = -16 /\ Missing \in Nat /\ message \in MessageType
  BY <1>1, Beforehand
<1>3. Agree
  BY DEF InOrder
<1>4. d < Len(sent) /\ message.header = m.header /\ Lines(stream, sent, d, -16, end)
  BY <1>1, <1>2, <1>3 DEF Agree
<1>5. d \in Nat /\ end \in Int /\ -16 \in Int
  BY <1>2
<1>6. /\ m \in Writable
      /\ \A k \in 1 .. Size(m) : -16 + k \in 1 .. Len(stream) => stream[-16 + k] = Bytes(m)[k]
  <2> HIDE DEF d, end
  <2> QED
    BY <1>2, <1>4, <1>5, LinesFirst
<1>7. /\ m \in MessageType /\ m.data.bytes \in Seq(BsonByte) /\ n = Len(m.data.bytes)
      /\ n \in Nat /\ Size(m) \in Nat /\ Size(m) = HeaderSize + n
      /\ m.header.messageLength = Size(m)
  BY <1>6, WritableType
<1>8. \A k \in 1 .. n : Bytes(m)[HeaderSize + k] = m.data.bytes[k]
  BY <1>6, BytesType
<1>9. DataSizeRead = n
  BY <1>2, <1>4, <1>7 DEF DataSizeRead
<1>10. n <= Len(stream)
  BY <1>1, <1>9
<1> HIDE DEF d, m, n, end
<1>11. SubSeq(stream, 1, n) = m.data.bytes
  <2>1. /\ SubSeq(stream, 1, n) \in Seq(BsonByte) /\ Len(SubSeq(stream, 1, n)) = n
        /\ \A i \in 1 .. n : SubSeq(stream, 1, n)[i] = stream[i]
    BY <1>2, <1>7, <1>10, HeadType
  <2>2. ASSUME NEW i \in 1 .. n
        PROVE  stream[i] = m.data.bytes[i]
    <3>1. /\ HeaderSize + i \in 1 .. Size(m) /\ -16 + (HeaderSize + i) = i
          /\ i \in 1 .. Len(stream)
      BY <1>2, <1>7, <1>10
    <3>2. stream[-16 + (HeaderSize + i)] = Bytes(m)[HeaderSize + i]
      BY <1>6, <3>1, Zenon
    <3> QED
      BY <1>8, <3>1, <3>2, Zenon
  <2>3. \A i \in 1 .. Len(SubSeq(stream, 1, n)) :
          SubSeq(stream, 1, n)[i] = m.data.bytes[i]
    BY <2>1, <2>2, Zenon
  <2> QED
    BY <1>7, <2>1, <2>3, SeqEqual
<1>12. message' = m
  <2>1. message' = [message EXCEPT !.data = Buffer(n, m.data.bytes)]
    BY <1>1, <1>9, <1>11
  <2>2. Buffer(n, m.data.bytes) = m.data
    BY <1>7 DEF Buffer, MessageType, BufferType, n
  <2> QED
    BY <1>2, <1>4, <1>7, <2>1, <2>2 DEF MessageType
<1> QED
  BY <1>1, <1>4, <1>6, <1>9, <1>10, <1>12 DEF d, m, n

LEMMA ReadDataInOrder ==
  ASSUME TypeOK, InOrder, ReadData
  PROVE  InOrder'
<1>1. /\ reader = "data" /\ reader' = "idle"
      /\ delivered' = IF told THEN delivered ELSE Append(delivered, message')
      /\ UNCHANGED <<writer, writing, writeResult, writes, sent, told>>
  BY DEF ReadData, writerVars
<1>2. CASE told
  BY <1>1, <1>2, KeepInOrder
<1>3. CASE ~told
  <2> DEFINE d == Len(delivered)
             m == sent[d + 1]
             n == m.data.size
             end == Len(stream) + Missing
  <2>1. /\ stream \in Seq(BsonByte) /\ sent \in Seq(Writable) /\ HeaderSize = 16
        /\ Len(stream) \in Nat /\ Len(sent) \in Nat /\ Len(delivered) \in Nat
        /\ Begin = -16 /\ Missing \in Nat
    BY <1>1, Beforehand
  <2>2. /\ d < Len(sent) /\ message' = m /\ m \in Writable
        /\ stream' = Rest(n) /\ n <= Len(stream)
    BY <1>3, ReadDataDelivers
  <2>3. Agree
    BY <1>3 DEF InOrder
  <2>4. Lines(stream, sent, d, -16, end)
    BY <2>1, <2>3 DEF Agree
  <2>5. n \in Nat /\ Size(m) = 16 + n /\ end \in Int /\ d \in Nat
    BY <2>1, <2>2, WritableType
  <2>6. delivered' = Append(delivered, m) /\ Len(delivered') = d + 1
    <3>1. delivered \in Seq(Messages) /\ m \in Messages
      BY <2>2, WritableType DEF TypeOK
    <3>2. delivered' = Append(delivered, m)
      BY <1>1, <1>3, <2>2
    <3> QED
      BY <3>1, <3>2, AppendProperties
  <2> HIDE DEF d, m, n, end
  <2>7. /\ stream' \in Seq(BsonByte) /\ Len(stream') = Len(stream) - n
        /\ Lines(stream', sent, d, -16 - n, end - n)
    <3>1. stream' = SubSeq(stream, n + 1, Len(stream)) /\ -16 \in Int
      BY <2>2 DEF Rest
    <3>2. d <= Len(sent)
      BY <2>1, <2>2, <2>5
    <3> QED
      BY <2>1, <2>2, <2>4, <2>5, <3>1, <3>2, LinesTake
  <2>8. Lines(stream', sent, d + 1, 0, end - n)
    <3>1. -16 - n \in Int /\ end - n \in Int /\ (-16 - n) + Size(m) = 0
      BY <2>5
    <3>2. Lines(stream', sent, d + 1, (-16 - n) + Size(m), end - n)
      BY <2>1, <2>2, <2>5, <2>7, <3>1, LinesFirst DEF m
    <3> QED
      BY <3>1, <3>2, Zenon
  <2>9. Begin' = 0 /\ Missing' = Missing
    BY <1>1 DEF Begin, Missing
  <2>10. Len(stream') + Missing' = end - n
    BY <2>1, <2>5, <2>7, <2>9 DEF end
  <2>11. Lines(stream', sent', Len(delivered'), Begin', Len(stream') + Missing')
    BY <1>1, <2>6, <2>8, <2>9, <2>10
  <2>12. Len(delivered') <= Len(sent')
    BY <1>1, <2>1, <2>2, <2>5, <2>6
  <2> QED
    BY <1>1, <2>1, <2>3, <2>11, <2>12 DEF InOrder, Agree
<1> QED
  BY <1>2, <1>3

-----------------------------------------------------------------------------
(* Types. *)

LEMMA MessageParts ==
  ASSUME NEW m \in MessageType
  PROVE  /\ m.header.messageLength \in Int /\ m.data \in BufferType
         /\ \A h \in MessageHeader :
              /\ [m EXCEPT !.header = h] \in MessageType
              /\ [m EXCEPT !.header = h].header = h
         /\ \A b \in BufferType :
              /\ [m EXCEPT !.data = b] \in MessageType
              /\ [m EXCEPT !.data = b].header = m.header
              /\ [m EXCEPT !.data = b].data = b
<1>1. m.header.messageLength \in AnyInt32
  BY DEF MessageType, MessageHeader
<1>2. m.header.messageLength \in Int
  BY <1>1, AnyInt32Int
<1> QED
  BY <1>2 DEF MessageType

LEMMA BufferParts ==
  ASSUME NEW n \in Int, NEW bytes \in Seq(BsonByte)
  PROVE  /\ Buffer(n, bytes) \in BufferType
         /\ Buffer(n, bytes).size = n /\ Buffer(n, bytes).bytes = bytes
BY DEF Buffer, BufferType

LEMMA ShortType ==
  ASSUME TypeOK, NEW k \in Nat, NEW n \in Nat, Short(k, n)
  PROVE  faults' \in 0 .. MaxFaults /\ k < n
BY WireAssumption DEF Short, TypeOK

LEMMA InitType ==
  ASSUME Init
  PROVE  TypeOK
<1>1. PICK h \in Headers : message = [header |-> h, data |-> NullBuffer]
  BY DEF Init
<1>2. message \in MessageType
  BY <1>1, WireAssumption DEF MessageType, NullBuffer, Buffer, BufferType
<1>3. /\ stream \in Seq(BsonByte) /\ sent \in Seq(Messages) /\ delivered \in Seq(Messages)
  BY EmptySeq DEF Init
<1>4. writes \in 0 .. MaxWrites /\ faults \in 0 .. MaxFaults /\ told \in BOOLEAN
  <2>1. writes = 0 /\ faults = 0 /\ told = FALSE
    BY DEF Init
  <2>2. 0 \in 0 .. MaxWrites /\ 0 \in 0 .. MaxFaults
    BY WireAssumption
  <2> QED
    BY <2>1, <2>2, Zenon
<1>5. writeResult \in Result /\ readResult \in Result
  BY DEF Init, Result
<1>6. /\ writer = "idle" /\ writing = NoMessage /\ reader = "idle"
  BY DEF Init
<1> QED
  BY <1>2, <1>3, <1>4, <1>5, <1>6 DEF TypeOK

LEMMA WriteType ==
  ASSUME TypeOK, NEW m \in Messages, Write(m)
  PROVE  TypeOK'
<1>1. /\ UNCHANGED <<stream, reader, message, readResult, delivered, faults, told>>
      /\ writes < MaxWrites /\ writes' = writes + 1
  BY DEF Write, readerVars
<1>2. writes' \in 0 .. MaxWrites
  BY <1>1, WireAssumption DEF TypeOK
<1>3. CASE LengthIsRight(m)
  <2>1. /\ writer' = "header" /\ writing' = m /\ writeResult' = None
        /\ sent' = IF told THEN sent ELSE Append(sent, m)
    BY <1>3 DEF Write
  <2>2. sent' \in Seq(Messages)
    BY <2>1, AppendProperties DEF TypeOK
  <2> QED
    BY <1>1, <1>2, <1>3, <2>1, <2>2 DEF TypeOK, Result, LengthIsRight
<1>4. CASE ~LengthIsRight(m)
  <2>1. writeResult' = Threw /\ UNCHANGED <<writer, writing, sent>>
    BY <1>4 DEF Write
  <2> QED
    BY <1>1, <1>2, <2>1 DEF TypeOK, Result
<1> QED
  BY <1>3, <1>4

LEMMA WriteHeaderType ==
  ASSUME TypeOK, WriteHeader
  PROVE  TypeOK'
<1> DEFINE bytes == HeaderBytes(writing.header)
<1>1. /\ writer = "header"
      /\ UNCHANGED <<writes, sent, reader, message, readResult, delivered>>
  BY DEF WriteHeader, readerVars
<1>2. writing \in Messages /\ writing.header \in MessageHeader
  BY <1>1, WireAssumption DEF TypeOK, MessageType
<1>3. bytes \in Seq(BsonByte) /\ Len(bytes) = HeaderSize /\ HeaderSize \in Nat
      /\ HeaderSize = 16
  BY <1>2, HeaderBytesType DEF HeaderSize
<1>4. CASE /\ stream' = stream \o bytes /\ writer' = "data"
           /\ UNCHANGED <<writing, writeResult, faults, told>>
  <2>1. stream' \in Seq(BsonByte)
    BY <1>3, <1>4, ConcatType DEF TypeOK
  <2> QED
    BY <1>1, <1>4, <2>1 DEF TypeOK
<1>5. ASSUME NEW k \in 0 .. HeaderSize - 1,
             /\ Short(k, HeaderSize) /\ told' = TRUE
             /\ stream' = stream \o SubSeq(bytes, 1, k)
             /\ writer' = "idle" /\ writing' = NoMessage
             /\ writeResult' \in {k, Error}
      PROVE  TypeOK'
  <2>1. k \in Nat /\ k <= Len(bytes)
    BY <1>3
  <2>2. SubSeq(bytes, 1, k) \in Seq(BsonByte)
    <3> HIDE DEF bytes
    <3> QED
      BY <1>3, <2>1, HeadType
  <2> HIDE DEF bytes
  <2>3. stream' \in Seq(BsonByte)
    BY <1>5, <2>2, ConcatType DEF TypeOK
  <2>4. faults' \in 0 .. MaxFaults
    BY <1>3, <1>5, <2>1, ShortType
  <2>5. writeResult' \in Result
    BY <1>5, <2>1 DEF Result
  <2> QED
    BY <1>1, <1>5, <2>3, <2>4, <2>5 DEF TypeOK
<1> QED
  BY <1>4, <1>5 DEF WriteHeader

LEMMA WriteDataType ==
  ASSUME TypeOK, WriteData
  PROVE  TypeOK'
<1> DEFINE bytes == writing.data.bytes
<1>1. /\ writer = "data" /\ writer' = "idle" /\ writing' = NoMessage
      /\ UNCHANGED <<writes, sent, reader, message, readResult, delivered>>
  BY DEF WriteData, readerVars
<1>2. writing \in Messages /\ bytes \in Seq(BsonByte)
  BY <1>1, WireAssumption DEF TypeOK, MessageType, BufferType
<1>3. Len(bytes) \in Nat
  BY <1>2, LenProperties
<1>4. CASE /\ stream' = stream \o bytes /\ writeResult' = HeaderSize + Len(bytes)
           /\ UNCHANGED <<faults, told>>
  <2>1. stream' \in Seq(BsonByte)
    BY <1>2, <1>4, ConcatType DEF TypeOK
  <2>2. writeResult' \in Result
    BY <1>3, <1>4 DEF HeaderSize, Result
  <2> QED
    BY <1>1, <1>4, <2>1, <2>2 DEF TypeOK
<1>5. ASSUME NEW k \in 0 .. Len(bytes),
             /\ Short(k, Len(bytes)) /\ told' = TRUE
             /\ stream' = stream \o SubSeq(bytes, 1, k)
             /\ writeResult' \in {HeaderSize + k, Error}
      PROVE  TypeOK'
  <2>1. k \in Nat /\ k <= Len(bytes)
    BY <1>3
  <2> HIDE DEF bytes
  <2>2. SubSeq(bytes, 1, k) \in Seq(BsonByte)
    BY <1>2, <2>1, HeadType
  <2>3. stream' \in Seq(BsonByte)
    BY <1>5, <2>2, ConcatType DEF TypeOK
  <2>4. faults' \in 0 .. MaxFaults
    BY <1>3, <1>5, <2>1, ShortType
  <2>5. writeResult' \in Result
    BY <1>5, <2>1 DEF Result, HeaderSize
  <2> QED
    BY <1>1, <1>5, <2>3, <2>4, <2>5 DEF TypeOK
<1> QED
  BY <1>1, <1>4, <1>5 DEF WriteData

LEMMA RestOK ==
  ASSUME TypeOK, NEW n \in Nat, n <= Len(stream)
  PROVE  Rest(n) \in Seq(BsonByte) /\ SubSeq(stream, 1, n) \in Seq(BsonByte)
<1>1. stream \in Seq(BsonByte)
  BY DEF TypeOK
<1> QED
  BY <1>1, RestType, HeadType DEF Rest

LEMMA ReadHeaderTypes ==
  ASSUME TypeOK, ReadHeader
  PROVE  TypeOK'
<1> DEFINE h == HeaderOf(stream)
<1>1. /\ Len(stream) >= HeaderSize /\ stream' = Rest(HeaderSize)
      /\ message' = [message EXCEPT !.header = h]
      /\ IF h.messageLength >= HeaderSize
         THEN reader' = "data" /\ readResult' = None
         ELSE reader' = "idle" /\ readResult' = Threw
      /\ UNCHANGED <<writer, writing, writeResult, writes, sent, delivered, faults, told>>
  BY DEF ReadHeader, writerVars
<1>2. stream' \in Seq(BsonByte)
  <2>1. HeaderSize \in Nat /\ HeaderSize <= Len(stream)
    BY <1>1 DEF HeaderSize
  <2> QED
    BY <1>1, <2>1, RestOK
<1>3. h \in MessageHeader
  BY <1>1, HeaderRead DEF TypeOK
<1> HIDE DEF h
<1>4. message' \in MessageType /\ message'.header = h
  BY <1>1, <1>3, MessageParts DEF TypeOK
<1>5. /\ reader' \in {"idle", "data"} /\ readResult' \in Result
      /\ (reader' = "data" => message'.header.messageLength >= HeaderSize)
  BY <1>1, <1>4 DEF Result
<1> QED
  BY <1>1, <1>2, <1>4, <1>5 DEF TypeOK

LEMMA ReadHeaderShortType ==
  ASSUME TypeOK, ReadHeaderShort
  PROVE  TypeOK'
<1>1. /\ reader = "idle"
      /\ UNCHANGED <<writer, writing, writeResult, writes, sent, reader, message, delivered>>
  BY DEF ReadHeaderShort, writerVars
<1>2. PICK k \in 0 .. Len(stream) :
         /\ Short(k, HeaderSize) /\ told' = (told \/ k > 0)
         /\ stream' = Rest(k) /\ readResult' \in {k, Error}
  BY DEF ReadHeaderShort
<1>3. k \in Nat /\ k <= Len(stream) /\ HeaderSize \in Nat
  BY LenProperties DEF TypeOK, HeaderSize
<1>4. stream' \in Seq(BsonByte)
  BY <1>2, <1>3, RestOK
<1>5. faults' \in 0 .. MaxFaults
  BY <1>2, <1>3, ShortType
<1>6. readResult' \in Result
  BY <1>2, <1>3 DEF Result
<1>7. told' \in BOOLEAN
  BY <1>2
<1> QED
  BY <1>1, <1>4, <1>5, <1>6, <1>7 DEF TypeOK

LEMMA DataSize_Nat ==
  ASSUME TypeOK, reader = "data"
  PROVE  DataSizeRead \in Nat /\ HeaderSize + DataSizeRead = message.header.messageLength
<1>1. message.header.messageLength \in Int /\ message.header.messageLength >= HeaderSize
  BY MessageParts DEF TypeOK
<1> QED
  BY <1>1 DEF DataSizeRead, HeaderSize

(* The message that read returns with enough bytes is whole. *)
LEMMA ReadDataWhole ==
  ASSUME TypeOK, ReadData
  PROVE  /\ stream' \in Seq(BsonByte) /\ message' \in MessageType
         /\ readResult' \in Result /\ WholeOrTold'
<1> DEFINE n == DataSizeRead
<1>1. /\ reader = "data" /\ Len(stream) >= n /\ stream' = Rest(n)
      /\ message' = [message EXCEPT !.data = Buffer(n, SubSeq(stream, 1, n))]
      /\ readResult' = HeaderSize + n
  BY DEF ReadData
<1>2. /\ n \in Nat /\ n <= Len(stream) /\ stream \in Seq(BsonByte)
      /\ message \in MessageType
  BY <1>1, DataSize_Nat, LenProperties DEF TypeOK
<1> HIDE DEF n
<1>3. stream' \in Seq(BsonByte) /\ SubSeq(stream, 1, n) \in Seq(BsonByte)
  BY <1>1, <1>2, RestOK
<1>4. Len(SubSeq(stream, 1, n)) = n
  BY <1>2, HeadType
<1> DEFINE b == Buffer(n, SubSeq(stream, 1, n))
<1>b. b \in BufferType /\ b.size = n /\ b.bytes = SubSeq(stream, 1, n)
  <2>1. n \in Int
    BY <1>2
  <2> QED
    BY <1>3, <2>1, BufferParts, Zenon
<1>c. message' = [message EXCEPT !.data = b]
  BY <1>1
<1> HIDE DEF b
<1>5. message' \in MessageType /\ message'.data = b
  BY <1>2, <1>b, <1>c, MessageParts, Zenon
<1>6. message'.data.size = n /\ message'.data.bytes = SubSeq(stream, 1, n)
  BY <1>b, <1>5, Zenon
<1>7. readResult' \in Result /\ n = readResult' - HeaderSize
  BY <1>1, <1>2 DEF HeaderSize, Result
<1> QED
  BY <1>3, <1>4, <1>5, <1>6, <1>7 DEF WholeOrTold

LEMMA ReadDataType ==
  ASSUME TypeOK, InOrder, ReadData
  PROVE  TypeOK'
<1>1. /\ reader' = "idle"
      /\ delivered' = IF told THEN delivered ELSE Append(delivered, message')
      /\ UNCHANGED <<writer, writing, writeResult, writes, sent, faults, told>>
  BY DEF ReadData, writerVars
<1>2. delivered' \in Seq(Messages)
  <2>1. CASE told
    BY <1>1, <2>1 DEF TypeOK
  <2>2. CASE ~told
    <3>1. message' \in Messages
      BY <2>2, ReadDataDelivers, WritableType
    <3> QED
      BY <1>1, <2>2, <3>1, AppendProperties DEF TypeOK
  <2> QED
    BY <2>1, <2>2
<1> QED
  BY <1>1, <1>2, ReadDataWhole DEF TypeOK

LEMMA ReadDataShortOK ==
  ASSUME TypeOK, ReadDataShort
  PROVE  TypeOK' /\ WholeOrTold'
<1> DEFINE n == DataSizeRead
<1>1. /\ reader = "data" /\ reader' = "idle"
      /\ UNCHANGED <<writer, writing, writeResult, writes, sent, delivered>>
  BY DEF ReadDataShort, writerVars
<1>2. PICK k \in 0 .. Len(stream) :
         /\ Short(k, n) /\ told' = TRUE /\ stream' = Rest(k)
         /\ \/ /\ message' = [message EXCEPT !.data = Buffer(n, SubSeq(stream, 1, k))]
               /\ readResult' = HeaderSize + k
            \/ readResult' = Error /\ UNCHANGED message
  BY DEF ReadDataShort, Reported
<1>3. n \in Nat /\ HeaderSize + n = message.header.messageLength
      /\ message \in MessageType /\ stream \in Seq(BsonByte)
  BY <1>1, DataSize_Nat DEF TypeOK
<1>4. k \in Nat /\ k <= Len(stream)
  BY <1>3, LenProperties
<1> HIDE DEF n
<1>5. faults' \in 0 .. MaxFaults /\ k < n
  BY <1>2, <1>3, <1>4, ShortType
<1>6. stream' \in Seq(BsonByte) /\ SubSeq(stream, 1, k) \in Seq(BsonByte)
  BY <1>2, <1>4, RestOK
<1>7. /\ message' \in MessageType /\ message'.header = message.header
      /\ readResult' \in {HeaderSize + k, Error}
  <2> DEFINE b == Buffer(n, SubSeq(stream, 1, k))
  <2>1. b \in BufferType
    <3>1. n \in Int
      BY <1>3
    <3> QED
      BY <1>6, <3>1, BufferParts, Zenon
  <2>2. \/ message' = [message EXCEPT !.data = b] /\ readResult' = HeaderSize + k
        \/ readResult' = Error /\ message' = message
    BY <1>2
  <2> HIDE DEF b
  <2>3. CASE message' = [message EXCEPT !.data = b] /\ readResult' = HeaderSize + k
    BY <1>3, <2>1, <2>3, MessageParts, Zenon
  <2>4. CASE readResult' = Error /\ message' = message
    BY <1>3, <2>4, Zenon
  <2> QED
    BY <2>2, <2>3, <2>4
<1>8. readResult' \in Result
  BY <1>4, <1>7 DEF Result, HeaderSize
<1>9. ~(readResult' >= HeaderSize /\ readResult' = message'.header.messageLength)
  BY <1>3, <1>4, <1>5, <1>7 DEF HeaderSize, Error
<1> QED
  BY <1>1, <1>2, <1>5, <1>6, <1>7, <1>8, <1>9 DEF TypeOK, WholeOrTold

-----------------------------------------------------------------------------
(* Steps that leave the reader alone.                                      *)
LEMMA KeepWhole ==
  ASSUME WholeOrTold, message' = message, readResult' = readResult
  PROVE  WholeOrTold'
BY DEF WholeOrTold

(* A result below the size of a header says nothing about a message.       *)
LEMMA SmallResult ==
  ASSUME TypeOK', readResult' < HeaderSize
  PROVE  WholeOrTold'
BY DEF WholeOrTold, TypeOK, Result, HeaderSize, Error, None, Threw

LEMMA ReadHeaderWhole ==
  ASSUME TypeOK, ReadHeader
  PROVE  WholeOrTold'
<1>1. readResult' \in {None, Threw}
  BY DEF ReadHeader
<1>2. readResult' < HeaderSize
  BY <1>1 DEF HeaderSize, None, Threw
<1> QED
  BY <1>2, ReadHeaderTypes, SmallResult

LEMMA ReadHeaderShortWhole ==
  ASSUME TypeOK, ReadHeaderShort
  PROVE  WholeOrTold'
<1>1. PICK k \in 0 .. Len(stream) : Short(k, HeaderSize) /\ readResult' \in {k, Error}
  BY DEF ReadHeaderShort
<1>2. k \in Nat /\ k < HeaderSize
  BY <1>1, LenProperties DEF Short, TypeOK
<1>3. readResult' < HeaderSize
  BY <1>1, <1>2 DEF HeaderSize, Error
<1> QED
  BY <1>3, ReadHeaderShortType, SmallResult

LEMMA NextInv ==
  ASSUME IInv, [Next]_vars
  PROVE  IInv'
<1>0. TypeOK /\ InOrder /\ WholeOrTold
  BY DEF IInv
<1>1. ASSUME NEW m \in Messages, Write(m)
      PROVE  IInv'
  <2>1. message' = message /\ readResult' = readResult
    BY <1>1 DEF Write, readerVars
  <2> QED
    BY <1>0, <1>1, <2>1, WriteType, WriteInOrder, KeepWhole DEF IInv
<1>2. CASE WriteHeader
  <2>1. message' = message /\ readResult' = readResult
    BY <1>2 DEF WriteHeader, readerVars
  <2> QED
    BY <1>0, <1>2, <2>1, WriteHeaderType, WriteHeaderInOrder, KeepWhole DEF IInv
<1>3. CASE WriteData
  <2>1. message' = message /\ readResult' = readResult
    BY <1>3 DEF WriteData, readerVars
  <2> QED
    BY <1>0, <1>3, <2>1, WriteDataType, WriteDataInOrder, KeepWhole DEF IInv
<1>4. CASE ReadHeader
  BY <1>0, <1>4, ReadHeaderTypes, ReadHeaderInOrder, ReadHeaderWhole DEF IInv
<1>5. CASE ReadHeaderShort
  BY <1>0, <1>5, ReadHeaderShortType, ReadHeaderShortInOrder, ReadHeaderShortWhole DEF IInv
<1>6. CASE ReadData
  BY <1>0, <1>6, ReadDataType, ReadDataInOrder, ReadDataWhole DEF IInv
<1>7. CASE ReadDataShort
  BY <1>0, <1>7, ReadDataShortOK, ReadDataShortInOrder DEF IInv
<1>8. CASE UNCHANGED vars
  <2>1. /\ stream' = stream /\ writer' = writer /\ writing' = writing
        /\ writeResult' = writeResult /\ reader' = reader /\ message' = message
        /\ readResult' = readResult /\ writes' = writes /\ faults' = faults
        /\ told' = told /\ sent' = sent /\ delivered' = delivered
    BY <1>8 DEF vars
  <2>2. TypeOK'
    BY <1>0, <2>1 DEF TypeOK
  <2>3. Missing' = Missing /\ Begin' = Begin
    BY <2>1 DEF Missing, Begin
  <2>4. InOrder'
    BY <1>0, <2>1, <2>3 DEF InOrder, Agree
  <2> QED
    BY <1>0, <2>1, <2>2, <2>4, KeepWhole DEF IInv
<1> QED
  BY <1>1, <1>2, <1>3, <1>4, <1>5, <1>6, <1>7, <1>8 DEF Next

LEMMA InitInv ==
  ASSUME Init
  PROVE  IInv
<1>1. readResult < HeaderSize
  BY DEF Init, None, HeaderSize
<1>2. WholeOrTold
  BY <1>1 DEF WholeOrTold, Init, None, HeaderSize
<1> QED
  BY <1>2, InitType, InitInOrder DEF IInv

LEMMA Invariance == Spec => []IInv
BY InitInv, NextInv, PTL DEF Spec

-----------------------------------------------------------------------------
(* Every variable keeps its type; in particular the messages read returns, *)
(* until a transfer breaks off, are messages of the writing end, whatever  *)
(* their headers and data. *)
THEOREM TypeCorrect == Spec => []TypeOK
<1>1. IInv => TypeOK
  BY DEF IInv
<1> QED
  BY <1>1, Invariance, PTL

(* Connection::read: with a result that is the message's whole length the  *)
(* data is whole, for all messages and any number of transfers that fall   *)
(* short anywhere. *)
THEOREM WholeMessages == Spec => []WholeOrTold
<1>1. IInv => WholeOrTold
  BY DEF IInv
<1> QED
  BY <1>1, Invariance, PTL

LEMMA ReadDataImplements ==
  ASSUME IInv, ReadData
  PROVE  [Channel!Next]_(Channel!vars)
<1>1. /\ delivered' = IF told THEN delivered ELSE Append(delivered, message')
      /\ sent' = sent /\ told' = told
  BY DEF ReadData, writerVars
<1>2. CASE told
  BY <1>1, <1>2 DEF Channel!vars
<1>3. CASE ~told
  <2>1. Len(delivered) < Len(sent) /\ message' = sent[Len(delivered) + 1]
    BY <1>3, ReadDataDelivers DEF IInv
  <2> QED
    BY <1>1, <1>3, <2>1 DEF Channel!Next, Channel!Deliver
<1> QED
  BY <1>2, <1>3

LEMMA StepImplements ==
  ASSUME IInv, [Next]_vars
  PROVE  [Channel!Next]_(Channel!vars)
<1>0. told \in BOOLEAN
  BY DEF IInv, TypeOK
<1>1. ASSUME NEW m \in Messages, Write(m)
      PROVE  [Channel!Next]_(Channel!vars)
  <2>1. /\ delivered' = delivered /\ told' = told
        /\ \/ sent' = sent
           \/ ~told /\ sent' = Append(sent, m)
    BY <1>1 DEF Write, readerVars
  <2> QED
    BY <2>1 DEF Channel!Next, Channel!Send, Channel!vars
<1>2. ASSUME sent' = sent, delivered' = delivered, told' = told \/ told' = TRUE
      PROVE  [Channel!Next]_(Channel!vars)
  BY <1>0, <1>2 DEF Channel!Next, Channel!Fail, Channel!vars
<1>3. CASE WriteHeader
  BY <1>2, <1>3 DEF WriteHeader, readerVars
<1>4. CASE WriteData
  BY <1>2, <1>4 DEF WriteData, readerVars
<1>5. CASE ReadHeader
  BY <1>2, <1>5 DEF ReadHeader, writerVars
<1>6. CASE ReadHeaderShort
  <2>1. PICK k \in 0 .. Len(stream) : told' = (told \/ k > 0)
    BY <1>6 DEF ReadHeaderShort
  <2>2. told' = told \/ told' = TRUE
    BY <1>0, <2>1
  <2> QED
    BY <1>2, <1>6, <2>2 DEF ReadHeaderShort, writerVars
<1>7. CASE ReadData
  BY <1>7, ReadDataImplements
<1>8. CASE ReadDataShort
  BY <1>2, <1>8 DEF ReadDataShort, writerVars
<1>9. CASE UNCHANGED vars
  BY <1>2, <1>9 DEF vars
<1> QED
  BY <1>1, <1>3, <1>4, <1>5, <1>6, <1>7, <1>8, <1>9 DEF Next

(* A Connection implements the channel: what read returns is what write    *)
(* has accepted, once, in order and unchanged, until a transfer breaks     *)
(* off, whatever the messages look like and however the ends take turns.   *)
THEOREM ImplementsMessageChannel == Spec => Channel!Spec
<1>1. Init => Channel!Init
  BY DEF Init, Channel!Init
<1> QED
  BY <1>1, Invariance, StepImplements, PTL DEF Spec, Channel!Spec
=============================================================================
