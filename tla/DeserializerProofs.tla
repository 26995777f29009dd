-------------------------- MODULE DeserializerProofs --------------------------
(***************************************************************************)
(* Proofs about Deserializer, for every set of types and any bytes.        *)
(***************************************************************************)
EXTENDS Deserializer, DataLemmas

-----------------------------------------------------------------------------
(* Carets.  One without an error may lie behind the end of its data, after *)
(* skipElement, but not before its beginning. *)

Sound(c) == c \in CaretState /\ (~c.error => c.pos >= 0)

(* A caret d that a method leaves when it was given c. *)
From(c, d) == Sound(d) /\ d.data = c.data

LEMMA SoundParts ==
  ASSUME NEW c, Sound(c)
  PROVE  /\ c.data \in Seq(BsonByte) /\ Len(c.data) \in Nat /\ c.pos \in Int
         /\ c.error \in BOOLEAN /\ Left(c) \in Int /\ Left(c) = Len(c.data) - c.pos
         /\ DataSize(c) = Len(c.data)
BY LenProperties DEF Sound, CaretState, Left, DataSize

LEMMA SetErrorFrom ==
  ASSUME NEW c, c \in CaretState
  PROVE  /\ From(c, SetError(c)) /\ SetError(c).error /\ SetError(c).pos = c.pos
         /\ SetError(c) \in CaretState
BY DEF From, Sound, CaretState, SetError

LEMMA IncFrom ==
  ASSUME NEW c, c \in CaretState, NEW n \in Int, c.error \/ (c.pos >= 0 /\ n >= 0)
  PROVE  /\ From(c, Inc(c, n)) /\ Inc(c, n).error = c.error /\ Inc(c, n).pos = c.pos + n
<1>1. Inc(c, n) = [c EXCEPT !.pos = c.pos + n]
  BY DEF Inc
<1>2. /\ c.pos + n \in Int /\ c.pos \in Int
  BY DEF CaretState
<1>3. /\ Inc(c, n) \in CaretState /\ Inc(c, n).pos = c.pos + n
      /\ Inc(c, n).error = c.error /\ Inc(c, n).data = c.data
  BY <1>1, <1>2 DEF CaretState
<1>4. ~c.error => c.pos + n >= 0
  BY <1>2
<1> QED
  BY <1>3, <1>4 DEF From, Sound

LEMMA WithinSound ==
  ASSUME NEW c, Within(c)
  PROVE  Sound(c) /\ c \in CaretState /\ c.pos \in Nat /\ Left(c) \in Nat
BY LeftType DEF Within, CaretType, CaretState, Sound

LEMMA SoundWithin ==
  ASSUME NEW c, Sound(c), ~c.error, c.pos <= DataSize(c)
  PROVE  Within(c)
BY DEF Within, CaretType, CaretState, Sound

LEMMA FromTrans ==
  ASSUME NEW c, NEW d, NEW e, From(c, d), From(d, e)
  PROVE  From(c, e)
BY DEF From

LEMMA CaretWithin ==
  ASSUME NEW s \in Seq(BsonByte)
  PROVE  Within(Caret(s)) /\ ~Caret(s).error /\ Caret(s).data = s
         /\ Caret(s).pos = 0 /\ Left(Caret(s)) = Len(s)
BY LenProperties DEF Within, CaretType, Caret, DataSize, Left

LEMMA Int32From ==
  ASSUME NEW c, Within(c), NEW r, r = ReadInt32(c)
  PROVE  /\ r.value \in Int /\ Within(r.caret) /\ From(c, r.caret)
         /\ Left(r.caret) \in Nat
         /\ Left(c) < 4 => r.value = 0 /\ r.caret = SetError(c)
         /\ Left(c) >= 4 => r.caret = Inc(c, 4) /\ Left(r.caret) = Left(c) - 4
<1>1. /\ r.value \in Int /\ Within(r.caret)
      /\ Left(c) >= 4 => r.caret = Inc(c, 4) /\ Left(r.caret) = Left(c) - 4
      /\ Left(c) < 4  => r.value = 0 /\ r.caret = SetError(c)
  BY ReadInt32Type
<1>2. Left(c) \in Nat /\ c \in CaretState /\ c.pos >= 0 /\ Sound(r.caret)
      /\ Left(r.caret) \in Nat
  BY <1>1, WithinSound
<1>3. r.caret.data = c.data
  BY <1>1, <1>2, SetErrorFrom, IncFrom DEF From
<1> QED
  BY <1>1, <1>2, <1>3 DEF From

LEMMA ReadErrorFrom ==
  ASSUME NEW c, NEW d, From(c, d)
  PROVE  /\ From(c, ReadError(d).caret) /\ ReadError(d).caret.error
         /\ ReadError(d).caret = SetError(d)
<1>1. ReadError(d).caret = SetError(d)
  BY DEF ReadError, Read
<1>2. d \in CaretState
  BY DEF From, Sound
<1> QED
  BY <1>1, <1>2, SetErrorFrom, FromTrans

(* Reading values: the caret that is left is one on the same data.         *)
LEMMA ReadFixedFrom ==
  ASSUME NEW c, Within(c), NEW class
  PROVE  From(c, ReadFixed(class, c).caret)
<1> DEFINE n == ScalarWidth(ScalarCode[class])
           b == CurrBytes(c, n)
<1>1. n \in Nat
  BY DEF ScalarWidth
<1>2. Sound(c) /\ c \in CaretState /\ c.pos >= 0 /\ From(c, c)
  BY WithinSound DEF From
<1>3. From(c, Inc(c, n))
  <2> HIDE DEF n
  <2> QED
    BY <1>1, <1>2, IncFrom
<1>4. From(c, ReadError(c).caret) /\ From(c, ReadError(Inc(c, n)).caret)
  BY <1>2, <1>3, ReadErrorFrom
<1>5. \/ ReadFixed(class, c) = ReadError(c)
      \/ ReadFixed(class, c) = ReadError(Inc(c, n))
      \/ ReadFixed(class, c) = Read(Value(class, b, <<>>), Inc(c, n))
  BY Zenon DEF ReadFixed
<1> HIDE DEF n, b
<1>6. Read(Value(class, b, <<>>), Inc(c, n)).caret = Inc(c, n)
  BY DEF Read
<1> QED
  BY <1>3, <1>4, <1>5, <1>6

LEMMA ReadStringFrom ==
  ASSUME NEW c, Within(c)
  PROVE  From(c, ReadString(c).caret)
<1> DEFINE size == ReadInt32(c)
           v == Value("String", CurrBytes(size.caret, size.value - 1), <<>>)
<1>1. /\ size.value \in Int /\ Within(size.caret) /\ From(c, size.caret)
  BY Int32From
<1>2. ReadString(c) = IF size.value > Left(size.caret) \/ size.value < 1
                      THEN ReadError(size.caret)
                      ELSE Read(v, Inc(size.caret, size.value))
  BY DEF ReadString
<1> HIDE DEF size, v
<1>3. CASE size.value > Left(size.caret) \/ size.value < 1
  BY <1>1, <1>2, <1>3, ReadErrorFrom
<1>4. CASE ~(size.value > Left(size.caret) \/ size.value < 1)
  <2>1. From(size.caret, Inc(size.caret, size.value))
    <3>1. size.value >= 0
      BY <1>1, <1>4
    <3> QED
      BY <1>1, <3>1, IncFrom, WithinSound
  <2>2. ReadString(c).caret = Inc(size.caret, size.value)
    BY <1>2, <1>4 DEF Read
  <2> QED
    BY <1>1, <2>1, <2>2, FromTrans
<1> QED
  BY <1>3, <1>4

LEMMA ReadScalarFrom ==
  ASSUME NEW c, Within(c), NEW class, NEW code
  PROVE  From(c, ReadScalar(class, c, code).caret)
<1>1. \/ ReadScalar(class, c, code) = Read(NullOf(class), c)
      \/ ReadScalar(class, c, code) = ReadError(c)
      \/ ReadScalar(class, c, code) = ReadString(c)
      \/ ReadScalar(class, c, code) = ReadFixed(class, c)
  BY DEF ReadScalar
<1>2. From(c, c)
  BY WithinSound DEF From
<1>3. Read(NullOf(class), c).caret = c
  BY DEF Read
<1> QED
  BY <1>1, <1>2, <1>3, ReadErrorFrom, ReadStringFrom, ReadFixedFrom

LEMMA ReadInlineFrom ==
  ASSUME NEW c, Within(c), NEW class, NEW code
  PROVE  From(c, ReadInline(class, c, code).caret)
<1> DEFINE size == ReadInt32(c)
           v == Value(IF code = DOCUMENT_ARRAY THEN "InlineArray" ELSE "InlineDocument",
                      CurrBytes(c, size.value), <<>>)
<1>1. /\ size.value \in Int /\ From(c, size.caret) /\ From(c, c)
      /\ c \in CaretState /\ c.pos >= 0
  BY Int32From, WithinSound DEF From
<1>2. \/ ReadInline(class, c, code) = Read(NullOf(class), c)
      \/ ReadInline(class, c, code) = ReadError(c)
      \/ ReadInline(class, c, code) = ReadError(size.caret)
      \/ /\ ~(size.value < 5)
         /\ ReadInline(class, c, code) = Read(v, Inc(c, size.value))
  BY Zenon DEF ReadInline
<1> HIDE DEF size, v
<1>3. Read(NullOf(class), c).caret = c /\ Read(v, Inc(c, size.value)).caret = Inc(c, size.value)
  BY DEF Read
<1>4. ~(size.value < 5) => From(c, Inc(c, size.value))
  <2> SUFFICES ASSUME ~(size.value < 5) PROVE From(c, Inc(c, size.value))
    OBVIOUS
  <2>1. size.value >= 0
    BY <1>1
  <2> QED
    BY <1>1, <2>1, IncFrom
<1> QED
  BY <1>1, <1>2, <1>3, <1>4, ReadErrorFrom

(* No scalar and no inline document is read at the root of a document.     *)
LEMMA ReadScalarRoot ==
  ASSUME NEW c, NEW class \in ScalarClass
  PROVE  ReadScalar(class, c, DOCUMENT_ROOT) = ReadError(c)
<1>1. ScalarCode[class] # DOCUMENT_ROOT /\ DOCUMENT_ROOT # NULL_VALUE
  BY DEF ScalarClass, ScalarCode, DOCUMENT_ROOT, NULL_VALUE, STRING_CODE, INT_32, INT_64,
         TIMESTAMP, DOUBLE, BOOLEAN_CODE, OBJECT_ID, DATE_TIME
<1> QED
  BY <1>1 DEF ReadScalar

LEMMA ReadInlineRoot ==
  ASSUME NEW c, NEW class
  PROVE  ReadInline(class, c, DOCUMENT_ROOT) = ReadError(c)
<1>1. /\ DOCUMENT_ROOT # NULL_VALUE
      /\ DOCUMENT_ROOT \notin {DOCUMENT_EMBEDDED, DOCUMENT_ARRAY}
  BY DEF DOCUMENT_ROOT, NULL_VALUE, DOCUMENT_EMBEDDED, DOCUMENT_ARRAY
<1> QED
  BY <1>1 DEF ReadInline

-----------------------------------------------------------------------------
(* Elements. *)

LEMMA ReadKeyFrom ==
  ASSUME NEW c, Within(c), ~c.error, Left(c) > 1
  PROVE  /\ ReadKey(c).code \in BsonByte /\ ReadKey(c).key \in Seq(BsonByte)
         /\ From(c, ReadKey(c).caret)
         /\ ~ReadKey(c).caret.error => Within(ReadKey(c).caret)
<1> DEFINE start == Inc(c, 1)
           n     == NulOffset(start)
           end   == Inc(start, n)
<1>1. ReadKey(c) = [ code  |-> CurrByte(c), key |-> CurrBytes(start, n),
                     caret |-> IF CanContinue(end) THEN Inc(end, 1) ELSE SetError(end) ]
  BY DEF ReadKey
<1>2. CurrByte(c) \in BsonByte
  <2>1. c.data \in Seq(BsonByte) /\ c.pos + 1 \in 1 .. Len(c.data)
    BY WithinSound, SoundParts
  <2> QED
    BY <2>1, ElementOfSeq DEF CurrByte
<1>3. Within(start) /\ start.data = c.data /\ ~start.error
  BY IncType, WithinSound
<1> HIDE DEF start
<1>4. n \in Nat /\ n <= Left(start)
  BY <1>3, NulOffsetType
<1> HIDE DEF n
<1>5. CurrBytes(start, n) \in Seq(BsonByte)
  BY <1>3, <1>4, CurrBytesType
<1>6. Within(end) /\ end.data = c.data /\ ~end.error
  BY <1>3, <1>4, IncType
<1> HIDE DEF end
<1>7. ASSUME CanContinue(end)
      PROVE  Within(Inc(end, 1)) /\ Inc(end, 1).data = c.data
  <2>1. 1 <= Left(end)
    BY <1>6, <1>7, WithinSound, SoundParts DEF CanContinue
  <2> QED
    BY <1>6, <2>1, IncType
<1>8. From(c, SetError(end)) /\ SetError(end).error
  <2>1. end \in CaretState
    BY <1>6, WithinSound
  <2> QED
    BY <1>6, <2>1, SetErrorFrom DEF From
<1>9. CanContinue(end) => From(c, Inc(end, 1)) /\ Within(Inc(end, 1))
  BY <1>7, WithinSound DEF From
<1> QED
  BY <1>1, <1>2, <1>5, <1>8, <1>9

LEMMA SkipSizedFrom ==
  ASSUME NEW c, Within(c), NEW additional \in Int
  PROVE  From(c, SkipSizedElement(c, additional))
<1> DEFINE size == ReadInt32(c)
           n    == size.value + additional
           bad  == n > Left(size.caret) \/ n < 0
           d    == IF bad THEN SetError(size.caret) ELSE size.caret
<1>1. size.value \in Int /\ Within(size.caret) /\ From(c, size.caret)
  BY Int32From
<1>2. SkipSizedElement(c, additional) = Inc(d, n)
  BY DEF SkipSizedElement
<1> HIDE DEF size
<1>3. n \in Int /\ size.caret \in CaretState /\ size.caret.pos >= 0
  BY <1>1, WithinSound
<1> HIDE DEF n
<1>4. From(size.caret, d) /\ d \in CaretState /\ (d.error \/ (d.pos >= 0 /\ n >= 0))
  <2>1. CASE bad
    BY <1>3, <2>1, SetErrorFrom
  <2>2. CASE ~bad
    BY <1>1, <1>3, <2>2 DEF From
  <2> QED
    BY <2>1, <2>2
<1> HIDE DEF d
<1>5. From(d, Inc(d, n))
  BY <1>3, <1>4, IncFrom
<1> QED
  BY <1>1, <1>2, <1>4, <1>5, FromTrans

LEMMA SkipCStringFrom ==
  ASSUME NEW c, Within(c)
  PROVE  Within(SkipCString(c)) /\ From(c, SkipCString(c))
<1> DEFINE n == NulOffset(c)
           found == Inc(c, n)
<1>1. n \in Nat /\ n <= Left(c)
  BY NulOffsetType
<1> HIDE DEF n
<1>2. Within(found) /\ found.data = c.data
  BY <1>1, IncType
<1>3. SkipCString(c) = IF AtChar(found, 0) THEN Inc(found, 1) ELSE SetError(found)
  BY DEF SkipCString, n
<1> HIDE DEF found
<1>4. CASE AtChar(found, 0)
  <2>1. Left(found) >= 1
    BY <1>2, <1>4, AtCharLeft
  <2>2. Within(Inc(found, 1)) /\ Inc(found, 1).data = found.data
    BY <1>2, <2>1, IncType, WithinSound
  <2> QED
    BY <1>2, <1>3, <1>4, <2>2, WithinSound DEF From
<1>5. CASE ~AtChar(found, 0)
  <2>1. Within(SetError(found)) /\ From(found, SetError(found))
    BY <1>2, SetErrorType, SetErrorFrom, WithinSound
  <2> QED
    BY <1>2, <1>3, <1>5, <2>1 DEF From
<1> QED
  BY <1>4, <1>5

LEMMA SkipFrom ==
  ASSUME NEW c, Within(c), NEW code \in BsonByte
  PROVE  From(c, SkipElement(c, code))
<1>1. c \in CaretState /\ c.pos >= 0 /\ From(c, c)
  BY WithinSound DEF From
<1>2. \/ /\ FixedWidth(code) >= 0
         /\ SkipElement(c, code) = Inc(c, FixedWidth(code))
      \/ SkipElement(c, code) = SkipSizedElement(c, AdditionalBytes(code))
      \/ SkipElement(c, code) = SkipCString(SkipCString(c))
      \/ SkipElement(c, code) = SetError(c)
  BY DEF SkipElement
<1>3. FixedWidth(code) \in Int /\ AdditionalBytes(code) \in Int
  BY DEF FixedWidth, AdditionalBytes
<1>4. FixedWidth(code) >= 0 => From(c, Inc(c, FixedWidth(code)))
  BY <1>1, <1>3, IncFrom
<1>5. From(c, SkipSizedElement(c, AdditionalBytes(code)))
  BY <1>3, SkipSizedFrom
<1>6. From(c, SkipCString(SkipCString(c)))
  <2>1. Within(SkipCString(c)) /\ From(c, SkipCString(c))
    BY SkipCStringFrom
  <2>2. From(SkipCString(c), SkipCString(SkipCString(c)))
    BY <2>1, SkipCStringFrom
  <2> QED
    BY <2>1, <2>2, FromTrans
<1>7. From(c, SetError(c))
  BY <1>1, SetErrorFrom
<1> QED
  BY <1>2, <1>4, <1>5, <1>6, <1>7

LEMMA IncState ==
  ASSUME NEW c, c \in CaretState, NEW n \in Int
  PROVE  Inc(c, n) \in CaretState /\ Inc(c, n).data = c.data
         /\ Inc(c, n).pos = c.pos + n /\ Inc(c, n).error = c.error
<1>1. Inc(c, n) = [c EXCEPT !.pos = c.pos + n]
  BY DEF Inc
<1>2. c.pos + n \in Int
  BY DEF CaretState
<1> QED
  BY <1>1, <1>2 DEF CaretState

LEMMA SizedReach ==
  ASSUME NEW c, Within(c), NEW additional \in Int,
         NEW e, e = SkipSizedElement(c, additional), ~e.error
  PROVE  e.pos <= Len(c.data)
<1> DEFINE size == ReadInt32(c)
           d    == size.caret
           n    == size.value + additional
           bad  == n > Left(d) \/ n < 0
<1>1. size.value \in Int /\ Within(d) /\ From(c, d)
  BY Int32From
<1>2. e = Inc(IF bad THEN SetError(d) ELSE d, n)
  BY DEF SkipSizedElement
<1>3. n \in Int
  BY <1>1
<1> HIDE DEF size, n
<1>4. d \in CaretState /\ Left(d) = Len(c.data) - d.pos /\ Len(c.data) \in Int /\ d.pos \in Int
  BY <1>1, SoundParts, WithinSound DEF From
<1>5. ~bad
  <2> SUFFICES ASSUME bad PROVE FALSE
    OBVIOUS
  <2>1. e = Inc(SetError(d), n)
    BY <1>2
  <2>2. SetError(d) \in CaretState /\ SetError(d).error
    BY <1>4, SetErrorFrom
  <2> QED
    BY <1>3, <2>1, <2>2, IncState
<1>6. e.pos = d.pos + n
  BY <1>2, <1>3, <1>4, <1>5, IncState
<1> QED
  BY <1>3, <1>4, <1>5, <1>6

(* How far skipElement goes beyond the end without an error. *)
LEMMA SkipReach ==
  ASSUME NEW c, Within(c), NEW code \in BsonByte,
         NEW e, e = SkipElement(c, code), ~e.error
  PROVE  e.pos <= Len(c.data) + 16
<1>1. c \in CaretState /\ c.pos \in Int /\ c.pos <= Len(c.data) /\ Len(c.data) \in Int
  BY WithinSound, SoundParts
<1>2. \/ FixedWidth(code) >= 0 /\ e = Inc(c, FixedWidth(code))
      \/ e = SkipSizedElement(c, AdditionalBytes(code))
      \/ e = SkipCString(SkipCString(c))
      \/ e = SetError(c)
  BY DEF SkipElement
<1>3. /\ FixedWidth(code) \in Int /\ FixedWidth(code) <= 16
      /\ AdditionalBytes(code) \in Int
  BY DEF FixedWidth, AdditionalBytes
<1>4. CASE e = Inc(c, FixedWidth(code))
  <2>1. e.pos = c.pos + FixedWidth(code)
    BY <1>1, <1>3, <1>4, IncState
  <2> QED
    BY <1>1, <1>3, <2>1
<1>5. CASE e = SkipSizedElement(c, AdditionalBytes(code))
  <2>1. e.pos <= Len(c.data) /\ From(c, e)
    BY <1>3, <1>5, SizedReach, SkipSizedFrom
  <2> QED
    BY <1>1, <2>1, SoundParts DEF From
<1>6. CASE e = SkipCString(SkipCString(c))
  <2>1. Within(SkipCString(c)) /\ From(c, SkipCString(c))
    BY SkipCStringFrom
  <2>2. Within(e) /\ From(SkipCString(c), e)
    BY <1>6, <2>1, SkipCStringFrom
  <2>3. e.data = c.data
    BY <2>1, <2>2 DEF From
  <2>4. e.pos <= Len(c.data) /\ e.pos \in Int
    BY <2>2, <2>3, WithinSound, SoundParts
  <2> QED
    BY <1>1, <2>4
<1>7. CASE e = SetError(c)
  BY <1>1, <1>7, SetErrorFrom
<1> QED
  BY <1>2, <1>4, <1>5, <1>6, <1>7

-----------------------------------------------------------------------------
(* Frames and stacks.  Values are of any kind: items and wraps have no     *)
(* type here. *)

IsPolymorph(t, key) ==
  /\ \E i \in DOMAIN Fields(t) : Fields(t)[i].name = key
  /\ FieldOf(t, key).select # "none"

IsFrame(f) ==
  /\ f = [ type |-> f.type, wraps |-> f.wraps, inner |-> f.inner, index |-> f.index,
           key |-> f.key, items |-> f.items, polymorphs |-> f.polymorphs ]
  /\ f.type \in Types \cup {"none"} /\ Sound(f.inner)
  /\ f.index \in Nat /\ f.key \in Seq(BsonByte)
  /\ f.polymorphs \in Seq(PolymorphData)
  /\ \A i \in DOMAIN f.polymorphs :
       f.type # "none" /\ IsPolymorph(f.type, f.polymorphs[i].key)

IsStack(s) == \E S : s \in Seq(S) /\ \A f \in S : IsFrame(f)

LEMMA EmptyStack == IsStack(<<>>)
<1> DEFINE S == {}
<1>1. <<>> \in Seq(S) /\ \A f \in S : IsFrame(f)
  OBVIOUS
<1> HIDE DEF S
<1> QED
  BY <1>1 DEF IsStack

LEMMA StackParts ==
  ASSUME NEW s, IsStack(s)
  PROVE  /\ Len(s) \in Nat /\ DOMAIN s = 1 .. Len(s)
         /\ \A i \in 1 .. Len(s) : IsFrame(s[i])
         /\ (s = <<>>) <=> (Len(s) = 0)
<1>1. PICK S : s \in Seq(S) /\ \A f \in S : IsFrame(f)
  BY DEF IsStack
<1>2. Len(s) \in Nat /\ DOMAIN s = 1 .. Len(s)
  BY <1>1, LenProperties
<1>3. \A i \in 1 .. Len(s) : s[i] \in S
  BY <1>1, ElementOfSeq
<1>4. (s = <<>>) <=> (Len(s) = 0)
  BY <1>1, EmptySeq
<1> QED
  BY <1>1, <1>2, <1>3, <1>4

LEMMA PushStack ==
  ASSUME NEW s, IsStack(s), NEW f, IsFrame(f)
  PROVE  /\ IsStack(Append(s, f)) /\ Len(Append(s, f)) = Len(s) + 1
         /\ \A i \in 1 .. Len(s) : Append(s, f)[i] = s[i]
         /\ Append(s, f)[Len(s) + 1] = f
<1>1. PICK S : s \in Seq(S) /\ \A g \in S : IsFrame(g)
  BY DEF IsStack
<1> DEFINE T == S \cup {f}
<1>2. s \in Seq(T) /\ f \in T /\ \A g \in T : IsFrame(g)
  <2>1. S \subseteq T
    OBVIOUS
  <2> QED
    BY <1>1, <2>1, SeqMonotonic
<1> HIDE DEF T
<1>3. /\ Append(s, f) \in Seq(T) /\ Len(Append(s, f)) = Len(s) + 1
      /\ \A i \in 1 .. Len(s) : Append(s, f)[i] = s[i]
      /\ Append(s, f)[Len(s) + 1] = f
  BY <1>2, AppendProperties
<1> QED
  BY <1>2, <1>3 DEF IsStack

LEMMA PopStack ==
  ASSUME NEW s, IsStack(s), s # <<>>
  PROVE  /\ IsStack(Below(s)) /\ Len(Below(s)) = Len(s) - 1
         /\ \A i \in 1 .. Len(s) - 1 : Below(s)[i] = s[i]
<1>1. PICK S : s \in Seq(S) /\ \A g \in S : IsFrame(g)
  BY DEF IsStack
<1>2. Len(s) \in Nat /\ Len(s) >= 1
  BY StackParts
<1>3. \A i \in 1 .. Len(s) - 1 : s[i] \in S
  BY <1>1, <1>2, ElementOfSeq
<1>4. /\ SubSeq(s, 1, Len(s) - 1) \in Seq(S)
      /\ Len(SubSeq(s, 1, Len(s) - 1)) = IF 1 <= Len(s) - 1 THEN (Len(s) - 1) - 1 + 1 ELSE 0
      /\ \A i \in 1 .. (Len(s) - 1) - 1 + 1 : SubSeq(s, 1, Len(s) - 1)[i] = s[1 + i - 1]
  <2>1. 1 \in Int /\ Len(s) - 1 \in Int
    BY <1>2
  <2> QED
    BY <1>3, <2>1, SubSeqProperties
<1>5. Len(SubSeq(s, 1, Len(s) - 1)) = Len(s) - 1
  <2>1. \A n \in Nat : n >= 1 =>
          (IF 1 <= n - 1 THEN (n - 1) - 1 + 1 ELSE 0) = n - 1
    OBVIOUS
  <2>2. (IF 1 <= Len(s) - 1 THEN (Len(s) - 1) - 1 + 1 ELSE 0) = Len(s) - 1
    BY <1>2, <2>1, Zenon
  <2> QED
    BY <1>4, <2>2
<1>6. ASSUME NEW i \in 1 .. Len(s) - 1
      PROVE  SubSeq(s, 1, Len(s) - 1)[i] = s[i]
  <2>1. i \in 1 .. (Len(s) - 1) - 1 + 1 /\ 1 + i - 1 = i
    BY <1>2
  <2> QED
    BY <1>4, <2>1
<1> QED
  BY <1>1, <1>4, <1>5, <1>6 DEF IsStack, Below

LEMMA PutStack ==
  ASSUME NEW s, IsStack(s), s # <<>>, NEW f, IsFrame(f)
  PROVE  /\ IsStack([s EXCEPT ![Len(s)] = f]) /\ Len([s EXCEPT ![Len(s)] = f]) = Len(s)
         /\ \A i \in 1 .. Len(s) - 1 : [s EXCEPT ![Len(s)] = f][i] = s[i]
         /\ [s EXCEPT ![Len(s)] = f][Len(s)] = f
<1>1. PICK S : s \in Seq(S) /\ \A g \in S : IsFrame(g)
  BY DEF IsStack
<1>2. Len(s) \in Nat /\ Len(s) >= 1
  BY StackParts
<1> DEFINE T == S \cup {f}
           n == Len(s)
           t == [s EXCEPT ![n] = f]
<1>3. s \in Seq(T) /\ f \in T /\ \A g \in T : IsFrame(g)
  <2>1. S \subseteq T
    OBVIOUS
  <2> QED
    BY <1>1, <2>1, SeqMonotonic
<1>4. n \in 1 .. Len(s)
  BY <1>2
<1> HIDE DEF T
<1>5. /\ t \in Seq(T) /\ Len(t) = Len(s)
      /\ \A j \in 1 .. Len(s) : t[j] = IF j = n THEN f ELSE s[j]
  <2> HIDE DEF n
  <2> QED
    BY <1>3, <1>4, ExceptSeq
<1>6. ASSUME NEW i \in 1 .. Len(s) - 1
      PROVE  t[i] = s[i]
  <2>1. \A m \in Nat : \A j \in 1 .. m - 1 : j \in 1 .. m /\ j # m
    OBVIOUS
  <2>2. i \in 1 .. Len(s) /\ i # n
    BY <1>2, <2>1, Zenon
  <2> HIDE DEF t
  <2> QED
    BY <1>5, <2>2, Zenon
<1>7. t[n] = f
  BY <1>4, <1>5
<1> QED
  BY <1>3, <1>5, <1>6, <1>7 DEF IsStack

(* Stacks that differ in the innermost frame, and in its caret.            *)
PutOn(s, f, t)   == t = [s EXCEPT ![Len(s)] = f]
MoveOn(s, c, t)  == t = [s EXCEPT ![Len(s)].inner = c]
PushOn(s, f, t)  == t = Append(s, f)

(* The innermost frame of what is left. *)
LEMMA PutTop ==
  ASSUME NEW s, IsStack(s), s # <<>>, NEW f, IsFrame(f),
         NEW t, PutOn(s, f, t)
  PROVE  IsStack(t) /\ t # <<>> /\ Len(t) = Len(s) /\ t[Len(t)] = f
<1>1. IsStack(t) /\ Len(t) = Len(s) /\ t[Len(s)] = f
  BY PutStack DEF PutOn
<1>2. Len(s) # 0
  BY StackParts
<1>3. t # <<>>
  BY <1>1, <1>2, StackParts
<1> QED
  BY <1>1, <1>3

LEMMA PushTop ==
  ASSUME NEW s, IsStack(s), NEW f, IsFrame(f), NEW t, PushOn(s, f, t)
  PROVE  IsStack(t) /\ t # <<>> /\ Len(t) = Len(s) + 1 /\ t[Len(t)] = f
<1>1. IsStack(t) /\ Len(t) = Len(s) + 1 /\ t[Len(s) + 1] = f /\ Len(s) \in Nat
  BY PushStack, StackParts DEF PushOn
<1>2. t # <<>>
  <2>1. Len(t) # 0
    BY <1>1
  <2> QED
    BY <1>1, <2>1, StackParts
<1> QED
  BY <1>1, <1>2

(* Frames that differ in one component. *)
LEMMA FrameInner ==
  ASSUME NEW f, IsFrame(f), NEW c, Sound(c)
  PROVE  /\ IsFrame([f EXCEPT !.inner = c]) /\ [f EXCEPT !.inner = c].inner = c
         /\ [f EXCEPT !.inner = c].type = f.type
BY DEF IsFrame

LEMMA FrameItems ==
  ASSUME NEW f, IsFrame(f), NEW x
  PROVE  /\ IsFrame([f EXCEPT !.items = x]) /\ [f EXCEPT !.items = x].inner = f.inner
         /\ [f EXCEPT !.items = x].type = f.type /\ [f EXCEPT !.items = x].index = f.index
BY SMTT(30) DEF IsFrame

LEMMA FrameKey ==
  ASSUME NEW f, IsFrame(f), NEW k \in Seq(BsonByte)
  PROVE  /\ IsFrame([f EXCEPT !.key = k]) /\ [f EXCEPT !.key = k].inner = f.inner
         /\ [f EXCEPT !.key = k].type = f.type
BY SMTT(30) DEF IsFrame

LEMMA FrameIndex ==
  ASSUME NEW f, IsFrame(f), NEW n \in Nat
  PROVE  /\ IsFrame([f EXCEPT !.index = n]) /\ [f EXCEPT !.index = n].inner = f.inner
         /\ [f EXCEPT !.index = n].type = f.type
BY SMTT(30) DEF IsFrame

LEMMA FramePolymorphs ==
  ASSUME NEW f, IsFrame(f), NEW q \in Seq(PolymorphData),
         \A i \in DOMAIN q : f.type # "none" /\ IsPolymorph(f.type, q[i].key)
  PROVE  /\ IsFrame([f EXCEPT !.polymorphs = q]) /\ [f EXCEPT !.polymorphs = q].inner = f.inner
         /\ [f EXCEPT !.polymorphs = q].type = f.type
BY DEF IsFrame

(* Two at once. *)
LEMMA ExceptTwo ==
  ASSUME NEW f, NEW x, NEW y
  PROVE  /\ [f EXCEPT !.inner = x, !.key = y] = [[f EXCEPT !.inner = x] EXCEPT !.key = y]
         /\ [f EXCEPT !.inner = x, !.polymorphs = y] =
              [[f EXCEPT !.inner = x] EXCEPT !.polymorphs = y]
         /\ [f EXCEPT !.items = x, !.index = y] = [[f EXCEPT !.items = x] EXCEPT !.index = y]
<1>1. [f EXCEPT !.inner = x, !.key = y] = [[f EXCEPT !.inner = x] EXCEPT !.key = y]
  OBVIOUS
<1>2. [f EXCEPT !.inner = x, !.polymorphs = y] = [[f EXCEPT !.inner = x] EXCEPT !.polymorphs = y]
  OBVIOUS
<1>3. [f EXCEPT !.items = x, !.index = y] = [[f EXCEPT !.items = x] EXCEPT !.index = y]
  OBVIOUS
<1> QED
  BY <1>1, <1>2, <1>3

CallFrom(f, c, k, g) == g = [f EXCEPT !.inner = c, !.key = k]
SkipTo(f, c, q, g)   == g = [f EXCEPT !.inner = c, !.polymorphs = q]

(* g is f with the caret c, whatever else. *)
Moved(f, c, g) == IsFrame(g) /\ g.inner = c /\ g.type = f.type

LEMMA FrameCall ==
  ASSUME NEW f, IsFrame(f), NEW c, Sound(c), NEW k \in Seq(BsonByte),
         NEW g, CallFrom(f, c, k, g)
  PROVE  Moved(f, c, g)
<1> DEFINE h == [f EXCEPT !.inner = c]
<1>1. IsFrame(h) /\ h.inner = c /\ h.type = f.type
  BY FrameInner
<1>2. g = [h EXCEPT !.key = k]
  BY ExceptTwo DEF CallFrom
<1> HIDE DEF h
<1>3. /\ IsFrame([h EXCEPT !.key = k]) /\ [h EXCEPT !.key = k].inner = h.inner
      /\ [h EXCEPT !.key = k].type = h.type
  BY <1>1, FrameKey, Zenon
<1> QED
  BY <1>1, <1>2, <1>3, Zenon DEF Moved

LEMMA FrameSkip ==
  ASSUME NEW f, IsFrame(f), NEW c, Sound(c), NEW q \in Seq(PolymorphData),
         \A i \in DOMAIN q : f.type # "none" /\ IsPolymorph(f.type, q[i].key),
         NEW g, SkipTo(f, c, q, g)
  PROVE  Moved(f, c, g)
<1> DEFINE h == [f EXCEPT !.inner = c]
<1>1. IsFrame(h) /\ h.inner = c /\ h.type = f.type
  BY FrameInner
<1>2. g = [h EXCEPT !.polymorphs = q]
  BY ExceptTwo DEF SkipTo
<1> HIDE DEF h
<1>3. /\ IsFrame([h EXCEPT !.polymorphs = q]) /\ [h EXCEPT !.polymorphs = q].inner = h.inner
      /\ [h EXCEPT !.polymorphs = q].type = h.type
  BY <1>1, FramePolymorphs
<1> QED
  BY <1>1, <1>2, <1>3, Zenon DEF Moved

LEMMA FrameItem ==
  ASSUME NEW f, IsFrame(f), NEW x, NEW g, g = [f EXCEPT !.items = x, !.index = f.index + 1]
  PROVE  IsFrame(g) /\ g.inner = f.inner /\ g.type = f.type
<1> DEFINE h == [f EXCEPT !.items = x]
           n == f.index + 1
<1>1. n \in Nat
  BY DEF IsFrame
<1>2. IsFrame(h) /\ h.inner = f.inner /\ h.type = f.type
  BY FrameItems
<1> HIDE DEF n
<1>3. g = [h EXCEPT !.index = n]
  BY ExceptTwo DEF n
<1> HIDE DEF h
<1>4. /\ IsFrame([h EXCEPT !.index = n]) /\ [h EXCEPT !.index = n].inner = h.inner
      /\ [h EXCEPT !.index = n].type = h.type
  BY <1>1, <1>2, FrameIndex, Zenon
<1> QED
  BY <1>2, <1>3, <1>4, Zenon

-----------------------------------------------------------------------------
(* The inductive invariant. *)

Start(r)  == Caret(r.data)
Extent(r) == ReadInt32(Start(r)).value
Good(r, c) == c.error \/ (c.pos = Extent(r) /\ Left(c) >= 0)

(* The loop of the outermost document is over, and the caller's caret has  *)
(* been moved over it: only the elements set aside are left.               *)
Finishing(s, p) ==
  \/ Len(s) = 1 /\ p = "polymorphs"
  \/ Len(s) >= 2 /\ s[2].type = "none"

(* The outermost frame holds what follows the size field; until the end of *)
(* its document the caller's caret stands behind that field.               *)
Opened(r, s, p, c) ==
  /\ s[1].type # "none"
  /\ 4 <= Extent(r) /\ Extent(r) <= Len(r.data)
  /\ Len(s[1].inner.data) = Extent(r) - 4
  /\ Finishing(s, p) => Good(r, c)
  /\ ~Finishing(s, p) => c = Inc(Start(r), 4)

(* An element set aside is one of the frame below. *)
Layered(s) == \A i \in 2 .. Len(s) : s[i].type = "none" => s[i - 1].type # "none"

RootOK(r, s, p, c) ==
  /\ From(Start(r), c) /\ Layered(s)
  /\ s = <<>> => /\ p = "call" => c = Start(r)
                 /\ p \in {"returned", "done"} => Good(r, c)
  /\ s # <<>> => p # "done" /\ Opened(r, s, p, c)

IsCall(a) ==
  /\ a = [type |-> a.type, code |-> a.code, wraps |-> a.wraps]
  /\ a.type \in Types /\ a.code \in BsonByte

Pcs == {"call", "returned", "iterate", "polymorphs", "done", "threw"}

IInv ==
  /\ config \in [allowUnknownFields : BOOLEAN]
  /\ request \in Requests
  /\ IsCall(call)
  /\ pc \in Pcs
  /\ IsStack(stack)
  /\ pc \in {"iterate", "polymorphs"} => stack # <<>> /\ Top.type # "none"
  /\ pc = "call" => /\ Within(Here) /\ ~Here.error
                    /\ stack = <<>> => call.code = DOCUMENT_ROOT
  /\ RootOK(request, stack, pc, caret)

(* The caret of a method: that of the innermost frame. *)
CaretIn(c, s) == IF s = <<>> THEN c ELSE s[Len(s)].inner

LEMMA Establish ==
  ASSUME IInv, UNCHANGED <<config, request>>, IsCall(call)',
         NEW q \in Pcs, pc' = q,
         NEW STATE t, stack' = t, IsStack(t),
         NEW STATE c, caret' = c, RootOK(request, t, q, c),
         q \in {"iterate", "polymorphs"} => t # <<>> /\ t[Len(t)].type # "none",
         q = "call" => /\ Within(CaretIn(c, t)) /\ ~CaretIn(c, t).error
                       /\ t = <<>> => call'.code = DOCUMENT_ROOT
  PROVE  IInv'
<1>1. config' \in [allowUnknownFields : BOOLEAN] /\ request' \in Requests /\ request' = request
  BY DEF IInv
<1>2. pc' \in Pcs /\ IsStack(stack') /\ RootOK(request', stack', pc', caret')
  BY <1>1
<1>3. pc' \in {"iterate", "polymorphs"} => stack' # <<>> /\ Top'.type # "none"
  BY DEF Top
<1>4. Here' = CaretIn(c, t)
  BY DEF Here, CaretOf, CaretIn
<1>5. pc' = "call" => /\ Within(Here') /\ ~Here'.error
                      /\ stack' = <<>> => call'.code = DOCUMENT_ROOT
  BY <1>4
<1> QED
  BY <1>1, <1>2, <1>3, <1>5 DEF IInv

LEMMA Facts ==
  ASSUME IInv
  PROVE  /\ IsStack(stack) /\ IsCall(call) /\ RootOK(request, stack, pc, caret)
         /\ From(Start(request), caret) /\ caret \in CaretState
         /\ request.data \in Seq(BsonByte) /\ Within(Start(request))
         /\ stack # <<>> => /\ Len(stack) \in Nat /\ Len(stack) >= 1
                            /\ IsFrame(Top) /\ Sound(Top.inner) /\ Top = stack[Len(stack)]
         /\ Sound(Here) /\ Here \in CaretState
<1>1. IsStack(stack) /\ IsCall(call) /\ RootOK(request, stack, pc, caret) /\ request \in Requests
  BY DEF IInv
<1>2. From(Start(request), caret) /\ caret \in CaretState /\ Sound(caret)
  BY <1>1 DEF RootOK, From, Sound
<1>3. request.data \in Seq(BsonByte) /\ Within(Start(request))
  BY <1>1, RequestsAssumption, CaretWithin DEF Start
<1>4. ASSUME stack # <<>>
      PROVE  /\ Len(stack) \in Nat /\ Len(stack) >= 1
             /\ IsFrame(Top) /\ Sound(Top.inner) /\ Top = stack[Len(stack)]
  <2>1. Len(stack) \in Nat /\ Len(stack) # 0 /\ \A i \in 1 .. Len(stack) : IsFrame(stack[i])
    BY <1>1, <1>4, StackParts
  <2>2. Len(stack) \in 1 .. Len(stack)
    BY <2>1
  <2>3. IsFrame(stack[Len(stack)])
    BY <2>1, <2>2
  <2> QED
    BY <2>1, <2>2, <2>3 DEF Top, IsFrame
<1>5. Here = IF stack = <<>> THEN caret ELSE Top.inner
  BY DEF Here, CaretOf, Top
<1>6. Sound(Here)
  BY <1>2, <1>4, <1>5
<1> QED
  BY <1>1, <1>2, <1>3, <1>4, <1>6 DEF Sound

(* The outermost document's condition, as the stack changes. *)
LEMMA RootKeep ==
  ASSUME NEW r, NEW s, NEW t, NEW p, NEW q, NEW c,
         RootOK(r, s, p, c), s # <<>>, t # <<>>, q # "done", Layered(t),
         t[1].type = s[1].type, t[1].inner.data = s[1].inner.data,
         Finishing(t, q) <=> Finishing(s, p)
  PROVE  RootOK(r, t, q, c)
BY DEF RootOK, Opened

LEMMA RootPc ==
  ASSUME NEW r, NEW s, NEW p, NEW q, NEW c, RootOK(r, s, p, c),
         p # "polymorphs", q \notin {"polymorphs", "done"}, s = <<>> => q = "threw"
  PROVE  RootOK(r, s, q, c)
BY DEF RootOK, Opened, Finishing

LEMMA FinishingOne ==
  ASSUME NEW s, Len(s) = 1, NEW p
  PROVE  Finishing(s, p) <=> (p = "polymorphs")
<1>1. ~(Len(s) >= 2)
  OBVIOUS
<1> QED
  BY <1>1, Zenon DEF Finishing

LEMMA RootPut ==
  ASSUME NEW r, NEW s, NEW p, NEW q, NEW c, RootOK(r, s, p, c), IsStack(s), s # <<>>,
         NEW f, IsFrame(f), f.type = s[Len(s)].type, f.inner.data = s[Len(s)].inner.data,
         q # "done", Len(s) = 1 => ((p = "polymorphs") <=> (q = "polymorphs")),
         NEW t, PutOn(s, f, t)
  PROVE  RootOK(r, t, q, c)
<1> DEFINE n == Len(s)
<1>1. n \in Nat /\ n # 0
  BY StackParts
<1>2. /\ IsStack(t) /\ Len(t) = n /\ t[n] = f
      /\ \A i \in 1 .. n - 1 : t[i] = s[i]
  BY PutStack DEF PutOn
<1>3. t # <<>>
  BY <1>1, <1>2, StackParts
<1> HIDE DEF n
<1>4. n = 1 \/ (n >= 2 /\ 1 \in 1 .. n - 1)
  BY <1>1
<1>5. n >= 2 => n = 2 \/ 2 \in 1 .. n - 1
  BY <1>1
<1>6. t[1].type = s[1].type /\ t[1].inner.data = s[1].inner.data
  BY <1>2, <1>4 DEF n
<1>7. n >= 2 => t[2].type = s[2].type
  BY <1>2, <1>5 DEF n
<1>8. Finishing(t, q) <=> Finishing(s, p)
  <2>1. Len(s) = n /\ Len(t) = n
    BY <1>2 DEF n
  <2>2. CASE n = 1
    <3>1. Len(s) = 1 /\ Len(t) = 1
      BY <2>1, <2>2
    <3>2. (p = "polymorphs") <=> (q = "polymorphs")
      BY <3>1, Zenon
    <3>3. \A k : (Finishing(s, k) <=> k = "polymorphs") /\ (Finishing(t, k) <=> k = "polymorphs")
      BY <3>1, FinishingOne, Zenon
    <3> QED
      BY <3>2, <3>3, Zenon
  <2>3. CASE n >= 2
    BY <1>1, <1>7, <2>1, <2>3 DEF Finishing
  <2> QED
    BY <1>4, <2>2, <2>3
<1>9. Layered(t)
  <2>1. \A i \in 1 .. n : t[i].type = s[i].type
    <3>1. \A i \in 1 .. n : i = n \/ i \in 1 .. n - 1
      BY <1>1
    <3> QED
      BY <1>2, <3>1 DEF n
  <2>2. \A i \in 2 .. n : i \in 1 .. n /\ i - 1 \in 1 .. n
    BY <1>1
  <2>3. \A i \in 2 .. n : s[i].type = "none" => s[i - 1].type # "none"
    BY DEF RootOK, Layered, n
  <2>4. Len(t) = n
    BY <1>2
  <2> HIDE DEF n
  <2> QED
    BY <2>1, <2>2, <2>3, <2>4 DEF Layered
<1>10. RootOK(r, t, q, c)
  BY <1>3, <1>6, <1>8, <1>9, RootKeep
<1> QED
  BY <1>10

LEMMA RootPush ==
  ASSUME NEW r, NEW s, NEW p, NEW q, NEW c, RootOK(r, s, p, c), IsStack(s), s # <<>>,
         NEW f, IsFrame(f), q # "done", Len(s) = 1 => (Finishing(s, p) <=> (f.type = "none")),
         f.type = "none" => s[Len(s)].type # "none",
         NEW t, PushOn(s, f, t)
  PROVE  RootOK(r, t, q, c)
<1> DEFINE n == Len(s)
<1>1. n \in Nat /\ n # 0
  BY StackParts
<1>2. /\ IsStack(t) /\ Len(t) = n + 1 /\ t[n + 1] = f
      /\ \A i \in 1 .. n : t[i] = s[i]
  BY PushStack DEF PushOn
<1> HIDE DEF n
<1>3. t # <<>>
  BY <1>1, <1>2, StackParts
<1>4. t[1] = s[1]
  BY <1>1, <1>2
<1>5. Finishing(t, q) <=> Finishing(s, p)
  <2>1. Len(s) = n
    BY DEF n
  <2>2. Len(t) >= 2 /\ Len(t) # 1
    BY <1>1, <1>2
  <2>3. CASE n = 1
    <3>1. t[2] = f
      BY <1>2, <2>3
    <3> QED
      BY <2>1, <2>2, <2>3, <3>1 DEF Finishing
  <2>4. CASE n >= 2
    <3>1. t[2] = s[2]
      BY <1>1, <1>2, <2>4
    <3> QED
      BY <2>1, <2>2, <2>4, <3>1 DEF Finishing
  <2> QED
    BY <1>1, <2>3, <2>4
<1>6. Layered(t)
  <2>1. \A i \in 2 .. n : s[i].type = "none" => s[i - 1].type # "none"
    BY DEF RootOK, Layered, n
  <2>2. \A i \in 2 .. n + 1 :
          \/ i \in 2 .. n /\ i \in 1 .. n /\ i - 1 \in 1 .. n
          \/ i = n + 1 /\ i - 1 = n /\ n \in 1 .. n
    BY <1>1
  <2>3. t[n + 1] = f /\ (f.type = "none" => s[n].type # "none") /\ Len(t) = n + 1
    BY <1>2 DEF n
  <2>4. \A i \in 1 .. n : t[i] = s[i]
    BY <1>2
  <2>5. \A i \in 2 .. n + 1 : t[i].type = "none" => t[i - 1].type # "none"
    <3> SUFFICES ASSUME NEW i \in 2 .. n + 1
                 PROVE  t[i].type = "none" => t[i - 1].type # "none"
      OBVIOUS
    <3>1. CASE i \in 2 .. n /\ i \in 1 .. n /\ i - 1 \in 1 .. n
      BY <2>1, <2>4, <3>1
    <3>2. CASE i = n + 1 /\ i - 1 = n /\ n \in 1 .. n
      BY <2>3, <2>4, <3>2
    <3> QED
      BY <2>2, <3>1, <3>2
  <2> QED
    BY <2>3, <2>5 DEF Layered
<1>7. RootOK(r, t, q, c)
  BY <1>3, <1>4, <1>5, <1>6, RootKeep
<1> QED
  BY <1>7

LEMMA RootPop ==
  ASSUME NEW r, NEW s, NEW p, NEW q, NEW c, RootOK(r, s, p, c), IsStack(s), Len(s) >= 2,
         q # "done", Len(s) = 2 => ((s[2].type = "none") <=> (q = "polymorphs")),
         NEW t, t = Below(s)
  PROVE  RootOK(r, t, q, c)
<1> DEFINE n == Len(s)
<1>1. n \in Nat /\ s # <<>>
  BY StackParts
<1>2. IsStack(t) /\ Len(t) = n - 1 /\ \A i \in 1 .. n - 1 : t[i] = s[i]
  BY <1>1, PopStack
<1> HIDE DEF n
<1>3. n >= 2
  BY DEF n
<1>4. t # <<>>
  <2>1. Len(t) # 0
    BY <1>1, <1>2, <1>3
  <2> QED
    BY <1>2, <2>1, StackParts
<1>5. t[1] = s[1] /\ t[n - 1] = s[n - 1]
  BY <1>1, <1>2, <1>3
<1>6. Finishing(t, q) <=> Finishing(s, p)
  <2>1. Len(s) = n
    BY DEF n
  <2>2. CASE n = 2
    <3>1. Len(t) = 1
      BY <1>2, <2>2
    <3> QED
      BY <2>1, <2>2, <3>1 DEF Finishing
  <2>3. CASE n >= 3
    <3>1. Len(t) >= 2 /\ t[2] = s[2] /\ Len(t) # 1
      BY <1>1, <1>2, <2>3
    <3>2. Len(s) >= 2 /\ Len(s) # 1
      BY <1>1, <2>1, <2>3
    <3> QED
      BY <3>1, <3>2 DEF Finishing
  <2> QED
    BY <1>1, <1>3, <2>2, <2>3
<1>7. Layered(t)
  <2>1. \A i \in 2 .. n : s[i].type = "none" => s[i - 1].type # "none"
    BY DEF RootOK, Layered, n
  <2>2. \A i \in 2 .. n - 1 : i \in 2 .. n /\ i \in 1 .. n - 1 /\ i - 1 \in 1 .. n - 1
    BY <1>1
  <2>3. Len(t) = n - 1 /\ \A i \in 1 .. n - 1 : t[i] = s[i]
    BY <1>2
  <2> QED
    BY <2>1, <2>2, <2>3 DEF Layered
<1>8. RootOK(r, t, q, c)
  BY <1>1, <1>4, <1>5, <1>6, <1>7, RootKeep
<1> QED
  BY <1>8

LEMMA MoveIsPut ==
  ASSUME NEW s, IsStack(s), s # <<>>, NEW d, Sound(d), NEW t, MoveOn(s, d, t)
  PROVE  \E f : /\ IsFrame(f) /\ f.inner = d /\ f.type = s[Len(s)].type
                /\ PutOn(s, f, t)
<1> DEFINE n == Len(s)
           f == [s[n] EXCEPT !.inner = d]
<1>1. IsFrame(s[n])
  <2>1. n \in Nat /\ n # 0 /\ \A i \in 1 .. n : IsFrame(s[i])
    BY StackParts
  <2>2. n \in 1 .. n
    BY <2>1
  <2> QED
    BY <2>1, <2>2
<1>2. t = [s EXCEPT ![n] = f]
  BY DEF MoveOn
<1> HIDE DEF n
<1>3. IsFrame(f) /\ f.inner = d /\ f.type = s[n].type
  BY <1>1, FrameInner
<1> HIDE DEF f
<1>4. PutOn(s, f, t) /\ f.type = s[Len(s)].type
  BY <1>2, <1>3 DEF n, PutOn
<1> QED
  BY <1>3, <1>4

LEMMA MoveTop ==
  ASSUME NEW s, IsStack(s), s # <<>>, NEW d, Sound(d), NEW t, MoveOn(s, d, t)
  PROVE  IsStack(t) /\ t # <<>> /\ Len(t) = Len(s)
<1>1. PICK f : IsFrame(f) /\ PutOn(s, f, t)
  BY MoveIsPut
<1> QED
  BY <1>1, PutTop

LEMMA MoveRoot ==
  ASSUME NEW r, NEW s, NEW p, NEW q, NEW c, RootOK(r, s, p, c), IsStack(s), s # <<>>,
         NEW d, Sound(d), d.data = s[Len(s)].inner.data,
         q # "done", Len(s) = 1 => ((p = "polymorphs") <=> (q = "polymorphs")),
         NEW t, MoveOn(s, d, t)
  PROVE  RootOK(r, t, q, c)
<1>1. PICK f : /\ IsFrame(f) /\ f.inner = d /\ f.type = s[Len(s)].type /\ PutOn(s, f, t)
  BY MoveIsPut
<1>2. f.inner.data = s[Len(s)].inner.data
  BY <1>1
<1> QED
  BY <1>1, <1>2, RootPut, Zenon

-----------------------------------------------------------------------------
(* Returning. *)

LEMMA ReturnOK ==
  ASSUME IInv, NEW STATE s, IsStack(s), NEW STATE d, From(CaretOf(s), d),
         s # <<>> => RootOK(request, s, "returned", caret),
         s = <<>> => Good(request, d),
         NEW STATE w, NEW STATE v, Return(s, d, w, v)
  PROVE  IInv'
<1>1. /\ UNCHANGED <<config, request>> /\ call' = call /\ pc' = "returned"
      /\ caret' = IF s = <<>> THEN d ELSE caret
      /\ stack' = IF s = <<>> THEN s ELSE [s EXCEPT ![Len(s)].inner = d]
  BY DEF Return, PutCaret
<1>2. IsCall(call)' /\ "returned" \in Pcs
  BY <1>1, Facts DEF Pcs
<1>3. CASE s = <<>>
  <2>1. From(Start(request), d)
    BY <1>3, Facts, FromTrans DEF CaretOf
  <2>2. RootOK(request, <<>>, "returned", d)
    BY <1>3, <2>1, EmptyStack, StackParts DEF RootOK, Layered
  <2>3. stack' = <<>> /\ caret' = d
    BY <1>1, <1>3
  <2> QED
    BY <1>1, <1>2, <2>2, <2>3, EmptyStack, Establish
<1>4. CASE s # <<>>
  <2> DEFINE t == [s EXCEPT ![Len(s)].inner = d]
  <2>1. Sound(d) /\ d.data = s[Len(s)].inner.data
    BY <1>4 DEF From, CaretOf
  <2>2. stack' = t /\ caret' = caret
    BY <1>1, <1>4
  <2>3. MoveOn(s, d, t)
    BY DEF MoveOn
  <2> HIDE DEF t
  <2>4. RootOK(request, t, "returned", caret)
    <3>1. RootOK(request, s, "returned", caret) /\ "returned" # "done"
      BY <1>4
    <3> QED
      BY <1>4, <2>1, <2>3, <3>1, MoveRoot, Zenon
  <2>5. IsStack(t) /\ t # <<>>
    BY <1>4, <2>1, <2>3, MoveTop, Zenon
  <2> QED
    BY <1>1, <1>2, <2>2, <2>4, <2>5, Establish
<1> QED
  BY <1>3, <1>4

LEMMA PopTop ==
  ASSUME IInv, stack # <<>>, Top.type # "none"
  PROVE  /\ IsStack(Below(stack)) /\ Sound(CaretOf(Below(stack)))
         /\ Below(stack) # <<>> => /\ RootOK(request, Below(stack), "returned", caret)
                                  /\ Len(stack) >= 2
         /\ Below(stack) = <<>> => /\ Len(stack) = 1 /\ CaretOf(Below(stack)) = caret
                                  /\ Opened(request, stack, pc, caret)
<1> DEFINE b == Below(stack)
<1>1. /\ Len(stack) \in Nat /\ Len(stack) >= 1 /\ IsStack(stack)
      /\ RootOK(request, stack, pc, caret) /\ Sound(caret) /\ Top = stack[Len(stack)]
  BY Facts DEF From
<1>2. IsStack(b) /\ Len(b) = Len(stack) - 1
  BY <1>1, PopStack
<1>3. b = <<>> <=> Len(b) = 0
  BY <1>2, StackParts
<1>4. b = <<>> => Len(stack) = 1
  BY <1>1, <1>2, <1>3
<1>5. b # <<>> => Len(stack) >= 2
  BY <1>1, <1>2, <1>3
<1>6. b # <<>> => RootOK(request, b, "returned", caret)
  <2> SUFFICES ASSUME b # <<>> PROVE RootOK(request, b, "returned", caret)
    OBVIOUS
  <2> HIDE DEF b
  <2>1. Len(stack) >= 2 /\ (Len(stack) = 2 => stack[2].type # "none")
    BY <1>1, <1>5
  <2>2. b = Below(stack)
    BY DEF b
  <2> QED
    BY <1>1, <2>1, <2>2, RootPop
<1>7. Sound(CaretOf(b))
  <2>1. CASE b = <<>>
    BY <1>1, <2>1 DEF CaretOf
  <2>2. CASE b # <<>>
    <3> HIDE DEF b
    <3>1. Len(b) \in Nat /\ Len(b) # 0 /\ \A i \in 1 .. Len(b) : IsFrame(b[i])
      BY <1>2, <2>2, StackParts
    <3>2. Len(b) \in 1 .. Len(b)
      BY <3>1
    <3>3. Sound(b[Len(b)].inner)
      BY <3>1, <3>2 DEF IsFrame
    <3> QED
      BY <2>2, <3>3 DEF CaretOf
  <2> QED
    BY <2>1, <2>2
<1>8. b = <<>> => CaretOf(b) = caret /\ Opened(request, stack, pc, caret)
  BY <1>1 DEF CaretOf, RootOK
<1> QED
  BY <1>2, <1>4, <1>5, <1>6, <1>7, <1>8

LEMMA ErrorAfter ==
  ASSUME NEW c, Sound(c), NEW n \in Int
  PROVE  From(c, SetError(Inc(c, n))) /\ SetError(Inc(c, n)).error
<1>1. Inc(c, n) \in CaretState /\ Inc(c, n).data = c.data
  BY IncState DEF Sound
<1> QED
  BY <1>1, SetErrorFrom DEF From

LEMMA FailInsideOK ==
  ASSUME IInv, stack # <<>>, Top.type # "none", NEW STATE c, c.pos \in Int, FailInside(c)
  PROVE  IInv'
<1> DEFINE b == Below(stack)
           d == SetError(Inc(CaretOf(b), c.pos))
<1>1. /\ IsStack(b) /\ Sound(CaretOf(b))
      /\ b # <<>> => RootOK(request, b, "returned", caret)
  BY PopTop
<1>2. Return(b, d, Top.wraps, Nil)
  BY DEF FailInside
<1> HIDE DEF b
<1>3. From(CaretOf(b), d) /\ d.error
  BY <1>1, ErrorAfter
<1> HIDE DEF d
<1>4. Good(request, d)
  BY <1>3 DEF Good
<1> QED
  BY <1>1, <1>2, <1>3, <1>4, ReturnOK

(* A method that returns or throws before it has opened a document.        *)
LEMMA ReturnHere ==
  ASSUME IInv, pc = "call", NEW STATE d, From(Here, d), stack = <<>> => d.error,
         NEW STATE w, NEW STATE v, Return(stack, d, w, v)
  PROVE  IInv'
<1>1. IsStack(stack) /\ RootOK(request, stack, pc, caret)
  BY Facts
<1>2. stack # <<>> => RootOK(request, stack, "returned", caret)
  BY <1>1, RootPc
<1>3. From(CaretOf(stack), d) /\ (stack = <<>> => Good(request, d))
  BY DEF Here, Good
<1> QED
  BY <1>1, <1>2, <1>3, ReturnOK

LEMMA ThrowOK ==
  ASSUME IInv, pc = "call", Throw
  PROVE  IInv'
<1>1. IsStack(stack) /\ RootOK(request, stack, pc, caret) /\ IsCall(call)
  BY Facts
<1>2. /\ UNCHANGED <<config, request>> /\ call' = call /\ stack' = stack /\ caret' = caret
      /\ pc' = "threw"
  BY DEF Throw
<1>3. RootOK(request, stack, "threw", caret)
  BY <1>1, RootPc
<1>4. "threw" \in Pcs /\ IsCall(call)'
  BY <1>1, <1>2 DEF Pcs
<1> QED
  BY <1>1, <1>2, <1>3, <1>4, Establish

-----------------------------------------------------------------------------
(* deserialize with the arguments in call. *)

LEMMA Arguments ==
  ASSUME IInv, pc = "call"
  PROVE  /\ Within(Here) /\ ~Here.error /\ From(Here, Here)
         /\ stack = <<>> => call.code = DOCUMENT_ROOT
         /\ call.type \in Types /\ call.code \in BsonByte
         /\ Item(call.type) \in Types
<1>1. /\ Within(Here) /\ ~Here.error /\ (stack = <<>> => call.code = DOCUMENT_ROOT)
      /\ call.type \in Types /\ call.code \in BsonByte
  BY DEF IInv, IsCall
<1>2. From(Here, Here)
  BY <1>1, WithinSound DEF From
<1>3. TypeInfo[call.type] \in Info
  BY <1>1, TypesAssumption
<1>4. Item(call.type) \in Types
  BY <1>3 DEF Info, Item
<1> QED
  BY <1>1, <1>2, <1>4

LEMMA ScalarAtRoot ==
  ASSUME NEW c, Within(c), NEW class \in ScalarClass
  PROVE  ReadScalar(class, c, DOCUMENT_ROOT).caret.error
<1>1. ReadScalar(class, c, DOCUMENT_ROOT) = ReadError(c)
  BY ReadScalarRoot
<1>2. From(c, c)
  BY WithinSound DEF From
<1> QED
  BY <1>1, <1>2, ReadErrorFrom

LEMMA InlineAtRoot ==
  ASSUME NEW c, Within(c), NEW class
  PROVE  ReadInline(class, c, DOCUMENT_ROOT).caret.error
<1>1. ReadInline(class, c, DOCUMENT_ROOT) = ReadError(c)
  BY ReadInlineRoot
<1>2. From(c, c)
  BY WithinSound DEF From
<1> QED
  BY <1>1, <1>2, ReadErrorFrom

LEMMA DeserializeScalarOK ==
  ASSUME IInv, DeserializeScalar
  PROVE  IInv'
<1> DEFINE r == ReadScalar(Class(call.type), Here, call.code)
           d == r.caret
<1>1. /\ pc = "call" /\ Class(call.type) \in ScalarClass
      /\ Return(stack, d, call.wraps, r.value)
  BY DEF DeserializeScalar, Calling
<1>2. Within(Here) /\ (stack = <<>> => call.code = DOCUMENT_ROOT)
  BY <1>1, Arguments
<1>3. From(Here, d)
  BY <1>2, ReadScalarFrom
<1>4. stack = <<>> => d.error
  BY <1>1, <1>2, ScalarAtRoot
<1> HIDE DEF r, d
<1> QED
  BY <1>1, <1>3, <1>4, ReturnHere

LEMMA DeserializeInlineDocsOK ==
  ASSUME IInv, DeserializeInlineDocs
  PROVE  IInv'
<1> DEFINE r == ReadInline(Class(call.type), Here, call.code)
           d == r.caret
<1>1. pc = "call" /\ Return(stack, d, call.wraps, r.value)
  BY DEF DeserializeInlineDocs, Calling
<1>2. Within(Here) /\ (stack = <<>> => call.code = DOCUMENT_ROOT)
  BY <1>1, Arguments
<1>3. From(Here, d)
  BY <1>2, ReadInlineFrom
<1>4. stack = <<>> => d.error
  BY <1>2, InlineAtRoot
<1> HIDE DEF r, d
<1> QED
  BY <1>1, <1>3, <1>4, ReturnHere

(* The call stands for another: a guessed type, an interpretation.         *)
LEMMA Again ==
  ASSUME IInv, pc = "call", NEW STATE t, t \in Types, NEW STATE w,
         call' = [call EXCEPT !.type = t, !.wraps = w],
         UNCHANGED <<config, request, caret, stack, ret, pc>>
  PROVE  IInv'
<1>1. IsStack(stack) /\ RootOK(request, stack, "call", caret) /\ IsCall(call)
  BY Facts
<1>2. /\ Within(Here) /\ ~Here.error /\ (stack = <<>> => call.code = DOCUMENT_ROOT)
  BY Arguments
<1>3. call' = [type |-> t, code |-> call.code, wraps |-> w]
  BY <1>1 DEF IsCall
<1>4. IsCall(call)' /\ call'.code = call.code /\ "call" \in Pcs
  BY <1>1, <1>3 DEF IsCall, Pcs
<1>5. Here = CaretIn(caret, stack)
  BY DEF Here, CaretOf, CaretIn
<1> QED
  BY <1>1, <1>2, <1>4, <1>5, Establish

LEMMA DeserializeAnyOK ==
  ASSUME IInv, DeserializeAny
  PROVE  IInv'
<1> DEFINE guess == IF call.code = NULL_VALUE THEN "none" ELSE GuessedType(call.code)
<1>1. pc = "call"
  BY DEF DeserializeAny, Calling
<1>2. From(Here, Here) /\ (stack = <<>> => call.code = DOCUMENT_ROOT) /\ call.code \in BsonByte
  BY <1>1, Arguments
<1>3. \/ guess = "none" /\ Return(stack, Here, call.wraps, NullOf("Any"))
      \/ /\ guess # "none"
         /\ call' = [call EXCEPT !.type = guess, !.wraps = Append(@, "Any")]
         /\ UNCHANGED <<config, request, caret, stack, ret, pc>>
  BY Zenon DEF DeserializeAny
<1>4. stack = <<>> => guess # "none"
  BY <1>2 DEF GuessedType, DOCUMENT_ROOT, NULL_VALUE
<1>5. guess # "none" => guess \in Types
  <2>1. guess # "none" => guess = GuessedType(call.code)
    OBVIOUS
  <2>2. guess # "none" => guess \in GuessedTypes
    BY <1>2, <2>1 DEF GuessedTypes
  <2> QED
    BY <2>2, TypesAssumption
<1> HIDE DEF guess
<1>6. CASE guess = "none"
  BY <1>1, <1>2, <1>3, <1>4, <1>6, ReturnHere
<1>7. CASE guess # "none"
  <2> DEFINE w == Append(call.wraps, "Any")
  <2>1. call' = [call EXCEPT !.type = guess, !.wraps = w]
    BY <1>3, <1>7
  <2> HIDE DEF w
  <2> QED
    BY <1>1, <1>3, <1>5, <1>7, <2>1, Again
<1> QED
  BY <1>6, <1>7

LEMMA DeserializeInterpretedOK ==
  ASSUME IInv, DeserializeInterpreted
  PROVE  IInv'
<1> DEFINE w == Append(call.wraps, "Interpreted")
           t == Item(call.type)
<1>1. /\ pc = "call" /\ call' = [call EXCEPT !.type = t, !.wraps = w]
      /\ UNCHANGED <<config, request, caret, stack, ret, pc>>
  BY DEF DeserializeInterpreted, Calling
<1>2. t \in Types
  BY <1>1, Arguments
<1> HIDE DEF w, t
<1> QED
  BY <1>1, <1>2, Again

LEMMA DeserializeEnumOK ==
  ASSUME IInv, DeserializeEnum
  PROVE  IInv'
<1> DEFINE class == Class(call.type)
           r == ReadScalar(Class(Item(call.type)), Here, call.code)
           d == r.caret
<1>1. pc = "call" /\ class \in Enums
  BY DEF DeserializeEnum, Calling
<1>2. /\ Within(Here) /\ (stack = <<>> => call.code = DOCUMENT_ROOT)
      /\ call.type \in Types
  BY <1>1, Arguments
<1>3. From(Here, d)
  BY <1>2, ReadScalarFrom
<1>4. stack = <<>> => d.error
  <2>1. Class(Item(call.type)) \in ScalarClass
    BY <1>1, <1>2, TypesAssumption
  <2> QED
    BY <1>2, <2>1, ScalarAtRoot
<1>5. \/ \E v : Return(stack, d, call.wraps, v)
      \/ Return(stack, SetError(d), call.wraps, Nil)
      \/ Throw
  BY DEF DeserializeEnum, Fail
<1> HIDE DEF r, d
<1>6. ASSUME NEW v, Return(stack, d, call.wraps, v)
      PROVE  IInv'
  BY <1>1, <1>3, <1>4, <1>6, ReturnHere
<1>7. CASE Return(stack, SetError(d), call.wraps, Nil)
  <2>1. From(Here, SetError(d)) /\ SetError(d).error
    BY <1>3, SetErrorFrom, FromTrans DEF From, Sound
  <2> QED
    BY <1>1, <1>7, <2>1, ReturnHere
<1>8. CASE Throw
  BY <1>1, <1>8, ThrowOK
<1> QED
  BY <1>5, <1>6, <1>7, <1>8

LEMMA DeserializeUnknownOK ==
  ASSUME IInv, DeserializeUnknown
  PROVE  IInv'
<1>1. pc = "call" /\ Throw
  BY DEF DeserializeUnknown
<1> QED
  BY <1>1, ThrowOK

-----------------------------------------------------------------------------
(* Opening a document. *)

LEMMA NewFrameOK ==
  ASSUME call.type \in Types, NEW data \in Seq(BsonByte), NEW f, f = NewFrame(data)
  PROVE  /\ IsFrame(f) /\ f.type # "none" /\ f.inner = Caret(data)
         /\ Within(f.inner) /\ f.inner.data = data /\ ~f.inner.error
<1> DEFINE x == NewItems(call.type)
           c == Caret(data)
<1>1. f = [ type |-> call.type, wraps |-> call.wraps, inner |-> c, index |-> 0,
            key |-> <<>>, items |-> x, polymorphs |-> <<>> ]
  BY DEF NewFrame
<1>2. Within(c) /\ Sound(c) /\ c.data = data /\ ~c.error
  BY CaretWithin, WithinSound
<1> HIDE DEF x, c
<1>3. <<>> \in Seq(BsonByte) /\ <<>> \in Seq(PolymorphData) /\ DOMAIN <<>> = {}
  OBVIOUS
<1>4. call.type # "none"
  BY TypesAssumption
<1>5. IsFrame(f)
  BY <1>1, <1>2, <1>3 DEF IsFrame
<1>6. f.type = call.type /\ f.inner = c
  BY <1>1
<1> QED
  BY <1>2, <1>4, <1>5, <1>6 DEF c

(* The frame of the outermost document. *)
LEMMA RootOpen ==
  ASSUME NEW r, r.data \in Seq(BsonByte), NEW size, size = ReadInt32(Start(r)),
         NEW n, n = size.value - 4, n \in 0 .. Left(size.caret),
         NEW f, IsFrame(f), f.type # "none", Len(f.inner.data) = n,
         NEW t, PushOn(<<>>, f, t)
  PROVE  RootOK(r, t, "iterate", size.caret) /\ IsStack(t) /\ t # <<>> /\ t[Len(t)] = f
<1> DEFINE c == size.caret
           k == Start(r)
<1>1. Within(k) /\ Left(k) = Len(r.data) /\ Len(r.data) \in Nat
  BY CaretWithin, LenProperties DEF Start
<1> HIDE DEF k
<1>2. /\ size.value \in Int /\ Left(c) \in Nat /\ From(k, c)
      /\ Left(k) < 4 => size.value = 0
      /\ Left(k) >= 4 => c = Inc(k, 4) /\ Left(c) = Left(k) - 4
  BY <1>1, Int32From DEF k
<1> HIDE DEF c
<1>3. n \in Int /\ 0 <= n /\ n <= Left(c)
  BY <1>2 DEF c
<1>4. Left(k) >= 4 /\ size.value >= 4 /\ size.value <= Len(r.data)
  BY <1>1, <1>2, <1>3
<1>5. c = Inc(k, 4) /\ Extent(r) = size.value
  BY <1>2, <1>4 DEF Extent, k
<1>6. IsStack(t) /\ t # <<>> /\ Len(t) = 1 /\ t[1] = f
  <2>1. IsStack(<<>>) /\ Len(<<>>) = 0
    BY EmptyStack
  <2>2. IsStack(t) /\ t # <<>> /\ Len(t) = Len(<<>>) + 1 /\ t[Len(t)] = f
    BY <2>1, PushTop, Zenon
  <2> QED
    BY <2>1, <2>2
<1>7. ~Finishing(t, "iterate")
  BY <1>6, FinishingOne
<1>8. Opened(r, t, "iterate", c)
  <2>1. 4 <= Extent(r) /\ Extent(r) <= Len(r.data) /\ Extent(r) - 4 = n
    BY <1>4, <1>5, <1>2
  <2> QED
    BY <1>5, <1>6, <1>7, <2>1 DEF Opened, k
<1>9. RootOK(r, t, "iterate", c)
  BY <1>2, <1>6, <1>8 DEF RootOK, k, Layered
<1> QED
  BY <1>6, <1>9 DEF c

LEMMA OpenCompoundOK ==
  ASSUME IInv, OpenCompound
  PROVE  IInv'
<1> DEFINE t == call.type
           size == ReadInt32(Here)
           c == size.caret
           n == size.value - 4
           f == NewFrame(CurrBytes(c, n))
           s == IF stack = <<>> THEN stack ELSE [stack EXCEPT ![Len(stack)].inner = c]
<1>1. pc = "call"
  BY DEF OpenCompound, Calling
<1>2. /\ Within(Here) /\ ~Here.error /\ From(Here, Here) /\ (stack = <<>> => call.code = DOCUMENT_ROOT)
      /\ t \in Types
  BY <1>1, Arguments
<1>3. /\ size.value \in Int /\ Within(c) /\ From(Here, c) /\ Left(c) \in Nat
      /\ Left(Here) < 4 => size.value = 0
      /\ Left(Here) >= 4 => c = Inc(Here, 4)
  BY <1>2, Int32From
<1>4. \/ call.code = NULL_VALUE /\ Return(stack, Here, call.wraps, NullOf(Class(t)))
      \/ Fail(Here)
      \/ Fail(c)
      \/ Throw
      \/ /\ n \in 0 .. Left(c)
         /\ caret' = IF stack = <<>> THEN c ELSE caret
         /\ stack' = Append(s, f)
         /\ pc' = "iterate"
         /\ UNCHANGED <<config, request, call, ret>>
  BY Zenon DEF OpenCompound
<1> HIDE DEF size
<1>5. CASE call.code = NULL_VALUE /\ Return(stack, Here, call.wraps, NullOf(Class(t)))
  <2>1. stack # <<>>
    BY <1>2, <1>5 DEF DOCUMENT_ROOT, NULL_VALUE
  <2> QED
    BY <1>1, <1>2, <1>5, <2>1, ReturnHere
<1>6. CASE Fail(Here)
  <2>1. From(Here, SetError(Here)) /\ SetError(Here).error
    BY <1>2, SetErrorFrom DEF From, Sound
  <2> QED
    BY <1>1, <1>6, <2>1, ReturnHere DEF Fail
<1>7. CASE Fail(c)
  <2>1. From(Here, SetError(c)) /\ SetError(c).error
    BY <1>3, SetErrorFrom, FromTrans DEF From, Sound
  <2> QED
    BY <1>1, <1>7, <2>1, ReturnHere DEF Fail
<1>8. CASE Throw
  BY <1>1, <1>8, ThrowOK
<1>9. ASSUME n \in 0 .. Left(c), caret' = IF stack = <<>> THEN c ELSE caret,
             stack' = Append(s, f), pc' = "iterate", UNCHANGED <<config, request, call, ret>>
      PROVE  IInv'
  <2>1. CurrBytes(c, n) \in Seq(BsonByte) /\ Len(CurrBytes(c, n)) = n
    <3>1. n \in Nat /\ n <= Left(c)
      BY <1>3, <1>9
    <3> HIDE DEF n, c
    <3> QED
      BY <1>3, <3>1, CurrBytesType
  <2>2. IsFrame(f) /\ f.type # "none" /\ f.inner.data = CurrBytes(c, n)
    <3> HIDE DEF n, c
    <3> QED
      BY <1>2, <2>1, NewFrameOK
  <2> HIDE DEF f
  <2>3. IsCall(call)' /\ "iterate" \in Pcs
    BY <1>9, Facts DEF Pcs
  <2>4. IsStack(stack) /\ RootOK(request, stack, "call", caret)
    BY <1>1, Facts
  <2>5. CASE stack = <<>>
    <3>1. Here = Start(request) /\ request.data \in Seq(BsonByte)
      BY <2>4, <2>5, Facts DEF RootOK, Here, CaretOf
    <3>2. size = ReadInt32(Start(request)) /\ Len(f.inner.data) = n
      BY <2>1, <2>2, <3>1 DEF size
    <3>3. stack' = Append(<<>>, f) /\ caret' = c
      BY <1>9, <2>5
    <3> DEFINE u == Append(<<>>, f)
    <3> HIDE DEF u
    <3>4. PushOn(<<>>, f, u)
      BY DEF u, PushOn
    <3>5. RootOK(request, u, "iterate", c) /\ IsStack(u) /\ u # <<>> /\ u[Len(u)] = f
      <4> HIDE DEF n
      <4>1. n = size.value - 4 /\ n \in 0 .. Left(size.caret)
        BY <1>9 DEF n
      <4> QED
        BY <2>2, <3>1, <3>2, <3>4, <4>1, RootOpen
    <3> HIDE DEF c
    <3> QED
      BY <1>9, <2>2, <2>3, <3>3, <3>5, Establish DEF u
  <2>6. CASE stack # <<>>
    <3>1. MoveOn(stack, c, s) /\ caret' = caret
      BY <1>9, <2>6 DEF MoveOn
    <3>2. Sound(c) /\ c.data = stack[Len(stack)].inner.data
      BY <1>3, <2>6 DEF From, Here, CaretOf
    <3> HIDE DEF s, c
    <3>3. RootOK(request, s, "call", caret) /\ IsStack(s) /\ s # <<>> /\ Len(s) = Len(stack)
      <4>1. "call" # "done"
        OBVIOUS
      <4>2. RootOK(request, s, "call", caret)
        BY <2>4, <2>6, <3>1, <3>2, <4>1, MoveRoot, Zenon
      <4>3. IsStack(s) /\ s # <<>> /\ Len(s) = Len(stack)
        BY <2>4, <2>6, <3>1, <3>2, MoveTop, Zenon
      <4> QED
        BY <4>2, <4>3
    <3> DEFINE u == Append(s, f)
    <3>4. stack' = u
      BY <1>9
    <3>5. ~Finishing(s, "call") \/ Len(s) # 1
      BY FinishingOne
    <3> HIDE DEF u
    <3>6. PushOn(s, f, u) /\ "iterate" # "done"
      BY DEF u, PushOn
    <3>7. RootOK(request, u, "iterate", caret)
      BY <2>2, <3>3, <3>5, <3>6, RootPush, Zenon
    <3>8. IsStack(u) /\ u # <<>> /\ u[Len(u)] = f
      BY <2>2, <3>3, <3>6, PushTop, Zenon
    <3> QED
      BY <1>9, <2>2, <2>3, <3>1, <3>4, <3>7, <3>8, Establish
  <2> QED
    BY <2>5, <2>6
<1> HIDE DEF n, c, s, f
<1> QED
  BY <1>4, <1>5, <1>6, <1>7, <1>8, <1>9

-----------------------------------------------------------------------------
(* The loops. *)

LEMMA TypeParts ==
  ASSUME NEW t \in Types
  PROVE  /\ Item(t) \in Types
         /\ \A key : (\E i \in DOMAIN Fields(t) : Fields(t)[i].name = key) =>
              /\ FieldOf(t, key) \in FieldInfo /\ FieldOf(t, key).type \in Types
              /\ FieldOf(t, key).select # "none" => FieldOf(t, key).select \in Types
<1>1. TypeInfo[t] \in Info
  BY TypesAssumption
<1>2. Item(t) \in Types /\ Fields(t) \in Seq(FieldInfo)
  BY <1>1 DEF Info, Item, Fields
<1>3. \A i \in DOMAIN Fields(t) : Fields(t)[i] \in FieldInfo
  <2> DEFINE fs == Fields(t)
  <2>1. fs \in Seq(FieldInfo)
    BY <1>2
  <2> HIDE DEF fs
  <2>2. DOMAIN fs = 1 .. Len(fs)
    BY <2>1, LenProperties
  <2>3. \A i \in DOMAIN fs : fs[i] \in FieldInfo
    BY <2>1, <2>2, ElementOfSeq
  <2> QED
    BY <2>3 DEF fs
<1>4. ASSUME NEW key, \E i \in DOMAIN Fields(t) : Fields(t)[i].name = key
      PROVE  FieldOf(t, key) \in FieldInfo
  <2> DEFINE i == CHOOSE i \in DOMAIN Fields(t) : Fields(t)[i].name = key
  <2>1. i \in DOMAIN Fields(t)
    BY <1>4
  <2>2. FieldOf(t, key) = Fields(t)[i]
    BY DEF FieldOf
  <2> HIDE DEF i
  <2> QED
    BY <1>3, <2>1, <2>2
<1>5. \A f \in FieldInfo : f.type \in Types /\ (f.select # "none" => f.select \in Types)
  BY DEF FieldInfo
<1> QED
  BY <1>2, <1>4, <1>5

(* Whatever the object holds, the type selected is a type. *)
LEMMA SelectedType ==
  ASSUME NEW t \in Types, NEW key, IsPolymorph(t, key), NEW items
  PROVE  SelectType(t, key, items) \in Types
<1> DEFINE cases == CasesOf(t, key, items)
<1>1. FieldOf(t, key) \in FieldInfo /\ FieldOf(t, key).select \in Types
  BY TypeParts DEF IsPolymorph
<1>2. cases \subseteq FieldOf(t, key).cases
  BY DEF CasesOf
<1>3. FieldOf(t, key).cases \subseteq Choice
  BY <1>1 DEF FieldInfo
<1>4. \A c \in cases : c.type \in Types
  BY <1>2, <1>3 DEF Choice
<1>5. SelectType(t, key, items) =
        IF cases = {} THEN FieldOf(t, key).select ELSE (CHOOSE c \in cases : TRUE).type
  BY DEF SelectType
<1> HIDE DEF cases
<1>6. cases # {} => (CHOOSE c \in cases : TRUE) \in cases
  OBVIOUS
<1> QED
  BY <1>1, <1>4, <1>5, <1>6

LEMMA InFrame ==
  ASSUME IInv, pc \in {"iterate", "polymorphs"}
  PROVE  /\ stack # <<>> /\ IsStack(stack) /\ IsFrame(Top) /\ Top = stack[Len(stack)]
         /\ Top.type # "none" /\ Top.type \in Types /\ Sound(Top.inner)
         /\ Top.polymorphs \in Seq(PolymorphData)
         /\ \A i \in DOMAIN Top.polymorphs : IsPolymorph(Top.type, Top.polymorphs[i].key)
<1>1. stack # <<>> /\ Top.type # "none"
  BY DEF IInv
<1>2. IsStack(stack) /\ IsFrame(Top) /\ Top = stack[Len(stack)]
  BY <1>1, Facts
<1> QED
  BY <1>1, <1>2 DEF IsFrame

LEMMA LoopFacts ==
  ASSUME IInv, InLoop
  PROVE  /\ pc = "iterate" /\ Within(Top.inner) /\ ~Top.inner.error
         /\ Element.code \in BsonByte /\ Element.key \in Seq(BsonByte)
         /\ From(Top.inner, Element.caret) /\ Element.caret.pos \in Int
         /\ Sound(Element.caret) /\ Element.caret.data = Top.inner.data
         /\ ~Element.caret.error => Within(Element.caret)
<1> DEFINE c == Top.inner
<1>1. /\ pc = "iterate" /\ ~c.error /\ c.pos < DataSize(c) /\ Left(c) > 1
  BY DEF InLoop, CanContinue
<1>2. Sound(c)
  BY <1>1, InFrame
<1> HIDE DEF c
<1>3. c.pos <= DataSize(c)
  BY <1>1, <1>2, SoundParts
<1>4. Within(c)
  BY <1>1, <1>2, <1>3, SoundWithin
<1>5. /\ ReadKey(c).code \in BsonByte /\ ReadKey(c).key \in Seq(BsonByte)
      /\ From(c, ReadKey(c).caret)
      /\ ~ReadKey(c).caret.error => Within(ReadKey(c).caret)
  BY <1>1, <1>4, ReadKeyFrom
<1>6. Element = ReadKey(c)
  BY DEF Element, c
<1>7. Sound(Element.caret) /\ Element.caret.pos \in Int /\ Element.caret.data = c.data
  BY <1>5, <1>6, SoundParts DEF From
<1> QED
  BY <1>1, <1>4, <1>5, <1>6, <1>7 DEF c

LEMMA KeyFailsOK ==
  ASSUME IInv, KeyFails
  PROVE  IInv'
<1>1. InLoop /\ FailInside(Element.caret)
  BY DEF KeyFails
<1>2. Element.caret.pos \in Int /\ stack # <<>> /\ Top.type # "none"
  BY <1>1, LoopFacts, InFrame
<1> QED
  BY <1>1, <1>2, FailInsideOK

LEMMA TwoFields ==
  ASSUME NEW s, NEW n, NEW x, NEW y
  PROVE  /\ [s EXCEPT ![n].inner = x, ![n].key = y] =
               [s EXCEPT ![n] = [s[n] EXCEPT !.inner = x, !.key = y]]
         /\ [s EXCEPT ![n].inner = x, ![n].polymorphs = y] =
               [s EXCEPT ![n] = [s[n] EXCEPT !.inner = x, !.polymorphs = y]]
<1>1. [s EXCEPT ![n].inner = x, ![n].key = y] =
        [s EXCEPT ![n] = [s[n] EXCEPT !.inner = x, !.key = y]]
  OBVIOUS
<1>2. [s EXCEPT ![n].inner = x, ![n].polymorphs = y] =
        [s EXCEPT ![n] = [s[n] EXCEPT !.inner = x, !.polymorphs = y]]
  OBVIOUS
<1> QED
  BY <1>1, <1>2

LEMMA DeserializeOK ==
  ASSUME IInv, InLoop, ~Element.caret.error, NEW STATE type, type \in Types,
         NEW STATE key, key \in Seq(BsonByte), Deserialize(type, key)
  PROVE  IInv'
<1> DEFINE e == Element.caret
           n == Len(stack)
           f == [stack[n] EXCEPT !.inner = e, !.key = key]
           t == [stack EXCEPT ![n].inner = e, ![n].key = key]
<1>1. /\ pc = "iterate" /\ Element.code \in BsonByte
      /\ Within(e) /\ Sound(e) /\ e.data = Top.inner.data
  BY LoopFacts
<1>2. /\ call' = [type |-> type, code |-> Element.code, wraps |-> <<>>]
      /\ stack' = t /\ pc' = "call" /\ UNCHANGED <<config, request, caret, ret>>
  BY DEF Deserialize
<1>3. stack # <<>> /\ IsFrame(Top) /\ Top = stack[n] /\ IsStack(stack)
  BY <1>1, InFrame
<1>4. t = [stack EXCEPT ![n] = f]
  BY TwoFields
<1> HIDE DEF e
<1>5. IsFrame(f) /\ f.inner = e /\ f.type = Top.type
  <2> HIDE DEF f
  <2>1. CallFrom(Top, e, key, f)
    BY <1>3 DEF f, CallFrom
  <2>2. Moved(Top, e, f)
    BY <1>1, <1>3, <2>1, FrameCall, Zenon
  <2> QED
    BY <2>2 DEF Moved
<1> HIDE DEF f
<1>6. PutOn(stack, f, t)
  BY <1>4 DEF PutOn
<1> HIDE DEF t
<1>7. /\ RootOK(request, stack, "iterate", caret) /\ "call" # "done"
      /\ f.type = stack[Len(stack)].type /\ f.inner.data = stack[Len(stack)].inner.data
      /\ ("iterate" = "polymorphs") <=> ("call" = "polymorphs")
  BY <1>1, <1>3, <1>5, Facts
<1>8. RootOK(request, t, "call", caret)
  BY <1>3, <1>5, <1>6, <1>7, RootPut, Zenon
<1>9. IsStack(t) /\ t # <<>> /\ t[Len(t)] = f
  BY <1>3, <1>5, <1>6, PutTop, Zenon
<1>10. Within(CaretIn(caret, t)) /\ ~CaretIn(caret, t).error
  BY <1>1, <1>5, <1>9 DEF CaretIn, e
<1>11. IsCall(call)' /\ "call" \in Pcs
  BY <1>1, <1>2 DEF IsCall, Pcs
<1> QED
  BY <1>2, <1>8, <1>9, <1>10, <1>11, Establish

LEMMA SkippingOK ==
  ASSUME IInv, InLoop, ~Element.caret.error,
         NEW STATE q, q \in Seq(PolymorphData),
         \A i \in DOMAIN q : IsPolymorph(Top.type, q[i].key), Skipping(q)
  PROVE  IInv'
<1> DEFINE e == SkipElement(Element.caret, Element.code)
           n == Len(stack)
           f == [stack[n] EXCEPT !.inner = e, !.polymorphs = q]
           t == [stack EXCEPT ![n].inner = e, ![n].polymorphs = q]
<1>1. /\ pc = "iterate" /\ Element.code \in BsonByte /\ Within(Element.caret)
      /\ Element.caret.data = Top.inner.data
  BY LoopFacts
<1>2. Sound(e) /\ e.data = Top.inner.data /\ e.pos \in Int
  BY <1>1, SkipFrom, SoundParts DEF From
<1>3. \/ e.error /\ FailInside(e)
      \/ stack' = t /\ UNCHANGED <<config, request, caret, call, ret, pc>>
  BY Zenon DEF Skipping
<1>4. /\ stack # <<>> /\ IsFrame(Top) /\ Top = stack[n] /\ IsStack(stack)
      /\ Top.type # "none"
  BY <1>1, InFrame
<1>5. t = [stack EXCEPT ![n] = f]
  BY TwoFields
<1> HIDE DEF e
<1>6. IsFrame(f) /\ f.inner = e /\ f.type = Top.type
  <2> HIDE DEF f
  <2>1. SkipTo(Top, e, q, f)
    BY <1>4 DEF f, SkipTo
  <2>2. \A i \in DOMAIN q : Top.type # "none" /\ IsPolymorph(Top.type, q[i].key)
    BY <1>4
  <2>3. Moved(Top, e, f)
    BY <1>2, <1>4, <2>1, <2>2, FrameSkip, Zenon
  <2> QED
    BY <2>3 DEF Moved
<1> HIDE DEF f
<1>7. PutOn(stack, f, t)
  BY <1>5 DEF PutOn
<1> HIDE DEF t
<1>8. CASE FailInside(e)
  BY <1>2, <1>4, <1>8, FailInsideOK
<1>9. ASSUME stack' = t, UNCHANGED <<config, request, caret, call, ret, pc>>
      PROVE  IInv'
  <2>1. /\ RootOK(request, stack, "iterate", caret) /\ "iterate" # "done"
        /\ f.type = stack[Len(stack)].type /\ f.inner.data = stack[Len(stack)].inner.data
    BY <1>1, <1>2, <1>4, <1>6, Facts
  <2>2. RootOK(request, t, "iterate", caret)
    BY <1>4, <1>6, <1>7, <2>1, RootPut, Zenon
  <2>3. IsStack(t) /\ t # <<>> /\ t[Len(t)] = f
    BY <1>4, <1>6, <1>7, PutTop, Zenon
  <2>4. IsCall(call)' /\ "iterate" \in Pcs /\ t[Len(t)].type # "none"
    BY <1>4, <1>6, <1>9, <2>3, Facts DEF Pcs
  <2> QED
    BY <1>1, <1>9, <2>2, <2>3, <2>4, Establish
<1> QED
  BY <1>3, <1>8, <1>9

LEMMA AtElementFacts ==
  ASSUME IInv, NEW class, AtElement(class)
  PROVE  /\ InLoop /\ ~Element.caret.error /\ Element.key \in Seq(BsonByte)
         /\ Element.code \in BsonByte /\ Within(Element.caret)
         /\ Element.caret.data = Top.inner.data /\ Element.caret.pos \in Int
         /\ stack # <<>> /\ Top.type # "none" /\ Top.type \in Types
         /\ Top.polymorphs \in Seq(PolymorphData)
         /\ \A i \in DOMAIN Top.polymorphs : IsPolymorph(Top.type, Top.polymorphs[i].key)
<1>1. InLoop /\ ~Element.caret.error
  BY DEF AtElement
<1>2. /\ pc = "iterate" /\ Element.key \in Seq(BsonByte) /\ Element.code \in BsonByte
      /\ Within(Element.caret) /\ Element.caret.data = Top.inner.data
      /\ Element.caret.pos \in Int
  BY <1>1, LoopFacts
<1> QED
  BY <1>1, <1>2, InFrame

LEMMA CollectionElementOK ==
  ASSUME IInv, CollectionElement
  PROVE  IInv'
<1>1. /\ AtElement("Collection")
      /\ \/ Deserialize(Item(Top.type), Element.key)
         \/ FailInside(Element.caret)
  BY DEF CollectionElement
<1>2. /\ InLoop /\ ~Element.caret.error /\ Element.key \in Seq(BsonByte)
      /\ Element.caret.pos \in Int /\ stack # <<>> /\ Top.type # "none" /\ Top.type \in Types
  BY <1>1, AtElementFacts
<1>3. Item(Top.type) \in Types
  BY <1>2, TypeParts
<1>4. CASE Deserialize(Item(Top.type), Element.key)
  BY <1>2, <1>3, <1>4, DeserializeOK
<1>5. CASE FailInside(Element.caret)
  BY <1>2, <1>5, FailInsideOK
<1> QED
  BY <1>1, <1>4, <1>5

LEMMA MapElementOK ==
  ASSUME IInv, MapElement
  PROVE  IInv'
<1>1. AtElement("Map") /\ Deserialize(Item(Top.type), Element.key)
  BY DEF MapElement
<1>2. /\ InLoop /\ ~Element.caret.error /\ Element.key \in Seq(BsonByte)
      /\ Top.type \in Types
  BY <1>1, AtElementFacts
<1>3. Item(Top.type) \in Types
  BY <1>2, TypeParts
<1> QED
  BY <1>1, <1>2, <1>3, DeserializeOK

LEMMA FieldElementOK ==
  ASSUME IInv, FieldElement
  PROVE  IInv'
<1>1. /\ AtElement("Object") /\ IsField(Element.key)
      /\ Deserialize(FieldOf(Top.type, Element.key).type, Element.key)
  BY DEF FieldElement
<1>2. /\ InLoop /\ ~Element.caret.error /\ Element.key \in Seq(BsonByte)
      /\ Top.type \in Types
  BY <1>1, AtElementFacts
<1>3. FieldOf(Top.type, Element.key).type \in Types
  BY <1>1, <1>2, TypeParts DEF IsField
<1> QED
  BY <1>1, <1>2, <1>3, DeserializeOK

LEMMA SubSeqBytes ==
  ASSUME NEW s \in Seq(BsonByte), NEW a \in Nat, NEW m \in Int, m <= Len(s)
  PROVE  SubSeq(s, a + 1, m) \in Seq(BsonByte)
<1>1. \A i \in a + 1 .. m : i \in 1 .. Len(s)
  BY LenProperties
<1>2. \A i \in a + 1 .. m : s[i] \in BsonByte
  BY <1>1, ElementOfSeq
<1>3. a + 1 \in Int
  OBVIOUS
<1> QED
  BY <1>2, <1>3, SubSeqProperties

(* The element is not skipped: the method gives up. *)
LEMMA SkippingFails ==
  ASSUME IInv, InLoop, ~Element.caret.error, NEW e,
         e = SkipElement(Element.caret, Element.code), e.error, NEW q, Skipping(q)
  PROVE  FailInside(e) /\ e.pos \in Int /\ stack # <<>> /\ Top.type # "none"
<1>1. Element.code \in BsonByte /\ Within(Element.caret) /\ pc = "iterate"
  BY LoopFacts
<1>2. e.pos \in Int
  BY <1>1, SkipFrom, SoundParts DEF From
<1>3. FailInside(e)
  BY Zenon DEF Skipping
<1> QED
  BY <1>1, <1>2, <1>3, InFrame

(* What is copied are bytes, of the document and of what lies behind it.   *)
LEMMA SetAsideOK ==
  ASSUME IInv, AtElement("Object"), NEW behind \in Behind,
         ~SkipElement(Element.caret, Element.code).error
  PROVE  SetAside(behind) \in PolymorphData /\ SetAside(behind).key = Element.key
<1> DEFINE end == SkipElement(Element.caret, Element.code)
           all == Top.inner.data \o behind
           d   == SubSeq(all, Element.caret.pos + 1, end.pos)
<1>1. /\ Element.key \in Seq(BsonByte) /\ Element.code \in BsonByte
      /\ Within(Element.caret) /\ Element.caret.data = Top.inner.data
  BY AtElementFacts
<1>2. /\ From(Element.caret, end) /\ Element.caret.pos \in Nat
      /\ end.pos <= Len(Top.inner.data) + 16
  BY <1>1, SkipFrom, SkipReach, WithinSound
<1> HIDE DEF end
<1>3. end.pos \in Int /\ Top.inner.data \in Seq(BsonByte) /\ Len(Top.inner.data) \in Int
  BY <1>1, <1>2, SoundParts DEF From
<1>4. behind \in Seq(BsonByte) /\ Len(behind) >= 16 /\ Len(behind) \in Int
  BY BehindAssumption, LenProperties
<1>5. all \in Seq(BsonByte) /\ Len(all) = Len(Top.inner.data) + Len(behind)
  BY <1>3, <1>4, ConcatType
<1>6. end.pos <= Len(all)
  BY <1>2, <1>3, <1>4, <1>5
<1>7. SetAside(behind) = [key |-> Element.key, code |-> Element.code, data |-> d]
  BY Zenon DEF SetAside, end
<1> HIDE DEF all
<1>8. d \in Seq(BsonByte)
  BY <1>2, <1>3, <1>5, <1>6, SubSeqBytes
<1> HIDE DEF d
<1> QED
  BY <1>1, <1>7, <1>8 DEF PolymorphData

LEMMA SetAsideAlso ==
  ASSUME IInv, AtElement("Object"), IsField(Element.key),
         FieldOf(Top.type, Element.key).select # "none",
         NEW behind \in Behind, ~SkipElement(Element.caret, Element.code).error,
         NEW q, q = Append(Top.polymorphs, SetAside(behind))
  PROVE  q \in Seq(PolymorphData) /\ \A i \in DOMAIN q : IsPolymorph(Top.type, q[i].key)
<1> DEFINE ps == Top.polymorphs
           x  == SetAside(behind)
<1>1. x \in PolymorphData /\ IsPolymorph(Top.type, x.key)
  BY SetAsideOK DEF IsPolymorph, IsField
<1>2. /\ ps \in Seq(PolymorphData) /\ x \in PolymorphData
      /\ \A i \in DOMAIN ps : IsPolymorph(Top.type, ps[i].key)
      /\ IsPolymorph(Top.type, x.key)
  BY <1>1, AtElementFacts
<1> HIDE DEF ps, x
<1>3. /\ Append(ps, x) \in Seq(PolymorphData) /\ Len(ps) \in Nat
      /\ DOMAIN ps = 1 .. Len(ps) /\ DOMAIN Append(ps, x) = 1 .. Len(ps) + 1
      /\ \A i \in 1 .. Len(ps) : Append(ps, x)[i] = ps[i]
      /\ Append(ps, x)[Len(ps) + 1] = x
  BY <1>2, AppendProperties, LenProperties
<1>4. \A i \in 1 .. Len(ps) + 1 : i \in 1 .. Len(ps) \/ i = Len(ps) + 1
  BY <1>3
<1>5. \A i \in DOMAIN Append(ps, x) : IsPolymorph(Top.type, Append(ps, x)[i].key)
  BY <1>2, <1>3, <1>4
<1> QED
  BY <1>3, <1>5 DEF ps, x

LEMMA PolymorphElementOK ==
  ASSUME IInv, PolymorphElement
  PROVE  IInv'
<1>1. PICK behind \in Behind : Skipping(Append(Top.polymorphs, SetAside(behind)))
  BY DEF PolymorphElement
<1> DEFINE q == Append(Top.polymorphs, SetAside(behind))
           e == SkipElement(Element.caret, Element.code)
<1>2. /\ AtElement("Object") /\ IsField(Element.key)
      /\ FieldOf(Top.type, Element.key).select # "none" /\ Skipping(q)
  BY <1>1 DEF PolymorphElement
<1>3. InLoop /\ ~Element.caret.error
  BY <1>2 DEF AtElement
<1>4. CASE e.error
  <2> HIDE DEF q
  <2>1. FailInside(e) /\ e.pos \in Int /\ stack # <<>> /\ Top.type # "none"
    BY <1>2, <1>3, <1>4, SkippingFails
  <2> HIDE DEF e
  <2> QED
    BY <2>1, FailInsideOK
<1>5. CASE ~e.error
  <2>1. q \in Seq(PolymorphData) /\ \A i \in DOMAIN q : IsPolymorph(Top.type, q[i].key)
    BY <1>2, <1>5, SetAsideAlso
  <2> HIDE DEF q
  <2> QED
    BY <1>2, <1>3, <2>1, SkippingOK
<1> QED
  BY <1>4, <1>5

LEMMA UnknownElementOK ==
  ASSUME IInv, UnknownElement
  PROVE  IInv'
<1>1. /\ AtElement("Object")
      /\ Skipping(Top.polymorphs) \/ FailInside(Element.caret)
  BY DEF UnknownElement
<1>2. /\ InLoop /\ ~Element.caret.error /\ Top.polymorphs \in Seq(PolymorphData)
      /\ \A i \in DOMAIN Top.polymorphs : IsPolymorph(Top.type, Top.polymorphs[i].key)
      /\ Element.caret.pos \in Int /\ stack # <<>> /\ Top.type # "none"
  BY <1>1, AtElementFacts
<1>3. CASE Skipping(Top.polymorphs)
  BY <1>2, <1>3, SkippingOK
<1>4. CASE FailInside(Element.caret)
  BY <1>2, <1>4, FailInsideOK
<1> QED
  BY <1>1, <1>3, <1>4

-----------------------------------------------------------------------------
(* The end of a document. *)

LEMMA CloseFailsOK ==
  ASSUME IInv, CloseFails
  PROVE  IInv'
<1>1. pc = "iterate" /\ FailInside(Top.inner)
  BY DEF CloseFails
<1>2. stack # <<>> /\ Top.type # "none" /\ Top.inner.pos \in Int
  BY <1>1, InFrame, SoundParts
<1> QED
  BY <1>1, <1>2, FailInsideOK

LEMMA AtEnd ==
  ASSUME IInv, pc = "iterate", AtTerminator, NEW end, end = Inc(Top.inner, 1)
  PROVE  /\ Sound(end) /\ end.pos \in Nat /\ end.data = Top.inner.data
         /\ DataSize(end) = Len(Top.inner.data)
<1>1. Sound(Top.inner)
  BY InFrame
<1>2. ~Top.inner.error
  BY DEF AtTerminator, AtChar, CanContinue
<1>3. Top.inner.pos >= 0 /\ Top.inner.pos \in Int /\ Top.inner \in CaretState
  BY <1>1, <1>2, SoundParts DEF Sound
<1>4. From(Top.inner, end) /\ end.pos = Top.inner.pos + 1
  BY <1>3, IncFrom
<1> QED
  BY <1>3, <1>4 DEF From, DataSize

LEMMA ClosedFrom ==
  ASSUME IInv, pc = "iterate", AtTerminator, NEW STATE c, Sound(c)
  PROVE  /\ From(c, Closed(c))
         /\ \/ Closed(c).error
            \/ Closed(c).pos = c.pos + Len(Top.inner.data)
<1> DEFINE end == Inc(Top.inner, 1)
<1>1. end.pos \in Nat /\ DataSize(end) = Len(Top.inner.data)
  BY AtEnd
<1>2. Closed(c) = IF end.pos # DataSize(end) THEN Inc(SetError(Inc(c, end.pos)), end.pos)
                  ELSE Inc(c, end.pos)
  BY DEF Closed
<1> HIDE DEF end
<1>3. CASE end.pos # DataSize(end)
  <2> DEFINE g == SetError(Inc(c, end.pos))
             n == end.pos
  <2>1. From(c, g) /\ g.error
    BY <1>1, ErrorAfter
  <2>2. Closed(c) = Inc(g, n) /\ n \in Int
    BY <1>1, <1>2, <1>3
  <2> HIDE DEF g, n
  <2>3. g \in CaretState
    BY <2>1 DEF From, Sound
  <2>4. From(g, Inc(g, n)) /\ Inc(g, n).error = g.error
    BY <2>1, <2>2, <2>3, IncFrom, Zenon
  <2> QED
    BY <2>1, <2>2, <2>4, FromTrans
<1>4. CASE end.pos = DataSize(end)
  <2>1. Closed(c) = Inc(c, end.pos)
    BY <1>2, <1>4
  <2>2. c \in CaretState /\ (c.error \/ (c.pos >= 0 /\ end.pos >= 0))
    BY <1>1 DEF Sound
  <2>3. From(c, Closed(c)) /\ Closed(c).pos = c.pos + end.pos
    BY <1>1, <2>1, <2>2, IncFrom
  <2> QED
    BY <1>1, <1>4, <2>3
<1> QED
  BY <1>3, <1>4

(* The outermost document ends where its size field says. *)
LEMMA RootClosed ==
  ASSUME IInv, pc = "iterate", AtTerminator, Below(stack) = <<>>
  PROVE  Good(request, Closed(caret))
<1>1. stack # <<>> /\ Top.type # "none" /\ Top = stack[Len(stack)]
  BY InFrame
<1>2. Len(stack) = 1 /\ Opened(request, stack, pc, caret)
  BY <1>1, PopTop
<1>3. ~Finishing(stack, pc)
  BY <1>2, FinishingOne
<1>4. /\ caret = Inc(Start(request), 4)
      /\ Extent(request) \in Int /\ Extent(request) <= Len(request.data)
      /\ Len(Top.inner.data) = Extent(request) - 4
  <2>1. Within(Start(request))
    BY Facts
  <2>2. Extent(request) \in Int
    BY <2>1, Int32From DEF Extent
  <2> QED
    BY <1>1, <1>2, <1>3, <2>2 DEF Opened
<1>5. caret.pos = 4 /\ caret.data = request.data /\ Sound(caret)
  <2>1. Start(request) \in CaretState /\ Start(request).pos = 0 /\ Start(request).data = request.data
    BY Facts, CaretWithin, WithinSound DEF Start
  <2>2. caret.pos = 0 + 4 /\ caret.data = request.data
    BY <1>4, <2>1, IncState
  <2> QED
    BY <2>2, Facts DEF From
<1> DEFINE d == Closed(caret)
<1>6. /\ From(caret, d) /\ (d.error \/ d.pos = caret.pos + Len(Top.inner.data))
  BY <1>5, ClosedFrom
<1> HIDE DEF d
<1>7. d.error \/ d.pos = Extent(request)
  BY <1>4, <1>5, <1>6
<1>8. Left(d) = Len(request.data) - d.pos /\ Len(request.data) \in Nat
  BY <1>5, <1>6, Facts, SoundParts DEF From
<1>9. d.pos = Extent(request) => Left(d) >= 0
  BY <1>4, <1>8
<1> QED
  BY <1>7, <1>9 DEF Good, d

LEMMA CloseOK ==
  ASSUME IInv, Close
  PROVE  IInv'
<1> DEFINE b == Below(stack)
           c == Closed(CaretOf(b))
           s == IF b = <<>> THEN b ELSE [b EXCEPT ![Len(b)].inner = c]
           g == [Top EXCEPT !.inner = Inc(Top.inner, 1)]
<1>1. /\ pc = "iterate" /\ AtTerminator
      /\ \/ \E v : Return(b, c, Top.wraps, v)
         \/ /\ caret' = IF b = <<>> THEN c ELSE caret
            /\ stack' = Append(s, g)
            /\ pc' = "polymorphs"
            /\ UNCHANGED <<config, request, call, ret>>
  BY DEF Close
<1>2. /\ stack # <<>> /\ IsFrame(Top) /\ Top.type # "none" /\ Top = stack[Len(stack)]
  BY <1>1, InFrame
<1>3. /\ IsStack(b) /\ Sound(CaretOf(b))
      /\ b # <<>> => RootOK(request, b, "returned", caret) /\ Len(stack) >= 2
      /\ b = <<>> => /\ Len(stack) = 1 /\ CaretOf(b) = caret
                    /\ Opened(request, stack, pc, caret)
  BY <1>2, PopTop
<1>4. From(CaretOf(b), c) /\ Sound(c)
  BY <1>1, <1>3, ClosedFrom DEF From
<1>5. b = <<>> => Good(request, c)
  BY <1>1, <1>3, RootClosed
<1> HIDE DEF c
<1>6. ASSUME NEW v, Return(b, c, Top.wraps, v)
      PROVE  IInv'
  <2> HIDE DEF b
  <2> QED
    BY <1>3, <1>4, <1>5, <1>6, ReturnOK
<1>7. ASSUME caret' = IF b = <<>> THEN c ELSE caret, stack' = Append(s, g),
             pc' = "polymorphs", UNCHANGED <<config, request, call, ret>>
      PROVE  IInv'
  <2>1. IsFrame(g) /\ g.type = Top.type /\ g.inner.data = Top.inner.data
    <3> DEFINE end == Inc(Top.inner, 1)
    <3>1. Sound(end) /\ end.data = Top.inner.data
      BY <1>1, AtEnd
    <3> HIDE DEF end
    <3>2. /\ IsFrame([Top EXCEPT !.inner = end]) /\ [Top EXCEPT !.inner = end].inner = end
          /\ [Top EXCEPT !.inner = end].type = Top.type
      BY <1>2, <3>1, FrameInner
    <3> QED
      BY <3>1, <3>2 DEF end
  <2> HIDE DEF g
  <2>2. IsCall(call)' /\ "polymorphs" \in Pcs /\ "polymorphs" # "done"
    BY <1>7, Facts DEF Pcs
  <2>3. CASE b = <<>>
    <3> DEFINE u == Append(<<>>, g)
    <3>1. stack' = u /\ caret' = c
      BY <1>7, <2>3
    <3>2. PushOn(<<>>, g, u)
      BY DEF PushOn
    <3> HIDE DEF u
    <3>3. IsStack(u) /\ u # <<>> /\ Len(u) = 1 /\ u[1] = g
      <4>1. IsStack(<<>>) /\ Len(<<>>) = 0
        BY EmptyStack
      <4>2. IsStack(u) /\ u # <<>> /\ Len(u) = Len(<<>>) + 1 /\ u[Len(u)] = g
        BY <2>1, <3>2, <4>1, PushTop, Zenon
      <4> QED
        BY <4>1, <4>2
    <3>4. From(Start(request), c)
      BY <1>3, <1>4, <2>3, Facts, FromTrans
    <3>5. Opened(request, u, "polymorphs", c)
      <4>1. Finishing(u, "polymorphs")
        BY <3>3, FinishingOne
      <4>2. /\ 4 <= Extent(request) /\ Extent(request) <= Len(request.data)
            /\ Len(Top.inner.data) = Extent(request) - 4
        BY <1>2, <1>3, <2>3 DEF Opened
      <4>3. u[1].type # "none" /\ u[1].inner.data = Top.inner.data
        BY <1>2, <2>1, <3>3
      <4> QED
        BY <1>5, <2>3, <4>1, <4>2, <4>3 DEF Opened
    <3>6. RootOK(request, u, "polymorphs", c)
      BY <3>3, <3>4, <3>5 DEF RootOK, Layered
    <3>7. u[Len(u)].type # "none"
      BY <1>2, <2>1, <3>3
    <3> QED
      BY <1>7, <2>2, <3>1, <3>3, <3>6, <3>7, Establish
  <2>4. CASE b # <<>>
    <3>1. MoveOn(b, c, s) /\ caret' = caret
      BY <1>7, <2>4 DEF MoveOn
    <3>2. c.data = b[Len(b)].inner.data
      BY <1>4, <2>4 DEF From, CaretOf
    <3> HIDE DEF b, s
    <3>3. RootOK(request, b, "returned", caret) /\ "returned" # "done"
      BY <1>3, <2>4
    <3>4. RootOK(request, s, "returned", caret)
      BY <1>3, <1>4, <2>4, <3>1, <3>2, <3>3, MoveRoot, Zenon
    <3>5. IsStack(s) /\ s # <<>>
      BY <1>3, <1>4, <2>4, <3>1, MoveTop, Zenon
    <3> DEFINE u == Append(s, g)
    <3>6. stack' = u /\ PushOn(s, g, u)
      BY <1>7 DEF PushOn
    <3> HIDE DEF u
    <3>7. ~Finishing(s, "returned") \/ Len(s) # 1
      BY FinishingOne
    <3>8. g.type # "none"
      BY <1>2, <2>1
    <3>9. RootOK(request, u, "polymorphs", caret)
      BY <2>1, <2>2, <3>4, <3>5, <3>6, <3>7, <3>8, RootPush, Zenon
    <3>10. IsStack(u) /\ u # <<>> /\ u[Len(u)] = g
      BY <2>1, <3>5, <3>6, PushTop, Zenon
    <3> QED
      BY <1>7, <2>2, <3>1, <3>6, <3>8, <3>9, <3>10, Establish
  <2> QED
    BY <2>3, <2>4
<1> HIDE DEF b, s, g
<1> QED
  BY <1>1, <1>6, <1>7

LEMMA ReturnObjectOK ==
  ASSUME IInv, ReturnObject
  PROVE  IInv'
<1> DEFINE b == Below(stack)
           v == Value("Object", <<>>, Top.items)
<1>1. pc = "polymorphs" /\ Return(b, CaretOf(b), Top.wraps, v)
  BY DEF ReturnObject
<1>2. stack # <<>> /\ Top.type # "none"
  BY <1>1, InFrame
<1>3. /\ IsStack(b) /\ Sound(CaretOf(b))
      /\ b # <<>> => RootOK(request, b, "returned", caret)
      /\ b = <<>> => /\ Len(stack) = 1 /\ CaretOf(b) = caret
                    /\ Opened(request, stack, pc, caret)
  BY <1>2, PopTop
<1>4. b = <<>> => Good(request, CaretOf(b))
  BY <1>1, <1>3, FinishingOne DEF Opened
<1>5. From(CaretOf(b), CaretOf(b))
  BY <1>3 DEF From
<1> HIDE DEF b, v
<1> QED
  BY <1>1, <1>3, <1>4, <1>5, ReturnOK

(* The elements set aside, the first and the others. *)
LEMMA NextSetAside ==
  ASSUME IInv, pc = "polymorphs", Top.polymorphs # <<>>
  PROVE  /\ Head(Top.polymorphs) \in PolymorphData
         /\ IsPolymorph(Top.type, Head(Top.polymorphs).key)
         /\ Tail(Top.polymorphs) \in Seq(PolymorphData)
         /\ \A i \in DOMAIN Tail(Top.polymorphs) :
              IsPolymorph(Top.type, Tail(Top.polymorphs)[i].key)
<1> DEFINE ps == Top.polymorphs
<1>1. /\ ps \in Seq(PolymorphData) /\ ps # <<>>
      /\ \A i \in DOMAIN ps : IsPolymorph(Top.type, ps[i].key)
  BY InFrame
<1> HIDE DEF ps
<1>2. /\ Len(ps) \in Nat /\ Len(ps) # 0 /\ DOMAIN ps = 1 .. Len(ps)
  BY <1>1, LenProperties, EmptySeq
<1>3. /\ Head(ps) \in PolymorphData /\ Head(ps) = ps[1] /\ 1 \in DOMAIN ps
  BY <1>1, <1>2
<1>4. /\ Tail(ps) \in Seq(PolymorphData) /\ Len(Tail(ps)) = Len(ps) - 1
      /\ \A i \in 1 .. Len(Tail(ps)) : Tail(ps)[i] = ps[i + 1]
  BY <1>1, HeadTailProperties
<1>5. DOMAIN Tail(ps) = 1 .. Len(Tail(ps))
  BY <1>4, LenProperties
<1>6. \A i \in 1 .. Len(Tail(ps)) : i + 1 \in DOMAIN ps
  BY <1>2, <1>4
<1>7. \A i \in DOMAIN Tail(ps) : IsPolymorph(Top.type, Tail(ps)[i].key)
  BY <1>1, <1>4, <1>5, <1>6
<1> QED
  BY <1>1, <1>3, <1>4, <1>7 DEF ps

PolymorphFrame(p, g) ==
  g = [ type |-> "none", wraps |-> <<>>, inner |-> Caret(p.data), index |-> 0,
        key |-> p.key, items |-> <<>>, polymorphs |-> <<>> ]

LEMMA PolymorphFrameOK ==
  ASSUME NEW p \in PolymorphData, NEW g, PolymorphFrame(p, g)
  PROVE  /\ IsFrame(g) /\ g.type = "none" /\ g.inner = Caret(p.data)
         /\ Within(g.inner) /\ ~g.inner.error
<1> DEFINE c == Caret(p.data)
           k == p.key
<1>1. p.data \in Seq(BsonByte) /\ p.key \in Seq(BsonByte)
  BY DEF PolymorphData
<1>2. Within(c) /\ Sound(c) /\ ~c.error
  BY <1>1, CaretWithin, WithinSound
<1>3. g = [ type |-> "none", wraps |-> <<>>, inner |-> c, index |-> 0, key |-> k,
            items |-> <<>>, polymorphs |-> <<>> ] /\ k \in Seq(BsonByte)
  BY <1>1 DEF PolymorphFrame
<1> HIDE DEF c, k
<1>4. <<>> \in Seq(PolymorphData) /\ DOMAIN <<>> = {}
  OBVIOUS
<1> QED
  BY <1>2, <1>3, <1>4 DEF IsFrame, c

LEMMA OpenPolymorphOK ==
  ASSUME IInv, OpenPolymorph
  PROVE  IInv'
<1> DEFINE p == Head(Top.polymorphs)
           q == Tail(Top.polymorphs)
           n == Len(stack)
           f == [stack[n] EXCEPT !.polymorphs = q]
           s == [stack EXCEPT ![n].polymorphs = Tail(@)]
           g == [ type |-> "none", wraps |-> <<>>, inner |-> Caret(p.data),
                  index |-> 0, key |-> p.key, items |-> <<>>, polymorphs |-> <<>> ]
           a == [ type |-> SelectType(Top.type, p.key, Top.items), code |-> p.code,
                  wraps |-> <<"Any">> ]
<1>1. /\ pc = "polymorphs" /\ Top.polymorphs # <<>> /\ call' = a
      /\ stack' = Append(s, g) /\ pc' = "call" /\ UNCHANGED <<config, request, caret, ret>>
  BY DEF OpenPolymorph
<1>2. /\ stack # <<>> /\ IsFrame(Top) /\ Top = stack[n] /\ IsStack(stack)
      /\ Top.type # "none" /\ Top.type \in Types
      /\ Top.polymorphs \in Seq(PolymorphData)
      /\ \A i \in DOMAIN Top.polymorphs : IsPolymorph(Top.type, Top.polymorphs[i].key)
  BY <1>1, InFrame
<1>3. /\ p \in PolymorphData /\ IsPolymorph(Top.type, p.key)
      /\ q \in Seq(PolymorphData)
      /\ \A i \in DOMAIN q : IsPolymorph(Top.type, q[i].key)
  BY <1>1, NextSetAside
<1>4. s = [stack EXCEPT ![n] = f]
  BY <1>2
<1> HIDE DEF q
<1>5. IsFrame(f) /\ f.inner = Top.inner /\ f.type = Top.type
  <2>1. \A i \in DOMAIN q : Top.type # "none" /\ IsPolymorph(Top.type, q[i].key)
    BY <1>2, <1>3
  <2>2. /\ IsFrame([Top EXCEPT !.polymorphs = q]) /\ [Top EXCEPT !.polymorphs = q].inner = Top.inner
        /\ [Top EXCEPT !.polymorphs = q].type = Top.type
    BY <1>2, <1>3, <2>1, FramePolymorphs
  <2> QED
    BY <1>2, <2>2
<1>6. PutOn(stack, f, s)
  BY <1>4 DEF PutOn
<1> HIDE DEF f, s
<1>7. /\ RootOK(request, stack, "polymorphs", caret) /\ "polymorphs" # "done"
      /\ f.type = stack[Len(stack)].type /\ f.inner.data = stack[Len(stack)].inner.data
  BY <1>1, <1>2, <1>5, Facts
<1>8. RootOK(request, s, "polymorphs", caret)
  BY <1>2, <1>5, <1>6, <1>7, RootPut, Zenon
<1>9. IsStack(s) /\ s # <<>> /\ Len(s) = Len(stack) /\ s[Len(s)] = f
  BY <1>2, <1>5, <1>6, PutTop
<1>10. p.data \in Seq(BsonByte) /\ p.key \in Seq(BsonByte) /\ p.code \in BsonByte
  BY <1>3 DEF PolymorphData
<1>11. /\ IsFrame(g) /\ g.type = "none" /\ g.inner = Caret(p.data)
       /\ Within(g.inner) /\ ~g.inner.error
  <2> HIDE DEF g
  <2>1. PolymorphFrame(p, g)
    BY DEF PolymorphFrame, g
  <2> HIDE DEF p
  <2> QED
    BY <1>3, <2>1, PolymorphFrameOK
<1>12. IsCall(a) /\ "call" \in Pcs /\ "call" # "done"
  <2>1. SelectType(Top.type, p.key, Top.items) \in Types
    BY <1>2, <1>3, SelectedType
  <2> QED
    BY <1>10, <2>1 DEF IsCall, Pcs
<1> DEFINE u == Append(s, g)
<1>13. stack' = u /\ PushOn(s, g, u)
  BY <1>1 DEF PushOn
<1> HIDE DEF u, g, a, p
<1>14. Len(s) = 1 => (Finishing(s, "polymorphs") <=> (g.type = "none"))
  BY <1>11, FinishingOne
<1>15. s[Len(s)].type # "none"
  BY <1>2, <1>5, <1>9
<1>16. RootOK(request, u, "call", caret)
  BY <1>8, <1>9, <1>11, <1>12, <1>13, <1>14, <1>15, RootPush, Zenon
<1>17. IsStack(u) /\ u # <<>> /\ u[Len(u)] = g
  BY <1>9, <1>11, <1>13, PushTop, Zenon
<1>18. Within(CaretIn(caret, u)) /\ ~CaretIn(caret, u).error
  BY <1>11, <1>17 DEF CaretIn
<1> QED
  BY <1>1, <1>12, <1>13, <1>16, <1>17, <1>18, Establish

-----------------------------------------------------------------------------
(* What the caller does with the value. *)

LEMMA KeepOK ==
  ASSUME IInv, pc = "returned", stack # <<>>, Top.type # "none",
         NEW STATE f, IsFrame(f), f.type = Top.type, f.inner = Top.inner, Keep(f)
  PROVE  IInv'
<1> DEFINE t == [stack EXCEPT ![Len(stack)] = f]
<1>1. /\ stack' = t /\ pc' = "iterate" /\ UNCHANGED <<config, request, caret, call, ret>>
  BY DEF Keep
<1>2. PutOn(stack, f, t)
  BY DEF PutOn
<1> HIDE DEF t
<1>3. /\ IsStack(stack) /\ RootOK(request, stack, "returned", caret) /\ "iterate" # "done"
      /\ f.type = stack[Len(stack)].type /\ f.inner.data = stack[Len(stack)].inner.data
      /\ ("returned" = "polymorphs") <=> ("iterate" = "polymorphs")
  BY Facts
<1>4. RootOK(request, t, "iterate", caret)
  BY <1>2, <1>3, RootPut, Zenon
<1>5. IsStack(t) /\ t # <<>> /\ Len(t) = Len(stack) /\ t[Len(t)] = f
  BY <1>2, <1>3, PutTop
<1>6. IsCall(call)' /\ "iterate" \in Pcs
  BY <1>1, Facts DEF Pcs
<1> QED
  BY <1>1, <1>4, <1>5, <1>6, Establish

LEMMA ReceiveItemOK ==
  ASSUME IInv, ReceiveItem
  PROVE  IInv'
<1> DEFINE x == Append(Top.items, Entry(<<>>, ret))
           f == [Top EXCEPT !.items = x, !.index = Top.index + 1]
<1>1. /\ pc = "returned" /\ stack # <<>> /\ Top.type # "none"
      /\ FailInside(Top.inner) \/ Keep(f)
  BY DEF ReceiveItem, Receiving
<1>2. IsFrame(Top) /\ Top.inner.pos \in Int
  BY <1>1, Facts, SoundParts
<1> HIDE DEF x
<1>3. IsFrame(f) /\ f.inner = Top.inner /\ f.type = Top.type
  BY <1>2, FrameItem
<1> HIDE DEF f
<1>4. CASE FailInside(Top.inner)
  BY <1>1, <1>2, <1>4, FailInsideOK
<1>5. CASE Keep(f)
  BY <1>1, <1>3, <1>5, KeepOK
<1> QED
  BY <1>1, <1>4, <1>5

LEMMA ReceiveValueOK ==
  ASSUME IInv, ReceiveValue
  PROVE  IInv'
<1> DEFINE x == Append(Top.items, Entry(Top.key, ret))
           f == [Top EXCEPT !.items = x]
<1>1. pc = "returned" /\ stack # <<>> /\ Top.type # "none" /\ Keep(f)
  BY DEF ReceiveValue, Receiving
<1>2. IsFrame(Top)
  BY <1>1, Facts
<1> HIDE DEF x
<1>3. IsFrame(f) /\ f.inner = Top.inner /\ f.type = Top.type
  BY <1>2, FrameItems
<1> HIDE DEF f
<1> QED
  BY <1>1, <1>3, KeepOK

LEMMA ReceiveFieldOK ==
  ASSUME IInv, ReceiveField
  PROVE  IInv'
<1> DEFINE x == Set(Top.items, Top.key, ret)
           f == [Top EXCEPT !.items = x]
<1>1. pc = "returned" /\ stack # <<>> /\ Top.type # "none" /\ Keep(f)
  BY DEF ReceiveField, Receiving
<1>2. IsFrame(Top)
  BY <1>1, Facts
<1> HIDE DEF x
<1>3. IsFrame(f) /\ f.inner = Top.inner /\ f.type = Top.type
  BY <1>2, FrameItems
<1> HIDE DEF f
<1> QED
  BY <1>1, <1>3, KeepOK

LEMMA ReceivePolymorphOK ==
  ASSUME IInv, ReceivePolymorph
  PROVE  IInv'
<1> DEFINE b == Below(stack)
           x == Set(b[Len(b)].items, Top.key, ret)
           f == [b[Len(b)] EXCEPT !.items = x]
           t == [b EXCEPT ![Len(b)] = f]
<1>1. /\ pc = "returned" /\ stack # <<>> /\ Top.type = "none"
      /\ stack' = [b EXCEPT ![Len(b)].items = Set(@, Top.key, ret)]
      /\ pc' = "polymorphs" /\ UNCHANGED <<config, request, caret, call, ret>>
  BY DEF ReceivePolymorph
<1>2. stack' = t
  BY <1>1
<1> HIDE DEF x
<1>3. /\ IsStack(stack) /\ RootOK(request, stack, "returned", caret) /\ Top = stack[Len(stack)]
      /\ Len(stack) \in Nat /\ Len(stack) >= 1
  BY <1>1, Facts
<1>4. Len(stack) >= 2
  <2>1. stack[1].type # "none"
    BY <1>1, <1>3 DEF RootOK, Opened
  <2>2. Len(stack) # 1
    BY <1>1, <1>3, <2>1
  <2> QED
    BY <1>3, <2>2
<1>5. /\ IsStack(b) /\ Len(b) = Len(stack) - 1 /\ b[Len(b)] = stack[Len(stack) - 1]
  <2>1. IsStack(b) /\ Len(b) = Len(stack) - 1 /\ \A i \in 1 .. Len(stack) - 1 : b[i] = stack[i]
    BY <1>1, <1>3, PopStack
  <2>2. Len(stack) - 1 \in 1 .. Len(stack) - 1
    BY <1>3, <1>4
  <2> QED
    BY <2>1, <2>2
<1>6. RootOK(request, b, "polymorphs", caret)
  <2> HIDE DEF b
  <2>1. b = Below(stack)
    BY DEF b
  <2>2. Len(stack) = 2 => ((stack[2].type = "none") <=> ("polymorphs" = "polymorphs"))
    BY <1>1, <1>3
  <2>3. "polymorphs" # "done"
    OBVIOUS
  <2> QED
    BY <1>3, <1>4, <2>1, <2>2, <2>3, RootPop
<1>7. b # <<>> /\ IsFrame(b[Len(b)])
  <2> HIDE DEF b
  <2>1. Len(b) # 0 /\ Len(b) \in 1 .. Len(b)
    BY <1>3, <1>4, <1>5
  <2> QED
    BY <1>5, <2>1, StackParts
<1>8. b[Len(b)].type # "none"
  <2>1. Len(stack) \in 2 .. Len(stack)
    BY <1>3, <1>4
  <2> QED
    BY <1>1, <1>3, <1>5, <2>1 DEF RootOK, Layered
<1> HIDE DEF b
<1>9. IsFrame(f) /\ f.inner = b[Len(b)].inner /\ f.type = b[Len(b)].type
  BY <1>7, FrameItems
<1>10. PutOn(b, f, t)
  BY DEF PutOn
<1> HIDE DEF f, t
<1>11. RootOK(request, t, "polymorphs", caret)
  <2>1. "polymorphs" # "done" /\ f.inner.data = b[Len(b)].inner.data
    BY <1>9
  <2> QED
    BY <1>5, <1>6, <1>7, <1>9, <1>10, <2>1, RootPut, Zenon
<1>12. IsStack(t) /\ t # <<>> /\ Len(t) = Len(b) /\ t[Len(t)] = f
  BY <1>5, <1>7, <1>9, <1>10, PutTop
<1>13. IsCall(call)' /\ "polymorphs" \in Pcs /\ t[Len(t)].type # "none"
  BY <1>1, <1>8, <1>9, <1>12, Facts DEF Pcs
<1> QED
  BY <1>1, <1>2, <1>11, <1>12, <1>13, Establish

LEMMA ReadReturnsOK ==
  ASSUME IInv, ReadReturns
  PROVE  IInv'
<1>1. /\ pc = "returned" /\ stack = <<>> /\ pc' = "done"
      /\ UNCHANGED <<config, request, caret, stack, call, ret>>
  BY DEF ReadReturns
<1>2. RootOK(request, stack, "returned", caret) /\ IsStack(stack)
  BY <1>1, Facts
<1>3. RootOK(request, stack, "done", caret)
  BY <1>1, <1>2 DEF RootOK
<1>4. IsCall(call)' /\ "done" \in Pcs
  BY <1>1, Facts DEF Pcs
<1> QED
  BY <1>1, <1>2, <1>3, <1>4, Establish

LEMMA StutterOK ==
  ASSUME IInv, UNCHANGED vars
  PROVE  IInv'
<1>1. /\ config' = config /\ request' = request /\ caret' = caret /\ stack' = stack
      /\ call' = call /\ ret' = ret /\ pc' = pc
  BY DEF vars
<1>2. Top' = Top /\ Here' = Here
  BY <1>1 DEF Top, Here, CaretOf
<1> QED
  BY <1>1, <1>2 DEF IInv

-----------------------------------------------------------------------------
LEMMA InitInv ==
  ASSUME Init
  PROVE  IInv
<1>1. /\ config \in [allowUnknownFields : BOOLEAN] /\ request \in Requests
      /\ caret = Start(request) /\ stack = <<>> /\ pc = "call"
      /\ call = [type |-> request.type, code |-> DOCUMENT_ROOT, wraps |-> <<>>]
  BY DEF Init, Start
<1>2. request.type \in Types /\ request.data \in Seq(BsonByte)
  BY <1>1, RequestsAssumption
<1>3. Within(caret) /\ ~caret.error /\ From(caret, caret)
  <2> DEFINE c == Caret(request.data)
  <2>1. Within(c) /\ ~c.error
    BY <1>2, CaretWithin
  <2>2. caret = c
    BY <1>1 DEF Start
  <2> HIDE DEF c
  <2> QED
    BY <2>1, <2>2, WithinSound DEF From
<1>4. IsCall(call)
  <2>1. DOCUMENT_ROOT \in BsonByte
    BY DEF DOCUMENT_ROOT, BsonByte
  <2> QED
    BY <1>1, <1>2, <2>1 DEF IsCall
<1>5. Here = caret
  BY <1>1 DEF Here, CaretOf
<1>6. IsStack(stack) /\ Layered(stack) /\ pc \in Pcs
  BY <1>1, EmptyStack, StackParts DEF Layered, Pcs
<1>7. RootOK(request, stack, pc, caret)
  BY <1>1, <1>3, <1>6 DEF RootOK
<1>8. call.code = DOCUMENT_ROOT
  BY <1>1
<1> QED
  BY <1>1, <1>3, <1>4, <1>5, <1>6, <1>7, <1>8 DEF IInv

LEMMA NextInv ==
  ASSUME IInv, [Next]_vars
  PROVE  IInv'
<1>1. CASE DeserializeScalar      BY <1>1, DeserializeScalarOK
<1>2. CASE DeserializeInlineDocs  BY <1>2, DeserializeInlineDocsOK
<1>3. CASE DeserializeAny         BY <1>3, DeserializeAnyOK
<1>4. CASE DeserializeEnum        BY <1>4, DeserializeEnumOK
<1>5. CASE DeserializeInterpreted BY <1>5, DeserializeInterpretedOK
<1>6. CASE DeserializeUnknown     BY <1>6, DeserializeUnknownOK
<1>7. CASE OpenCompound           BY <1>7, OpenCompoundOK
<1>8. CASE KeyFails               BY <1>8, KeyFailsOK
<1>9. CASE CollectionElement      BY <1>9, CollectionElementOK
<1>10. CASE MapElement            BY <1>10, MapElementOK
<1>11. CASE FieldElement          BY <1>11, FieldElementOK
<1>12. CASE PolymorphElement      BY <1>12, PolymorphElementOK
<1>13. CASE UnknownElement        BY <1>13, UnknownElementOK
<1>14. CASE CloseFails            BY <1>14, CloseFailsOK
<1>15. CASE Close                 BY <1>15, CloseOK
<1>16. CASE OpenPolymorph         BY <1>16, OpenPolymorphOK
<1>17. CASE ReturnObject          BY <1>17, ReturnObjectOK
<1>18. CASE ReceiveItem           BY <1>18, ReceiveItemOK
<1>19. CASE ReceiveValue          BY <1>19, ReceiveValueOK
<1>20. CASE ReceiveField          BY <1>20, ReceiveFieldOK
<1>21. CASE ReceivePolymorph      BY <1>21, ReceivePolymorphOK
<1>22. CASE ReadReturns           BY <1>22, ReadReturnsOK
<1>23. CASE UNCHANGED vars        BY <1>23, StutterOK
<1> QED
  BY <1>1, <1>2, <1>3, <1>4, <1>5, <1>6, <1>7, <1>8, <1>9, <1>10, <1>11, <1>12, <1>13,
     <1>14, <1>15, <1>16, <1>17, <1>18, <1>19, <1>20, <1>21, <1>22, <1>23
     DEF Next, Step, Finished

(* The invariant behind the theorems below: the frames are those of        *)
(* documents within documents, each on a copy of its part of the caller's  *)
(* bytes, and the caller's caret is moved over a document exactly once.    *)
LEMMA Invariance == Spec => []IInv
<1>1. Init => IInv
  BY InitInv
<1>2. IInv /\ [Next]_vars => IInv'
  BY NextInv
<1> QED
  BY <1>1, <1>2, PTL DEF Spec

(* Every caret stays one over bytes and every loop has its frame, for any  *)
(* types and any bytes, damaged ones included. *)
THEOREM TypeCorrect == Spec => []TypeOK
<1>1. IInv => TypeOK
  <2> SUFFICES ASSUME IInv PROVE TypeOK
    OBVIOUS
  <2>1. /\ config \in [allowUnknownFields : BOOLEAN] /\ request \in Requests
        /\ call.type \in Types /\ call.code \in BsonByte /\ pc \in Pcs
        /\ pc \in {"iterate", "polymorphs"} => stack # <<>> /\ Top.type # "none"
    BY DEF IInv, IsCall
  <2>2. caret \in CaretState /\ IsStack(stack)
    BY Facts
  <2>3. ASSUME NEW i \in DOMAIN stack
        PROVE  /\ stack[i].type \in Types \cup {"none"} /\ stack[i].inner \in CaretState
               /\ stack[i].index \in Nat /\ stack[i].key \in Seq(BsonByte)
               /\ stack[i].polymorphs \in Seq(PolymorphData)
    <3>1. IsFrame(stack[i])
      BY <2>2, <2>3, StackParts
    <3> QED
      BY <3>1 DEF IsFrame, Sound
  <2> QED
    BY <2>1, <2>2, <2>3 DEF TypeOK, Pcs
<1> QED
  BY <1>1, Invariance, PTL

(* A read that reports no error has consumed the document its size field   *)
(* announces and nothing else, whatever carets it has gone through.        *)
THEOREM WholeDocuments == Spec => []WholeDocument
<1>1. IInv => WholeDocument
  <2> SUFFICES ASSUME IInv, pc = "done", ~caret.error
               PROVE  caret.pos = ReadInt32(Caret(request.data)).value /\ Left(caret) >= 0
    BY DEF WholeDocument
  <2>1. Good(request, caret)
    BY Facts DEF RootOK
  <2> QED
    BY <2>1 DEF Good, Extent, Start
<1> QED
  BY <1>1, Invariance, PTL

-----------------------------------------------------------------------------
(* Values without holes.  That a value is whole is said of the set of its  *)
(* parts, so that no induction over values is needed. *)

WithoutHoles(S) == Nil \notin S /\ \A x \in S : Held(x) \subseteq S

Whole(v) == \E S : v \in S /\ WithoutHoles(S)

Filled(items) == \A i \in DOMAIN items : items[i].select = "none" => Whole(items[i].value)

LEMMA WholeIsNotNil ==
  ASSUME NEW v, Whole(v)
  PROVE  v # Nil
BY DEF Whole, WithoutHoles

LEMMA HeldIsWhole ==
  ASSUME NEW v, Filled(v.items), NEW x \in Held(v)
  PROVE  Whole(x)
<1>1. PICK i \in { j \in DOMAIN v.items : v.items[j].select = "none" } : x = v.items[i].value
  BY DEF Held
<1> QED
  BY <1>1 DEF Filled

(* A value is whole if what it holds is. *)
LEMMA Assembled ==
  ASSUME NEW v, v # Nil, Filled(v.items)
  PROVE  Whole(v)
<1> DEFINE P(x) == CHOOSE S : x \in S /\ WithoutHoles(S)
           T == {v} \cup UNION { P(x) : x \in Held(v) }
<1>1. ASSUME NEW x \in Held(v)
      PROVE  x \in P(x) /\ WithoutHoles(P(x))
  <2>1. \E S : x \in S /\ WithoutHoles(S)
    BY HeldIsWhole DEF Whole
  <2> QED
    BY <2>1
<1> HIDE DEF P
<1>2. Nil \notin T
  <2>1. ASSUME NEW x \in Held(v)
        PROVE  Nil \notin P(x)
    BY <1>1 DEF WithoutHoles
  <2> QED
    BY <2>1
<1>3. ASSUME NEW y \in T
      PROVE  Held(y) \subseteq T
  <2>1. CASE y = v
    <3>1. ASSUME NEW x \in Held(v)
          PROVE  x \in T
      BY <1>1
    <3> HIDE DEF T
    <3> QED
      BY <2>1, <3>1
  <2>2. CASE y # v
    <3>1. PICK x \in Held(v) : y \in P(x)
      BY <2>2
    <3>2. Held(y) \subseteq P(x)
      BY <1>1, <3>1 DEF WithoutHoles
    <3>3. P(x) \subseteq T
      OBVIOUS
    <3> QED
      BY <3>2, <3>3
  <2> QED
    BY <2>1, <2>2
<1>4. v \in T
  OBVIOUS
<1> HIDE DEF T
<1> QED
  BY <1>2, <1>3, <1>4 DEF Whole, WithoutHoles

(* Parts: its recursive function exists, and what it gives is parts.       *)
Levels(v, n, f) ==
  f = [i \in 0 .. n |-> IF i = 0 THEN {v} ELSE UNION { Held(x) : x \in f[i - 1] }]

LEMMA LevelsExist ==
  ASSUME NEW v, NEW m \in Nat
  PROVE  \E f : Levels(v, m, f)
<1> DEFINE L(f, i) == IF i = 0 THEN {v} ELSE UNION { Held(x) : x \in f[i - 1] }
           T == { n \in Nat : \E f : Levels(v, n, f) }
<1>1. 0 \in T
  <2> DEFINE f == [i \in 0 .. 0 |-> {v}]
  <2>1. f = [i \in 0 .. 0 |-> L(f, i)]
    OBVIOUS
  <2>2. Levels(v, 0, f)
    BY <2>1 DEF Levels
  <2> QED
    BY <2>2
<1>2. ASSUME NEW n \in T
      PROVE  n + 1 \in T
  <2>1. PICK f : Levels(v, n, f)
    OBVIOUS
  <2> DEFINE g == [i \in 0 .. n + 1 |-> IF i = n + 1 THEN L(f, i) ELSE f[i]]
  <2>2. \A i \in 0 .. n : f[i] = L(f, i)
    BY <2>1 DEF Levels
  <2>3. \A i \in 0 .. n : i \in 0 .. n + 1 /\ i # n + 1
    OBVIOUS
  <2>4. \A i \in 0 .. n : g[i] = f[i]
    BY <2>3
  <2>5. ASSUME NEW i \in 0 .. n + 1
        PROVE  g[i] = L(f, i)
    <3>1. i = n + 1 \/ i \in 0 .. n
      OBVIOUS
    <3> HIDE DEF L
    <3> QED
      BY <2>2, <3>1
  <2>6. ASSUME NEW i \in 0 .. n + 1
        PROVE  L(g, i) = L(f, i)
    <3>1. i = 0 \/ i - 1 \in 0 .. n
      OBVIOUS
    <3>2. CASE i = 0
      BY <3>2
    <3>3. CASE i - 1 \in 0 .. n
      <4>1. g[i - 1] = f[i - 1]
        BY <2>4, <3>3
      <4> HIDE DEF g
      <4> QED
        BY <4>1
    <3> QED
      BY <3>1, <3>2, <3>3
  <2>7. g = [i \in 0 .. n + 1 |-> L(g, i)]
    <3>1. \A i \in 0 .. n + 1 : g[i] = L(g, i)
      BY <2>5, <2>6
    <3>2. g = [i \in 0 .. n + 1 |-> g[i]]
      OBVIOUS
    <3> HIDE DEF g, L
    <3> QED
      BY <3>1, <3>2
  <2> HIDE DEF g
  <2>8. Levels(v, n + 1, g)
    BY <2>7 DEF Levels
  <2> QED
    BY <2>8
<1> HIDE DEF T
<1>3. T = Nat
  BY <1>1, <1>2, AllNaturals DEF T
<1> QED
  BY <1>3 DEF T

LEMMA PartsOfWhole ==
  ASSUME NEW v, Whole(v), NEW n \in Nat
  PROVE  Nil \notin Parts(v, n)
<1> DEFINE f == CHOOSE g : g = [i \in 0 .. n |->
                  IF i = 0 THEN {v} ELSE UNION { Held(x) : x \in g[i - 1] }]
<1>1. Parts(v, n) = f[n]
  BY DEF Parts
<1>2. \E g : g = [i \in 0 .. n |-> IF i = 0 THEN {v} ELSE UNION { Held(x) : x \in g[i - 1] }]
  <2>1. PICK g : Levels(v, n, g)
    BY LevelsExist
  <2> QED
    BY <2>1 DEF Levels
<1>3. f = [i \in 0 .. n |-> IF i = 0 THEN {v} ELSE UNION { Held(x) : x \in f[i - 1] }]
  BY <1>2
<1> HIDE DEF f
<1>4. PICK S : v \in S /\ WithoutHoles(S)
  BY DEF Whole
<1> DEFINE T == { i \in Nat : i <= n => f[i] \subseteq S }
<1>5. 0 \in T
  BY <1>3, <1>4
<1>6. ASSUME NEW i \in T
      PROVE  i + 1 \in T
  <2> SUFFICES ASSUME i + 1 <= n PROVE f[i + 1] \subseteq S
    OBVIOUS
  <2>1. i \in Nat /\ i <= n /\ i + 1 \in 0 .. n /\ i + 1 # 0 /\ (i + 1) - 1 = i
    OBVIOUS
  <2>2. f[i] \subseteq S
    BY <2>1
  <2>3. f[i + 1] = UNION { Held(x) : x \in f[i] }
    BY <1>3, <2>1
  <2> QED
    BY <1>4, <2>2, <2>3 DEF WithoutHoles
<1> HIDE DEF T
<1>7. T = Nat
  BY <1>5, <1>6, AllNaturals DEF T
<1>8. f[n] \subseteq S
  BY <1>7 DEF T
<1> QED
  BY <1>1, <1>4, <1>8 DEF WithoutHoles

(* What a value is wrapped in holds nothing but the value.                 *)
LEMMA WrapWhole ==
  ASSUME NEW class, NEW v, Whole(v)
  PROVE  Whole(Wrap(class, v))
<1> DEFINE w == Wrap(class, v)
<1>1. w.items = <<Entry(<<>>, v)>>
  BY DEF Wrap
<1>2. w # Nil
  BY <1>1 DEF Nil, NullOf
<1>3. Filled(w.items)
  <2>1. ASSUME NEW i \in DOMAIN <<Entry(<<>>, v)>>
        PROVE  <<Entry(<<>>, v)>>[i].value = v
    BY DEF Entry
  <2> QED
    BY <1>1, <2>1 DEF Filled
<1> HIDE DEF w
<1> QED
  BY <1>2, <1>3, Assembled DEF w

Wraps(wraps, v, n, f) ==
  f = [i \in 0 .. n |-> IF i = 0 THEN v ELSE Wrap(wraps[Len(wraps) + 1 - i], f[i - 1])]

LEMMA WrapsExist ==
  ASSUME NEW wraps, NEW v, NEW m \in Nat
  PROVE  \E f : Wraps(wraps, v, m, f)
<1> DEFINE L(f, i) == IF i = 0 THEN v ELSE Wrap(wraps[Len(wraps) + 1 - i], f[i - 1])
           T == { n \in Nat : \E f : Wraps(wraps, v, n, f) }
<1>1. 0 \in T
  <2> DEFINE f == [i \in 0 .. 0 |-> v]
  <2>1. f = [i \in 0 .. 0 |-> L(f, i)]
    OBVIOUS
  <2>2. Wraps(wraps, v, 0, f)
    BY <2>1 DEF Wraps
  <2> QED
    BY <2>2
<1>2. ASSUME NEW n \in T
      PROVE  n + 1 \in T
  <2>1. PICK f : Wraps(wraps, v, n, f)
    OBVIOUS
  <2> DEFINE g == [i \in 0 .. n + 1 |-> IF i = n + 1 THEN L(f, i) ELSE f[i]]
  <2>2. \A i \in 0 .. n : f[i] = L(f, i)
    BY <2>1 DEF Wraps
  <2>3. \A i \in 0 .. n : i \in 0 .. n + 1 /\ i # n + 1
    OBVIOUS
  <2>4. \A i \in 0 .. n : g[i] = f[i]
    BY <2>3
  <2>5. ASSUME NEW i \in 0 .. n + 1
        PROVE  g[i] = L(f, i)
    <3>1. i = n + 1 \/ i \in 0 .. n
      OBVIOUS
    <3> HIDE DEF L
    <3> QED
      BY <2>2, <3>1
  <2>6. ASSUME NEW i \in 0 .. n + 1
        PROVE  L(g, i) = L(f, i)
    <3>1. i = 0 \/ i - 1 \in 0 .. n
      OBVIOUS
    <3>2. CASE i = 0
      BY <3>2
    <3>3. CASE i - 1 \in 0 .. n
      <4>1. g[i - 1] = f[i - 1]
        BY <2>4, <3>3
      <4> HIDE DEF g
      <4> QED
        BY <4>1
    <3> QED
      BY <3>1, <3>2, <3>3
  <2>7. g = [i \in 0 .. n + 1 |-> L(g, i)]
    <3>1. \A i \in 0 .. n + 1 : g[i] = L(g, i)
      BY <2>5, <2>6
    <3>2. g = [i \in 0 .. n + 1 |-> g[i]]
      OBVIOUS
    <3> HIDE DEF g, L
    <3> QED
      BY <3>1, <3>2
  <2> HIDE DEF g
  <2>8. Wraps(wraps, v, n + 1, g)
    BY <2>7 DEF Wraps
  <2> QED
    BY <2>8
<1> HIDE DEF T
<1>3. T = Nat
  BY <1>1, <1>2, AllNaturals DEF T
<1> QED
  BY <1>3 DEF T

LEMMA WrappedWhole ==
  ASSUME NEW wraps, Len(wraps) \in Nat, NEW v, Whole(v)
  PROVE  Whole(Wrapped(wraps, v))
<1> DEFINE n == Len(wraps)
           f == CHOOSE w : w = [i \in 0 .. n |->
                  IF i = 0 THEN v ELSE Wrap(wraps[Len(wraps) + 1 - i], w[i - 1])]
<1>1. Wrapped(wraps, v) = f[n]
  BY DEF Wrapped
<1>2. \E w : w = [i \in 0 .. n |-> IF i = 0 THEN v ELSE Wrap(wraps[Len(wraps) + 1 - i], w[i - 1])]
  <2>1. PICK w : Wraps(wraps, v, n, w)
    BY WrapsExist
  <2> QED
    BY <2>1 DEF Wraps
<1>3. f = [i \in 0 .. n |-> IF i = 0 THEN v ELSE Wrap(wraps[Len(wraps) + 1 - i], f[i - 1])]
  BY <1>2
<1> HIDE DEF f
<1> DEFINE T == { i \in Nat : i <= n => Whole(f[i]) }
<1>4. 0 \in T
  BY <1>3
<1>5. ASSUME NEW i \in T
      PROVE  i + 1 \in T
  <2> SUFFICES ASSUME i + 1 <= n PROVE Whole(f[i + 1])
    OBVIOUS
  <2>1. i \in Nat /\ i <= n /\ i + 1 \in 0 .. n /\ i + 1 # 0 /\ (i + 1) - 1 = i
    OBVIOUS
  <2>2. Whole(f[i])
    BY <2>1
  <2> DEFINE c == wraps[Len(wraps) + 1 - (i + 1)]
  <2>3. f[i + 1] = Wrap(c, f[i])
    BY <1>3, <2>1
  <2> HIDE DEF c
  <2> QED
    BY <2>2, <2>3, WrapWhole
<1> HIDE DEF T
<1>6. T = Nat
  BY <1>4, <1>5, AllNaturals DEF T
<1> QED
  BY <1>1, <1>6 DEF T

(* Simple values. *)
LEMMA NullWhole ==
  ASSUME NEW class, class # "Nothing"
  PROVE  Whole(NullOf(class))
<1>1. NullOf(class) # Nil /\ NullOf(class).items = <<>>
  BY DEF NullOf, Nil
<1>2. Filled(<<>>)
  BY DEF Filled
<1> QED
  BY <1>1, <1>2, Assembled

LEMMA ValueWhole ==
  ASSUME NEW class, NEW bytes, NEW items, Filled(items)
  PROVE  Whole(Value(class, bytes, items))
<1>1. Value(class, bytes, items) # Nil /\ Value(class, bytes, items).items = items
  BY DEF Value, Nil, NullOf
<1> QED
  BY <1>1, Assembled

LEMMA ScalarValueWhole ==
  ASSUME NEW class, NEW bytes
  PROVE  Whole(Value(class, bytes, <<>>))
<1>1. Filled(<<>>)
  BY DEF Filled
<1> QED
  BY <1>1, ValueWhole

LEMMA ScalarClassNamed ==
  ASSUME NEW class, class \in ScalarClass \cup Inline \cup Compound \cup Enums
  PROVE  class # "Nothing"
BY DEF ScalarClass, ScalarCode, Inline, Compound, Enums

(* A value read without an error is whole. *)
LEMMA ErrorKept ==
  ASSUME NEW c, c \in CaretState
  PROVE  ReadError(c).caret.error
BY DEF ReadError, Read, SetError, CaretState

LEMMA ReadFixedWhole ==
  ASSUME NEW c, Within(c), NEW class
  PROVE  ReadFixed(class, c).caret.error \/ Whole(ReadFixed(class, c).value)
<1> DEFINE n == ScalarWidth(ScalarCode[class])
           b == CurrBytes(c, n)
<1>1. \/ ReadFixed(class, c) = ReadError(c)
      \/ ReadFixed(class, c) = ReadError(Inc(c, n))
      \/ ReadFixed(class, c) = Read(Value(class, b, <<>>), Inc(c, n))
  BY Zenon DEF ReadFixed
<1>2. c \in CaretState /\ n \in Nat
  BY WithinSound DEF ScalarWidth
<1> HIDE DEF n, b
<1>3. Inc(c, n) \in CaretState
  BY <1>2, IncState
<1>4. Read(Value(class, b, <<>>), Inc(c, n)).value = Value(class, b, <<>>)
  BY DEF Read
<1> QED
  BY <1>1, <1>2, <1>3, <1>4, ErrorKept, ScalarValueWhole

LEMMA ReadStringWhole ==
  ASSUME NEW c, Within(c)
  PROVE  ReadString(c).caret.error \/ Whole(ReadString(c).value)
<1> DEFINE size == ReadInt32(c)
           v == Value("String", CurrBytes(size.caret, size.value - 1), <<>>)
<1>1. \/ ReadString(c) = ReadError(size.caret)
      \/ ReadString(c) = Read(v, Inc(size.caret, size.value))
  BY Zenon DEF ReadString
<1>2. size.caret \in CaretState
  BY Int32From, WithinSound
<1>3. Whole(v)
  BY ScalarValueWhole
<1> HIDE DEF size, v
<1> QED
  BY <1>1, <1>2, <1>3, ErrorKept DEF Read

LEMMA ReadScalarWhole ==
  ASSUME NEW c, Within(c), NEW class \in ScalarClass, NEW code
  PROVE  ReadScalar(class, c, code).caret.error \/ Whole(ReadScalar(class, c, code).value)
<1>1. \/ ReadScalar(class, c, code) = Read(NullOf(class), c)
      \/ ReadScalar(class, c, code) = ReadError(c)
      \/ ReadScalar(class, c, code) = ReadString(c)
      \/ ReadScalar(class, c, code) = ReadFixed(class, c)
  BY DEF ReadScalar
<1>2. c \in CaretState
  BY WithinSound
<1>3. Read(NullOf(class), c).value = NullOf(class) /\ Whole(NullOf(class))
  BY ScalarClassNamed, NullWhole DEF Read
<1> QED
  BY <1>1, <1>2, <1>3, ErrorKept, ReadStringWhole, ReadFixedWhole

LEMMA ReadInlineWhole ==
  ASSUME NEW c, Within(c), NEW class \in Inline, NEW code
  PROVE  ReadInline(class, c, code).caret.error \/ Whole(ReadInline(class, c, code).value)
<1> DEFINE size == ReadInt32(c)
           k == IF code = DOCUMENT_ARRAY THEN "InlineArray" ELSE "InlineDocument"
           v == Value(k, CurrBytes(c, size.value), <<>>)
<1>1. \/ ReadInline(class, c, code) = Read(NullOf(class), c)
      \/ ReadInline(class, c, code) = ReadError(c)
      \/ ReadInline(class, c, code) = ReadError(size.caret)
      \/ ReadInline(class, c, code) = Read(v, Inc(c, size.value))
  BY Zenon DEF ReadInline
<1>2. c \in CaretState /\ size.caret \in CaretState
  BY Int32From, WithinSound
<1>3. Read(NullOf(class), c).value = NullOf(class) /\ Whole(NullOf(class))
  BY ScalarClassNamed, NullWhole DEF Read
<1>4. Whole(v)
  <2> HIDE DEF k
  <2> QED
    BY ScalarValueWhole
<1> HIDE DEF size, k, v
<1> QED
  BY <1>1, <1>2, <1>3, <1>4, ErrorKept DEF Read

-----------------------------------------------------------------------------
(* The frames of a read that has lost nothing. *)

Wrappers == {"Any", "Interpreted"}

IsEntry(e) == e = [key |-> e.key, value |-> e.value, select |-> e.select]

Entries(x) == \E S : x \in Seq(S) /\ \A e \in S : IsEntry(e)

(* A field with a typeSelector says so in the object that is read.         *)
Marked(f) ==
  Class(f.type) = "Object" =>
    \A i \in DOMAIN f.items : IsPolymorph(f.type, f.items[i].key) => f.items[i].select # "none"

Proper(f) == Entries(f.items) /\ f.wraps \in Seq(Wrappers) /\ Marked(f)

(* An element set aside is a field with a typeSelector of the frame below. *)
Over(f, g) ==
  g.type = "none" => Class(f.type) = "Object" /\ IsPolymorph(f.type, g.key)

Towering(s) == \A i \in 1 .. Len(s) : i - 1 \in 1 .. Len(s) => Over(s[i - 1], s[i])

(* All frames but the innermost hold whole values. *)
Kept(s) ==
  /\ \A i \in 1 .. Len(s) : Proper(s[i]) /\ (i < Len(s) => Filled(s[i].items))
  /\ Towering(s)

(* The innermost may hold what an element with an error has left only if   *)
(* its loop is about to end with that error. *)
Intact(s, p, c, w, r) ==
  /\ w \in Seq(Wrappers)
  /\ Kept(s)
  /\ s # <<>> => \/ Filled(s[Len(s)].items)
                 \/ p = "iterate" /\ s[Len(s)].inner.error
  /\ p = "polymorphs" => Class(s[Len(s)].type) = "Object"
  /\ p \in {"returned", "done"} => CaretIn(c, s).error \/ Whole(r)

LEMMA NoFrames == Kept(<<>>)
<1>1. Len(<<>>) = 0 /\ 1 .. 0 = {}
  OBVIOUS
<1> QED
  BY <1>1 DEF Kept, Towering

LEMMA KeptTop ==
  ASSUME NEW s, IsStack(s), s # <<>>, Kept(s)
  PROVE  Proper(s[Len(s)]) /\ IsFrame(s[Len(s)]) /\ Len(s) \in Nat /\ Len(s) # 0
<1>1. Len(s) \in Nat /\ Len(s) # 0 /\ \A i \in 1 .. Len(s) : IsFrame(s[i])
  BY StackParts
<1>2. Len(s) \in 1 .. Len(s)
  BY <1>1
<1> QED
  BY <1>1, <1>2 DEF Kept

(* The innermost frame exchanged for one of the same place.                *)
LEMMA KeptPut ==
  ASSUME NEW s, IsStack(s), s # <<>>, Kept(s), NEW f, IsFrame(f), Proper(f),
         f.type = s[Len(s)].type, f.type # "none" \/ f.key = s[Len(s)].key,
         NEW t, PutOn(s, f, t)
  PROVE  Kept(t)
<1> DEFINE n == Len(s)
<1>1. n \in Nat /\ n # 0
  BY StackParts
<1>2. Len(t) = n /\ t[n] = f /\ \A i \in 1 .. n - 1 : t[i] = s[i]
  BY PutStack DEF PutOn
<1> HIDE DEF n
<1>3. ASSUME NEW i \in 1 .. n
      PROVE  Proper(t[i]) /\ (i < n => Filled(t[i].items))
  <2>1. i = n \/ (i \in 1 .. n - 1 /\ i < n)
    BY <1>1
  <2>2. CASE i = n
    BY <1>1, <1>2, <2>2
  <2>3. CASE i \in 1 .. n - 1 /\ i < n
    BY <1>2, <2>3 DEF Kept, n
  <2> QED
    BY <2>1, <2>2, <2>3
<1>4. ASSUME NEW i \in 1 .. n, i - 1 \in 1 .. n
      PROVE  Over(t[i - 1], t[i])
  <2>1. Over(s[i - 1], s[i])
    BY <1>4 DEF Kept, Towering, n
  <2>2. i - 1 \in 1 .. n - 1 /\ (i = n \/ i \in 1 .. n - 1)
    BY <1>1, <1>4
  <2>3. t[i - 1] = s[i - 1]
    BY <1>2, <2>2
  <2>4. CASE i = n
    BY <1>2, <2>1, <2>3, <2>4 DEF Over, n
  <2>5. CASE i \in 1 .. n - 1
    BY <1>2, <2>1, <2>3, <2>5
  <2> QED
    BY <2>2, <2>4, <2>5
<1> QED
  BY <1>2, <1>3, <1>4 DEF Kept, Towering

LEMMA KeptPush ==
  ASSUME NEW s, IsStack(s), Kept(s), s # <<>> => Filled(s[Len(s)].items),
         NEW f, IsFrame(f), Proper(f), f.type = "none" => s # <<>>,
         s # <<>> => Over(s[Len(s)], f),
         NEW t, PushOn(s, f, t)
  PROVE  Kept(t)
<1> DEFINE n == Len(s)
<1>1. n \in Nat /\ (s # <<>> <=> n # 0)
  BY StackParts
<1>2. Len(t) = n + 1 /\ t[n + 1] = f /\ \A i \in 1 .. n : t[i] = s[i]
  BY PushStack DEF PushOn
<1> HIDE DEF n
<1>3. ASSUME NEW i \in 1 .. n + 1
      PROVE  Proper(t[i]) /\ (i < n + 1 => Filled(t[i].items))
  <2>1. (i = n + 1 /\ ~(i < n + 1)) \/ (i \in 1 .. n /\ n # 0 /\ (i < n \/ i = n))
    BY <1>1
  <2>2. CASE i = n + 1 /\ ~(i < n + 1)
    BY <1>2, <2>2
  <2>3. CASE i \in 1 .. n /\ n # 0 /\ (i < n \/ i = n)
    BY <1>1, <1>2, <2>3 DEF Kept, n
  <2> QED
    BY <2>1, <2>2, <2>3
<1>4. ASSUME NEW i \in 1 .. n + 1, i - 1 \in 1 .. n + 1
      PROVE  Over(t[i - 1], t[i])
  <2>1. i - 1 \in 1 .. n /\ n # 0 /\ ((i = n + 1 /\ i - 1 = n) \/ i \in 1 .. n)
    BY <1>1, <1>4
  <2>2. t[i - 1] = s[i - 1]
    BY <1>2, <2>1
  <2>3. CASE i = n + 1 /\ i - 1 = n
    BY <1>1, <1>2, <2>1, <2>2, <2>3 DEF n
  <2>4. CASE i \in 1 .. n
    BY <1>2, <2>1, <2>2, <2>4 DEF Kept, Towering, n
  <2> QED
    BY <2>1, <2>3, <2>4
<1> QED
  BY <1>2, <1>3, <1>4 DEF Kept, Towering

(* The frame below holds whole values. *)
LEMMA KeptPop ==
  ASSUME NEW s, IsStack(s), s # <<>>, Kept(s), NEW b, b = Below(s)
  PROVE  /\ IsStack(b) /\ Kept(b) /\ (b # <<>> => Filled(b[Len(b)].items))
         /\ s[Len(s)].type = "none" /\ b # <<>> => Over(b[Len(b)], s[Len(s)])
<1> DEFINE n == Len(s)
<1>1. n \in Nat /\ n # 0
  BY StackParts
<1>2. IsStack(b) /\ Len(b) = n - 1 /\ \A i \in 1 .. n - 1 : b[i] = s[i]
  BY PopStack
<1>3. b # <<>> <=> Len(b) # 0
  BY <1>2, StackParts
<1> HIDE DEF n
<1>4. ASSUME NEW i \in 1 .. n - 1
      PROVE  Proper(b[i]) /\ Filled(b[i].items)
  <2>1. i \in 1 .. n /\ i < n
    BY <1>1
  <2> QED
    BY <1>2, <2>1 DEF Kept, n
<1>5. ASSUME NEW i \in 1 .. n - 1, i - 1 \in 1 .. n - 1
      PROVE  Over(b[i - 1], b[i])
  <2>1. i \in 1 .. n /\ i - 1 \in 1 .. n
    BY <1>1, <1>5
  <2> QED
    BY <1>2, <1>5, <2>1 DEF Kept, Towering, n
<1>6. Kept(b)
  BY <1>2, <1>4, <1>5 DEF Kept, Towering
<1>7. ASSUME b # <<>>
      PROVE  Filled(b[Len(b)].items) /\ Over(b[Len(b)], s[n])
  <2>1. n - 1 \in 1 .. n - 1 /\ n \in 1 .. n /\ n - 1 \in 1 .. n
    BY <1>1, <1>2, <1>3, <1>7
  <2> QED
    BY <1>2, <1>4, <2>1 DEF Kept, Towering, n
<1> QED
  BY <1>2, <1>6, <1>7 DEF n

WInv == IInv /\ Intact(stack, pc, caret, call.wraps, ret)

(* g holds what f does. *)
Same(f, g) == g.items = f.items /\ g.wraps = f.wraps /\ g.type = f.type

LEMMA SameProper ==
  ASSUME NEW f, NEW g, Same(f, g), Proper(f)
  PROVE  Proper(g)
BY DEF Same, Proper, Marked

LEMMA SameFrames ==
  ASSUME NEW f, IsFrame(f), NEW c, NEW k, NEW q
  PROVE  /\ Same(f, [f EXCEPT !.inner = c]) /\ [f EXCEPT !.inner = c].key = f.key
         /\ Same(f, [f EXCEPT !.inner = c, !.key = k])
         /\ Same(f, [f EXCEPT !.inner = c, !.polymorphs = q])
         /\ [f EXCEPT !.inner = c, !.polymorphs = q].key = f.key
         /\ Same(f, [f EXCEPT !.polymorphs = q]) /\ [f EXCEPT !.polymorphs = q].key = f.key
BY DEF IsFrame, Same

LEMMA SameCall ==
  ASSUME NEW f, IsFrame(f), NEW c, NEW k, NEW g, CallFrom(f, c, k, g)
  PROVE  Same(f, g)
BY SameFrames, Zenon DEF CallFrom

LEMMA SameSkip ==
  ASSUME NEW f, IsFrame(f), NEW c, NEW q, NEW g, SkipTo(f, c, q, g)
  PROVE  Same(f, g)
BY SameFrames, Zenon DEF SkipTo

(* The innermost caret moved. *)
LEMMA KeptMove ==
  ASSUME NEW s, IsStack(s), s # <<>>, Kept(s), NEW d, Sound(d), NEW t, MoveOn(s, d, t)
  PROVE  /\ Kept(t) /\ IsStack(t) /\ t # <<>> /\ t[Len(t)].items = s[Len(s)].items
         /\ t[Len(t)].inner = d /\ t[Len(t)].type = s[Len(s)].type
<1> DEFINE n == Len(s)
           f == [s[n] EXCEPT !.inner = d]
<1>1. Proper(s[n]) /\ IsFrame(s[n])
  BY KeptTop
<1>2. t = [s EXCEPT ![n] = f]
  BY DEF MoveOn
<1>3. IsFrame(f) /\ f.inner = d /\ f.type = s[n].type
  BY <1>1, FrameInner
<1>4. Same(s[n], f) /\ f.key = s[n].key
  BY <1>1, SameFrames
<1> HIDE DEF f
<1>5. Proper(f) /\ PutOn(s, f, t)
  BY <1>1, <1>2, <1>4, SameProper DEF PutOn
<1>6. Kept(t)
  BY <1>3, <1>4, <1>5, KeptPut
<1>7. IsStack(t) /\ t # <<>> /\ t[Len(t)] = f
  BY <1>3, <1>5, PutTop
<1> QED
  BY <1>3, <1>4, <1>6, <1>7 DEF Same

(* What is known of the stack when WInv holds. *)
LEMMA Unbroken ==
  ASSUME WInv
  PROVE  /\ IInv /\ IsStack(stack) /\ Kept(stack) /\ call.wraps \in Seq(Wrappers)
         /\ stack # <<>> => /\ Proper(Top) /\ IsFrame(Top) /\ Top = stack[Len(stack)]
                            /\ \/ Filled(Top.items)
                               \/ pc = "iterate" /\ Top.inner.error
         /\ pc = "polymorphs" => Class(Top.type) = "Object"
         /\ pc \in {"returned", "done"} => Here.error \/ Whole(ret)
<1>1. IInv /\ IsStack(stack) /\ Intact(stack, pc, caret, call.wraps, ret)
  BY DEF WInv, IInv
<1>2. CaretIn(caret, stack) = Here
  BY DEF CaretIn, Here, CaretOf
<1>3. stack # <<>> => Proper(stack[Len(stack)]) /\ IsFrame(stack[Len(stack)])
  BY <1>1, KeptTop DEF Intact
<1> QED
  BY <1>1, <1>2, <1>3 DEF Intact, Top

LEMMA ReturnKeeps ==
  ASSUME WInv, NEW STATE s, IsStack(s), Kept(s), s # <<>> => Filled(s[Len(s)].items),
         NEW STATE d, Sound(d), NEW STATE w, w \in Seq(Wrappers),
         NEW STATE v, d.error \/ Whole(v), Return(s, d, w, v)
  PROVE  Intact(stack, pc, caret, call.wraps, ret)'
<1>1. /\ caret' = IF s = <<>> THEN d ELSE caret
      /\ stack' = IF s = <<>> THEN s ELSE [s EXCEPT ![Len(s)].inner = d]
      /\ ret' = Wrapped(w, v) /\ pc' = "returned" /\ call' = call
  BY DEF Return, PutCaret
<1>2. d.error \/ Whole(ret')
  <2>1. Len(w) \in Nat
    BY LenProperties
  <2> QED
    BY <1>1, <2>1, WrappedWhole
<1>3. call'.wraps \in Seq(Wrappers)
  BY <1>1, Unbroken
<1>4. CASE s = <<>>
  <2>1. stack' = <<>> /\ caret' = d
    BY <1>1, <1>4
  <2>2. Kept(stack') /\ CaretIn(caret', stack') = d
    BY <2>1, NoFrames DEF CaretIn
  <2> QED
    BY <1>1, <1>2, <1>3, <2>1, <2>2 DEF Intact
<1>5. CASE s # <<>>
  <2> DEFINE t == [s EXCEPT ![Len(s)].inner = d]
  <2>1. stack' = t /\ MoveOn(s, d, t)
    BY <1>1, <1>5 DEF MoveOn
  <2> HIDE DEF t
  <2>2. Kept(t) /\ t # <<>> /\ t[Len(t)].items = s[Len(s)].items /\ t[Len(t)].inner = d
    BY <1>5, <2>1, KeptMove
  <2>3. CaretIn(caret', stack') = d
    BY <2>1, <2>2 DEF CaretIn
  <2> QED
    BY <1>1, <1>2, <1>3, <1>5, <2>1, <2>2, <2>3 DEF Intact
<1> QED
  BY <1>4, <1>5

(* A method that returns or throws before it has opened a document.        *)
LEMMA ReturnHereKeeps ==
  ASSUME WInv, pc = "call", NEW STATE d, Sound(d),
         NEW STATE v, d.error \/ Whole(v), Return(stack, d, call.wraps, v)
  PROVE  Intact(stack, pc, caret, call.wraps, ret)'
<1>1. /\ IsStack(stack) /\ Kept(stack) /\ call.wraps \in Seq(Wrappers)
      /\ stack # <<>> => Filled(stack[Len(stack)].items)
  BY Unbroken
<1> DEFINE w == call.wraps
<1>2. Return(stack, d, w, v) /\ w \in Seq(Wrappers)
  BY <1>1
<1> HIDE DEF w
<1> QED
  BY <1>1, <1>2, ReturnKeeps

LEMMA ThrowKeeps ==
  ASSUME WInv, pc = "call", Throw
  PROVE  Intact(stack, pc, caret, call.wraps, ret)'
<1>1. /\ Kept(stack) /\ call.wraps \in Seq(Wrappers)
      /\ stack # <<>> => Filled(stack[Len(stack)].items)
  BY Unbroken
<1>2. /\ pc' = "threw" /\ stack' = stack /\ call' = call
  BY DEF Throw
<1> QED
  BY <1>1, <1>2 DEF Intact

(* A method that gives up in the middle of its document. *)
LEMMA FailInsideKeeps ==
  ASSUME WInv, stack # <<>>, Top.type # "none", NEW STATE c, c.pos \in Int, FailInside(c)
  PROVE  Intact(stack, pc, caret, call.wraps, ret)'
<1> DEFINE b == Below(stack)
           d == SetError(Inc(CaretOf(b), c.pos))
           w == Top.wraps
<1>1. IsStack(stack) /\ Kept(stack) /\ Proper(Top) /\ IInv
  BY Unbroken
<1>2. Sound(CaretOf(b))
  BY <1>1, PopTop
<1>3. IsStack(b) /\ Kept(b) /\ (b # <<>> => Filled(b[Len(b)].items))
  BY <1>1, KeptPop
<1>4. Return(b, d, w, Nil)
  BY DEF FailInside
<1>5. w \in Seq(Wrappers)
  BY <1>1 DEF Proper
<1> HIDE DEF b, w
<1>6. Sound(d) /\ d.error
  BY <1>2, ErrorAfter DEF From
<1> HIDE DEF d
<1> QED
  BY <1>3, <1>4, <1>5, <1>6, ReturnKeeps

LEMMA DeserializeScalarKeeps ==
  ASSUME WInv, DeserializeScalar
  PROVE  Intact(stack, pc, caret, call.wraps, ret)'
<1> DEFINE class == Class(call.type)
           r == ReadScalar(class, Here, call.code)
           d == r.caret
           v == r.value
<1>1. pc = "call" /\ class \in ScalarClass /\ Return(stack, d, call.wraps, v)
  BY DEF DeserializeScalar, Calling
<1>2. Within(Here)
  BY <1>1, Unbroken, Arguments
<1> HIDE DEF class
<1>3. Sound(d) /\ (d.error \/ Whole(v))
  BY <1>1, <1>2, ReadScalarFrom, ReadScalarWhole DEF From
<1> HIDE DEF r, d, v
<1> QED
  BY <1>1, <1>3, ReturnHereKeeps

LEMMA DeserializeInlineDocsKeeps ==
  ASSUME WInv, DeserializeInlineDocs
  PROVE  Intact(stack, pc, caret, call.wraps, ret)'
<1> DEFINE class == Class(call.type)
           r == ReadInline(class, Here, call.code)
           d == r.caret
           v == r.value
<1>1. pc = "call" /\ class \in Inline /\ Return(stack, d, call.wraps, v)
  BY DEF DeserializeInlineDocs, Calling
<1>2. Within(Here)
  BY <1>1, Unbroken, Arguments
<1> HIDE DEF class
<1>3. Sound(d) /\ (d.error \/ Whole(v))
  BY <1>1, <1>2, ReadInlineFrom, ReadInlineWhole DEF From
<1> HIDE DEF r, d, v
<1> QED
  BY <1>1, <1>3, ReturnHereKeeps

(* The call stands for another, in one more wrapper. *)
LEMMA AgainKeeps ==
  ASSUME WInv, pc = "call", NEW STATE t, NEW CONSTANT class \in Wrappers,
         call' = [call EXCEPT !.type = t, !.wraps = Append(call.wraps, class)],
         UNCHANGED <<stack, pc>>
  PROVE  Intact(stack, pc, caret, call.wraps, ret)'
<1>1. /\ Kept(stack) /\ call.wraps \in Seq(Wrappers) /\ IsCall(call)
      /\ stack # <<>> => Filled(stack[Len(stack)].items)
  BY Unbroken, Facts
<1>2. Append(call.wraps, class) \in Seq(Wrappers)
  BY <1>1, AppendProperties
<1>3. call'.wraps = Append(call.wraps, class)
  BY <1>1 DEF IsCall
<1> QED
  BY <1>1, <1>2, <1>3 DEF Intact

LEMMA DeserializeAnyKeeps ==
  ASSUME WInv, DeserializeAny
  PROVE  Intact(stack, pc, caret, call.wraps, ret)'
<1> DEFINE guess == IF call.code = NULL_VALUE THEN "none" ELSE GuessedType(call.code)
<1>1. /\ pc = "call"
      /\ \/ Return(stack, Here, call.wraps, NullOf("Any"))
         \/ /\ call' = [call EXCEPT !.type = guess, !.wraps = Append(call.wraps, "Any")]
            /\ UNCHANGED <<stack, pc>>
  BY DEF DeserializeAny, Calling
<1>2. Sound(Here) /\ Whole(NullOf("Any"))
  <2>1. "Any" # "Nothing"
    OBVIOUS
  <2> QED
    BY <2>1, Unbroken, Facts, NullWhole
<1> HIDE DEF guess
<1>3. CASE Return(stack, Here, call.wraps, NullOf("Any"))
  <2> DEFINE v == NullOf("Any")
  <2>1. Return(stack, Here, call.wraps, v) /\ Whole(v)
    BY <1>2, <1>3
  <2> HIDE DEF v
  <2> QED
    BY <1>1, <1>2, <2>1, ReturnHereKeeps
<1>4. "Any" \in Wrappers
  BY DEF Wrappers
<1> QED
  BY <1>1, <1>3, <1>4, AgainKeeps

LEMMA DeserializeInterpretedKeeps ==
  ASSUME WInv, DeserializeInterpreted
  PROVE  Intact(stack, pc, caret, call.wraps, ret)'
<1> DEFINE t == Item(call.type)
<1>1. /\ pc = "call" /\ UNCHANGED <<stack, pc>>
      /\ call' = [call EXCEPT !.type = t, !.wraps = Append(call.wraps, "Interpreted")]
  BY DEF DeserializeInterpreted, Calling
<1>2. "Interpreted" \in Wrappers
  BY DEF Wrappers
<1> HIDE DEF t
<1> QED
  BY <1>1, <1>2, AgainKeeps

LEMMA DeserializeEnumKeeps ==
  ASSUME WInv, DeserializeEnum
  PROVE  Intact(stack, pc, caret, call.wraps, ret)'
<1> DEFINE class == Class(call.type)
           r == ReadScalar(Class(Item(call.type)), Here, call.code)
           d == r.caret
           v == Wrap(class, r.value)
           e == SetError(d)
           m == NullOf(class)
<1>1. /\ pc = "call" /\ class \in Enums
      /\ \/ d.error /\ Return(stack, d, call.wraps, Nil)
         \/ Return(stack, e, call.wraps, Nil)
         \/ Return(stack, d, call.wraps, m)
         \/ ~d.error /\ Return(stack, d, call.wraps, v)
         \/ Throw
  BY DEF DeserializeEnum, Calling, Fail
<1>2. Within(Here) /\ call.type \in Types
  BY <1>1, Unbroken, Arguments
<1>3. Class(Item(call.type)) \in ScalarClass
  BY <1>1, <1>2, TypesAssumption
<1>4. Sound(d) /\ (d.error \/ Whole(r.value))
  BY <1>2, <1>3, ReadScalarFrom, ReadScalarWhole DEF From
<1>5. Whole(m)
  BY <1>1, ScalarClassNamed, NullWhole
<1> HIDE DEF class, r, d
<1>6. d.error \/ Whole(v)
  BY <1>4, WrapWhole
<1>7. Sound(e) /\ e.error
  BY <1>4, SetErrorFrom DEF From, Sound
<1> HIDE DEF v, e, m
<1>8. CASE d.error /\ Return(stack, d, call.wraps, Nil)
  BY <1>1, <1>4, <1>8, ReturnHereKeeps
<1>9. CASE Return(stack, e, call.wraps, Nil)
  BY <1>1, <1>7, <1>9, ReturnHereKeeps
<1>10. CASE Return(stack, d, call.wraps, m)
  BY <1>1, <1>4, <1>5, <1>10, ReturnHereKeeps
<1>11. CASE ~d.error /\ Return(stack, d, call.wraps, v)
  BY <1>1, <1>4, <1>6, <1>11, ReturnHereKeeps
<1>12. CASE Throw
  BY <1>1, <1>12, ThrowKeeps
<1> QED
  BY <1>1, <1>8, <1>9, <1>10, <1>11, <1>12

LEMMA DeserializeUnknownKeeps ==
  ASSUME WInv, DeserializeUnknown
  PROVE  Intact(stack, pc, caret, call.wraps, ret)'
<1>1. pc = "call" /\ Throw
  BY DEF DeserializeUnknown
<1> QED
  BY <1>1, ThrowKeeps

(* The fields of a new object: null pointers of their types. *)
LEMMA NewItemsProper ==
  ASSUME NEW t \in Types
  PROVE  /\ Entries(NewItems(t)) /\ Filled(NewItems(t))
         /\ \A i \in DOMAIN NewItems(t) :
              IsPolymorph(t, NewItems(t)[i].key) => NewItems(t)[i].select # "none"
<1> DEFINE k(i) == Fields(t)[i].name
           c(i) == Class(Fields(t)[i].type)
           m(i) == IF Fields(t)[i].select = "none" THEN "none" ELSE "match"
           e(i) == [key |-> k(i), value |-> NullOf(c(i)), select |-> m(i)]
           x == NewItems(t)
<1>1. x = [i \in DOMAIN Fields(t) |-> e(i)]
  BY DEF NewItems, Entry
<1>2. Len(Fields(t)) \in Nat /\ DOMAIN Fields(t) = 1 .. Len(Fields(t))
      /\ \A i \in DOMAIN Fields(t) : Fields(t)[i].type \in Types
  <2>1. Fields(t) \in Seq(FieldInfo)
    BY TypesAssumption DEF Info, Fields
  <2>2. \A i \in 1 .. Len(Fields(t)) : Fields(t)[i] \in FieldInfo
    BY <2>1, ElementOfSeq
  <2> QED
    BY <2>1, <2>2, LenProperties DEF FieldInfo
<1> HIDE DEF x
<1>3. Entries(x)
  <2> DEFINE S == { e(i) : i \in DOMAIN Fields(t) }
             n == Len(Fields(t))
  <2>1. \A y \in S : IsEntry(y)
    BY DEF IsEntry
  <2>2. \A i \in 1 .. n : e(i) \in S
    BY <1>2
  <2>3. x = [i \in 1 .. n |-> e(i)]
    BY <1>1, <1>2
  <2> HIDE DEF S, e, n
  <2>4. x \in [1 .. n -> S]
    BY <2>2, <2>3
  <2>5. n \in Nat
    BY <1>2 DEF n
  <2>6. x \in Seq(S)
    BY <2>4, <2>5, SeqDef
  <2> QED
    BY <2>1, <2>6 DEF Entries
<1>4. \A i \in DOMAIN x : i \in DOMAIN Fields(t) /\ x[i] = e(i)
  BY <1>1
<1>5. ASSUME NEW i \in DOMAIN x
      PROVE  Whole(x[i].value)
  <2>1. c(i) # "Nothing" /\ x[i].value = NullOf(c(i))
    BY <1>2, <1>4, TypesAssumption
  <2> HIDE DEF c
  <2> QED
    BY <2>1, NullWhole
<1>6. ASSUME NEW i \in DOMAIN x, IsPolymorph(t, x[i].key)
      PROVE  x[i].select # "none"
  <2>1. /\ i \in DOMAIN Fields(t) /\ x[i].key = k(i) /\ x[i].select = m(i)
        /\ FieldOf(t, k(i)).select # "none"
    BY <1>4, <1>6 DEF IsPolymorph
  <2> DEFINE j == CHOOSE h \in DOMAIN Fields(t) : Fields(t)[h].name = k(i)
  <2>2. j \in DOMAIN Fields(t) /\ Fields(t)[j].name = k(i) /\ FieldOf(t, k(i)) = Fields(t)[j]
    BY <2>1 DEF FieldOf
  <2> HIDE DEF j
  <2>3. j = i
    BY <2>1, <2>2, TypesAssumption
  <2> QED
    BY <2>1, <2>2, <2>3
<1> QED
  BY <1>3, <1>5, <1>6 DEF Filled, x

LEMMA NewFrameProper ==
  ASSUME call.type \in Types, call.wraps \in Seq(Wrappers), NEW data, NEW f, f = NewFrame(data)
  PROVE  Proper(f) /\ Filled(f.items) /\ f.type # "none"
<1> DEFINE x == NewItems(call.type)
           t == call.type
           w == call.wraps
<1>1. f.type = t /\ f.wraps = w /\ f.items = x
  BY DEF NewFrame
<1>2. /\ Entries(x) /\ Filled(x)
      /\ \A i \in DOMAIN x : IsPolymorph(t, x[i].key) => x[i].select # "none"
  BY NewItemsProper
<1>3. t # "none"
  BY TypesAssumption
<1>4. w \in Seq(Wrappers)
  OBVIOUS
<1> HIDE DEF x, t, w
<1> QED
  BY <1>1, <1>2, <1>3, <1>4 DEF Proper, Marked

(* A frame on top of one whose caret has been moved. *)
OpenedOn(b, c, f, u) ==
  u = Append(IF b = <<>> THEN b ELSE [b EXCEPT ![Len(b)].inner = c], f)

LEMMA KeptOpen ==
  ASSUME NEW b, IsStack(b), Kept(b), b # <<>> => Filled(b[Len(b)].items),
         NEW c, Sound(c), NEW f, IsFrame(f), Proper(f), f.type # "none",
         NEW u, OpenedOn(b, c, f, u)
  PROVE  Kept(u) /\ IsStack(u) /\ u # <<>> /\ u[Len(u)] = f
<1> DEFINE s == IF b = <<>> THEN b ELSE [b EXCEPT ![Len(b)].inner = c]
<1>1. IsStack(s) /\ Kept(s) /\ (s # <<>> => Filled(s[Len(s)].items))
  <2>1. CASE b = <<>>
    BY <2>1
  <2>2. CASE b # <<>>
    <3>1. MoveOn(b, c, s)
      BY <2>2 DEF MoveOn
    <3> HIDE DEF s
    <3> QED
      BY <2>2, <3>1, KeptMove
  <2> QED
    BY <2>1, <2>2
<1>2. PushOn(s, f, u)
  BY DEF OpenedOn, PushOn
<1> HIDE DEF s
<1>3. s # <<>> => Over(s[Len(s)], f)
  BY DEF Over
<1>4. Kept(u)
  BY <1>1, <1>2, <1>3, KeptPush
<1> QED
  BY <1>1, <1>2, <1>4, PushTop

LEMMA OpenCompoundKeeps ==
  ASSUME WInv, OpenCompound
  PROVE  Intact(stack, pc, caret, call.wraps, ret)'
<1> DEFINE t == call.type
           size == ReadInt32(Here)
           c == size.caret
           n == size.value - 4
           d == CurrBytes(c, n)
           f == NewFrame(d)
           v == NullOf(Class(t))
           e == SetError(Here)
           g == SetError(c)
           u == Append(IF stack = <<>> THEN stack ELSE [stack EXCEPT ![Len(stack)].inner = c], f)
<1>1. pc = "call" /\ Class(t) \in Compound
  BY DEF OpenCompound, Calling
<1>2. \/ Return(stack, Here, call.wraps, v)
      \/ Return(stack, e, call.wraps, Nil)
      \/ Return(stack, g, call.wraps, Nil)
      \/ Throw
      \/ /\ n \in 0 .. Left(c)
         /\ stack' = u /\ pc' = "iterate" /\ UNCHANGED call
  BY Zenon DEF OpenCompound, Fail
<1>3. /\ Within(Here) /\ t \in Types /\ Sound(Here) /\ Here \in CaretState
  BY <1>1, Unbroken, Arguments, WithinSound
<1>4. size.value \in Int /\ Within(c) /\ Sound(c) /\ c \in CaretState /\ Left(c) \in Nat
  BY <1>3, Int32From, WithinSound
<1>5. Sound(e) /\ e.error /\ Sound(g) /\ g.error
  BY <1>3, <1>4, SetErrorFrom DEF From
<1>6. Whole(v)
  BY <1>1, ScalarClassNamed, NullWhole
<1>7. /\ IsStack(stack) /\ Kept(stack) /\ call.wraps \in Seq(Wrappers)
      /\ stack # <<>> => Filled(stack[Len(stack)].items)
  BY <1>1, Unbroken
<1> HIDE DEF size, c, v, e, g
<1>8. CASE Return(stack, Here, call.wraps, v)
  BY <1>1, <1>3, <1>6, <1>8, ReturnHereKeeps
<1>9. CASE Return(stack, e, call.wraps, Nil)
  BY <1>1, <1>5, <1>9, ReturnHereKeeps
<1>10. CASE Return(stack, g, call.wraps, Nil)
  BY <1>1, <1>5, <1>10, ReturnHereKeeps
<1>11. CASE Throw
  BY <1>1, <1>11, ThrowKeeps
<1>12. ASSUME n \in 0 .. Left(c), stack' = u, pc' = "iterate", UNCHANGED call
       PROVE  Intact(stack, pc, caret, call.wraps, ret)'
  <2>1. d \in Seq(BsonByte)
    <3>1. n \in Nat /\ n <= Left(c)
      BY <1>4, <1>12
    <3> HIDE DEF n
    <3> QED
      BY <1>4, <3>1, CurrBytesType
  <2> HIDE DEF d
  <2>2. IsFrame(f) /\ f.type # "none"
    BY <1>3, <2>1, NewFrameOK
  <2>3. Proper(f) /\ Filled(f.items)
    BY <1>3, <1>7, NewFrameProper
  <2> HIDE DEF f
  <2>4. OpenedOn(stack, c, f, u)
    BY DEF OpenedOn
  <2> HIDE DEF u
  <2>5. Kept(u) /\ u # <<>> /\ u[Len(u)] = f
    BY <1>4, <1>7, <2>2, <2>3, <2>4, KeptOpen
  <2> QED
    BY <1>7, <1>12, <2>3, <2>5 DEF Intact
<1> HIDE DEF n, d, f, u
<1> QED
  BY <1>2, <1>8, <1>9, <1>10, <1>11, <1>12

(* A loop that goes on, or that has come to the terminator, has seen no    *)
(* error. *)
LEMMA FilledInLoop ==
  ASSUME WInv, pc = "iterate", CanContinue(Top.inner)
  PROVE  /\ stack # <<>> /\ IsStack(stack) /\ Kept(stack) /\ IsFrame(Top)
         /\ Top = stack[Len(stack)] /\ Proper(Top) /\ Filled(Top.items) /\ Top.type # "none"
<1>1. ~Top.inner.error
  BY DEF CanContinue
<1>2. stack # <<>> /\ Top.type # "none"
  BY Unbroken, InFrame
<1> QED
  BY <1>1, <1>2, Unbroken

LEMMA KeyFailsKeeps ==
  ASSUME WInv, KeyFails
  PROVE  Intact(stack, pc, caret, call.wraps, ret)'
<1> DEFINE c == Element.caret
<1>1. InLoop /\ FailInside(c)
  BY DEF KeyFails
<1>2. c.pos \in Int /\ stack # <<>> /\ Top.type # "none"
  BY <1>1, Unbroken, LoopFacts, InFrame
<1> HIDE DEF c
<1> QED
  BY <1>1, <1>2, FailInsideKeeps

LEMMA DeserializeKeeps ==
  ASSUME WInv, InLoop, ~Element.caret.error, NEW STATE type, NEW STATE key,
         key \in Seq(BsonByte), Deserialize(type, key)
  PROVE  Intact(stack, pc, caret, call.wraps, ret)'
<1> DEFINE e == Element.caret
           n == Len(stack)
           f == [stack[n] EXCEPT !.inner = e, !.key = key]
           t == [stack EXCEPT ![n].inner = e, ![n].key = key]
<1>1. pc = "iterate" /\ Sound(e)
  BY Unbroken, LoopFacts
<1>2. call'.wraps = <<>> /\ stack' = t /\ pc' = "call"
  BY DEF Deserialize
<1>3. /\ stack # <<>> /\ IsStack(stack) /\ Kept(stack) /\ IsFrame(Top)
      /\ Top = stack[n] /\ Proper(Top) /\ Filled(Top.items) /\ Top.type # "none"
  BY <1>1, FilledInLoop DEF InLoop
<1>4. t = [stack EXCEPT ![n] = f]
  BY TwoFields
<1> HIDE DEF e
<1>5. IsFrame(f) /\ f.type = Top.type /\ Same(Top, f)
  <2> HIDE DEF f
  <2>1. CallFrom(Top, e, key, f)
    BY <1>3 DEF f, CallFrom
  <2>2. Moved(Top, e, f)
    BY <1>1, <1>3, <2>1, FrameCall, Zenon
  <2>3. Same(Top, f)
    BY <1>3, <2>1, SameCall
  <2> QED
    BY <2>2, <2>3 DEF Moved
<1> HIDE DEF f
<1>6. PutOn(stack, f, t) /\ Proper(f)
  BY <1>3, <1>4, <1>5, SameProper DEF PutOn
<1> HIDE DEF t
<1>7. Kept(t) /\ t # <<>> /\ t[Len(t)] = f
  BY <1>3, <1>5, <1>6, KeptPut, PutTop
<1>8. Filled(f.items)
  BY <1>3, <1>5 DEF Same
<1>9. <<>> \in Seq(Wrappers)
  OBVIOUS
<1> QED
  BY <1>2, <1>7, <1>8, <1>9 DEF Intact

LEMMA SkippingKeeps ==
  ASSUME WInv, InLoop, ~Element.caret.error,
         NEW STATE q, q \in Seq(PolymorphData),
         \A i \in DOMAIN q : IsPolymorph(Top.type, q[i].key), Skipping(q)
  PROVE  Intact(stack, pc, caret, call.wraps, ret)'
<1> DEFINE e == SkipElement(Element.caret, Element.code)
           n == Len(stack)
           f == [stack[n] EXCEPT !.inner = e, !.polymorphs = q]
           t == [stack EXCEPT ![n].inner = e, ![n].polymorphs = q]
<1>1. pc = "iterate" /\ Element.code \in BsonByte /\ Within(Element.caret)
  BY Unbroken, LoopFacts
<1>2. Sound(e) /\ e.pos \in Int
  BY <1>1, SkipFrom, SoundParts DEF From
<1>3. \/ e.error /\ FailInside(e)
      \/ stack' = t /\ UNCHANGED <<config, request, caret, call, ret, pc>>
  BY Zenon DEF Skipping
<1>4. /\ stack # <<>> /\ IsStack(stack) /\ Kept(stack) /\ IsFrame(Top)
      /\ Top = stack[n] /\ Proper(Top) /\ Filled(Top.items) /\ Top.type # "none"
      /\ call.wraps \in Seq(Wrappers)
  BY <1>1, FilledInLoop, Unbroken DEF InLoop
<1>5. t = [stack EXCEPT ![n] = f]
  BY TwoFields
<1> HIDE DEF e
<1>6. IsFrame(f) /\ f.type = Top.type /\ Same(Top, f)
  <2> HIDE DEF f
  <2>1. SkipTo(Top, e, q, f)
    BY <1>4 DEF f, SkipTo
  <2>2. \A i \in DOMAIN q : Top.type # "none" /\ IsPolymorph(Top.type, q[i].key)
    BY <1>4
  <2>3. Moved(Top, e, f)
    BY <1>2, <1>4, <2>1, <2>2, FrameSkip, Zenon
  <2>4. Same(Top, f)
    BY <1>4, <2>1, SameSkip
  <2> QED
    BY <2>3, <2>4 DEF Moved
<1> HIDE DEF f
<1>7. PutOn(stack, f, t) /\ Proper(f)
  BY <1>4, <1>5, <1>6, SameProper DEF PutOn
<1> HIDE DEF t
<1>8. Kept(t) /\ t # <<>> /\ t[Len(t)] = f
  BY <1>4, <1>6, <1>7, KeptPut, PutTop
<1>9. Filled(f.items)
  BY <1>4, <1>6 DEF Same
<1>10. CASE FailInside(e)
  BY <1>2, <1>4, <1>10, FailInsideKeeps
<1>11. ASSUME stack' = t, UNCHANGED <<config, request, caret, call, ret, pc>>
       PROVE  Intact(stack, pc, caret, call.wraps, ret)'
  BY <1>1, <1>4, <1>8, <1>9, <1>11 DEF Intact
<1> QED
  BY <1>3, <1>10, <1>11

LEMMA CollectionElementKeeps ==
  ASSUME WInv, CollectionElement
  PROVE  Intact(stack, pc, caret, call.wraps, ret)'
<1> DEFINE c == Element.caret
           t == Item(Top.type)
           k == Element.key
<1>1. /\ AtElement("Collection")
      /\ Deserialize(t, k) \/ FailInside(c)
  BY DEF CollectionElement
<1>2. /\ InLoop /\ ~Element.caret.error /\ k \in Seq(BsonByte)
      /\ c.pos \in Int /\ stack # <<>> /\ Top.type # "none"
  BY <1>1, Unbroken, AtElementFacts
<1> HIDE DEF c, t, k
<1>3. CASE Deserialize(t, k)
  BY <1>2, <1>3, DeserializeKeeps
<1>4. CASE FailInside(c)
  BY <1>2, <1>4, FailInsideKeeps
<1> QED
  BY <1>1, <1>3, <1>4

LEMMA MapElementKeeps ==
  ASSUME WInv, MapElement
  PROVE  Intact(stack, pc, caret, call.wraps, ret)'
<1> DEFINE t == Item(Top.type)
           k == Element.key
<1>1. AtElement("Map") /\ Deserialize(t, k)
  BY DEF MapElement
<1>2. InLoop /\ ~Element.caret.error /\ k \in Seq(BsonByte)
  BY <1>1, Unbroken, AtElementFacts
<1> HIDE DEF t, k
<1> QED
  BY <1>1, <1>2, DeserializeKeeps

LEMMA FieldElementKeeps ==
  ASSUME WInv, FieldElement
  PROVE  Intact(stack, pc, caret, call.wraps, ret)'
<1> DEFINE t == FieldOf(Top.type, Element.key).type
           k == Element.key
<1>1. AtElement("Object") /\ Deserialize(t, k)
  BY DEF FieldElement
<1>2. InLoop /\ ~Element.caret.error /\ k \in Seq(BsonByte)
  BY <1>1, Unbroken, AtElementFacts
<1> HIDE DEF t, k
<1> QED
  BY <1>1, <1>2, DeserializeKeeps

LEMMA CloseFailsKeeps ==
  ASSUME WInv, CloseFails
  PROVE  Intact(stack, pc, caret, call.wraps, ret)'
<1> DEFINE c == Top.inner
<1>1. pc = "iterate" /\ FailInside(c)
  BY DEF CloseFails
<1>2. stack # <<>> /\ Top.type # "none" /\ c.pos \in Int
  BY <1>1, Unbroken, InFrame, SoundParts
<1> HIDE DEF c
<1> QED
  BY <1>1, <1>2, FailInsideKeeps

LEMMA PolymorphElementKeeps ==
  ASSUME WInv, PolymorphElement
  PROVE  Intact(stack, pc, caret, call.wraps, ret)'
<1>1. PICK behind \in Behind : Skipping(Append(Top.polymorphs, SetAside(behind)))
  BY DEF PolymorphElement
<1> DEFINE q == Append(Top.polymorphs, SetAside(behind))
           e == SkipElement(Element.caret, Element.code)
<1>2. /\ AtElement("Object") /\ IsField(Element.key)
      /\ FieldOf(Top.type, Element.key).select # "none" /\ Skipping(q)
  BY <1>1 DEF PolymorphElement
<1>3. InLoop /\ ~Element.caret.error
  BY <1>2 DEF AtElement
<1>4. CASE e.error
  <2> HIDE DEF q
  <2>1. FailInside(e) /\ e.pos \in Int /\ stack # <<>> /\ Top.type # "none"
    BY <1>2, <1>3, <1>4, Unbroken, SkippingFails
  <2> HIDE DEF e
  <2> QED
    BY <2>1, FailInsideKeeps
<1>5. CASE ~e.error
  <2>1. q \in Seq(PolymorphData) /\ \A i \in DOMAIN q : IsPolymorph(Top.type, q[i].key)
    BY <1>2, <1>5, Unbroken, SetAsideAlso
  <2> HIDE DEF q
  <2> QED
    BY <1>2, <1>3, <2>1, SkippingKeeps
<1> QED
  BY <1>4, <1>5

LEMMA UnknownElementKeeps ==
  ASSUME WInv, UnknownElement
  PROVE  Intact(stack, pc, caret, call.wraps, ret)'
<1> DEFINE q == Top.polymorphs
           c == Element.caret
<1>1. /\ AtElement("Object")
      /\ Skipping(q) \/ FailInside(c)
  BY DEF UnknownElement
<1>2. /\ InLoop /\ ~Element.caret.error /\ q \in Seq(PolymorphData)
      /\ \A i \in DOMAIN q : IsPolymorph(Top.type, q[i].key)
      /\ c.pos \in Int /\ stack # <<>> /\ Top.type # "none"
  BY <1>1, Unbroken, AtElementFacts
<1> HIDE DEF q, c
<1>3. CASE Skipping(q)
  BY <1>2, <1>3, SkippingKeeps
<1>4. CASE FailInside(c)
  BY <1>2, <1>4, FailInsideKeeps
<1> QED
  BY <1>1, <1>3, <1>4

LEMMA CloseKeeps ==
  ASSUME WInv, Close
  PROVE  Intact(stack, pc, caret, call.wraps, ret)'
<1> DEFINE b == Below(stack)
           c == Closed(CaretOf(b))
           g == [Top EXCEPT !.inner = Inc(Top.inner, 1)]
           w == Top.wraps
           v == Value(Class(Top.type), <<>>, Top.items)
           u == Append(IF b = <<>> THEN b ELSE [b EXCEPT ![Len(b)].inner = c], g)
<1>1. /\ pc = "iterate" /\ AtTerminator
      /\ \/ Return(b, c, w, v)
         \/ /\ InClass("Object")
            /\ stack' = u /\ pc' = "polymorphs" /\ UNCHANGED call
  BY DEF Close
<1>2. /\ stack # <<>> /\ IsStack(stack) /\ Kept(stack) /\ IsFrame(Top)
      /\ Top = stack[Len(stack)] /\ Proper(Top) /\ Filled(Top.items) /\ Top.type # "none"
  BY <1>1, FilledInLoop DEF AtTerminator, AtChar
<1>3. IsStack(b) /\ Kept(b) /\ (b # <<>> => Filled(b[Len(b)].items))
  BY <1>2, KeptPop
<1>4. Sound(c)
  <2>1. Sound(CaretOf(b))
    BY <1>2, Unbroken, PopTop
  <2> QED
    BY <1>1, <2>1, Unbroken, ClosedFrom DEF From
<1>5. w \in Seq(Wrappers) /\ Whole(v)
  BY <1>2, ValueWhole DEF Proper
<1>6. call.wraps \in Seq(Wrappers)
  BY Unbroken
<1>7. IsFrame(g) /\ g.type = Top.type /\ Proper(g) /\ Filled(g.items)
  <2> DEFINE end == Inc(Top.inner, 1)
  <2>1. Sound(end)
    BY <1>1, Unbroken, AtEnd
  <2> HIDE DEF end
  <2>2. g = [Top EXCEPT !.inner = end]
    BY DEF end
  <2>3. Same(Top, g)
    BY <1>2, <2>2, SameFrames
  <2>4. IsFrame(g)
    BY <1>2, <2>1, <2>2, FrameInner
  <2> HIDE DEF g
  <2>5. Proper(g)
    BY <1>2, <2>3, SameProper
  <2> QED
    BY <1>2, <2>3, <2>4, <2>5 DEF Same
<1> HIDE DEF b, c, w, v, g
<1>8. CASE Return(b, c, w, v)
  BY <1>3, <1>4, <1>5, <1>8, ReturnKeeps
<1>9. ASSUME InClass("Object"), stack' = u, pc' = "polymorphs", UNCHANGED call
      PROVE  Intact(stack, pc, caret, call.wraps, ret)'
  <2>1. OpenedOn(b, c, g, u)
    BY DEF OpenedOn
  <2> HIDE DEF u
  <2>2. Kept(u) /\ u # <<>> /\ u[Len(u)] = g
    BY <1>2, <1>3, <1>4, <1>7, <2>1, KeptOpen
  <2>3. Class(g.type) = "Object"
    BY <1>7, <1>9 DEF InClass
  <2> QED
    BY <1>6, <1>7, <1>9, <2>2, <2>3 DEF Intact
<1> HIDE DEF u
<1> QED
  BY <1>1, <1>8, <1>9

LEMMA ReturnObjectKeeps ==
  ASSUME WInv, ReturnObject
  PROVE  Intact(stack, pc, caret, call.wraps, ret)'
<1> DEFINE b == Below(stack)
           c == CaretOf(b)
           w == Top.wraps
           v == Value("Object", <<>>, Top.items)
<1>1. pc = "polymorphs" /\ Return(b, c, w, v)
  BY DEF ReturnObject
<1>2. /\ stack # <<>> /\ Top.type # "none" /\ IsStack(stack) /\ Kept(stack)
      /\ Proper(Top) /\ Filled(Top.items)
  BY <1>1, Unbroken, InFrame
<1>3. IsStack(b) /\ Kept(b) /\ (b # <<>> => Filled(b[Len(b)].items))
  BY <1>2, KeptPop
<1>4. Sound(c)
  BY <1>2, Unbroken, PopTop
<1>5. w \in Seq(Wrappers) /\ Whole(v)
  BY <1>2, ValueWhole DEF Proper
<1> HIDE DEF b, c, w, v
<1> QED
  BY <1>1, <1>3, <1>4, <1>5, ReturnKeeps

LEMMA OpenPolymorphKeeps ==
  ASSUME WInv, OpenPolymorph
  PROVE  Intact(stack, pc, caret, call.wraps, ret)'
<1> DEFINE p == Head(Top.polymorphs)
           q == Tail(Top.polymorphs)
           n == Len(stack)
           f == [stack[n] EXCEPT !.polymorphs = q]
           s == [stack EXCEPT ![n].polymorphs = Tail(@)]
           g == [ type |-> "none", wraps |-> <<>>, inner |-> Caret(p.data),
                  index |-> 0, key |-> p.key, items |-> <<>>, polymorphs |-> <<>> ]
           u == Append(s, g)
<1>1. /\ pc = "polymorphs" /\ Top.polymorphs # <<>> /\ call'.wraps = <<"Any">>
      /\ stack' = u /\ pc' = "call"
  BY DEF OpenPolymorph
<1>2. /\ stack # <<>> /\ IsStack(stack) /\ Kept(stack) /\ IsFrame(Top) /\ Top = stack[n]
      /\ Top.type # "none" /\ Proper(Top) /\ Filled(Top.items) /\ Class(Top.type) = "Object"
  BY <1>1, Unbroken, InFrame
<1>3. /\ p \in PolymorphData /\ IsPolymorph(Top.type, p.key) /\ q \in Seq(PolymorphData)
      /\ \A i \in DOMAIN q : Top.type # "none" /\ IsPolymorph(Top.type, q[i].key)
  BY <1>1, <1>2, Unbroken, NextSetAside
<1>4. s = [stack EXCEPT ![n] = f]
  BY <1>2
<1> HIDE DEF q
<1>5. IsFrame(f) /\ f.type = Top.type /\ Same(Top, f)
  <2>1. f = [Top EXCEPT !.polymorphs = q]
    BY <1>2
  <2> HIDE DEF f
  <2>2. IsFrame(f) /\ f.type = Top.type
    BY <1>2, <1>3, <2>1, FramePolymorphs
  <2>3. Same(Top, f)
    BY <1>2, <2>1, SameFrames, Zenon
  <2> QED
    BY <2>2, <2>3
<1> HIDE DEF f
<1>6. PutOn(stack, f, s) /\ Proper(f)
  BY <1>2, <1>4, <1>5, SameProper DEF PutOn
<1> HIDE DEF s
<1>7. Kept(s) /\ IsStack(s) /\ s # <<>> /\ s[Len(s)] = f /\ Filled(f.items)
  BY <1>2, <1>5, <1>6, KeptPut, PutTop DEF Same
<1>8. IsFrame(g) /\ g.items = <<>> /\ g.wraps = <<>> /\ g.key = p.key
  <2>1. PolymorphFrame(p, g)
    BY DEF PolymorphFrame
  <2>2. IsFrame(g)
    <3> HIDE DEF g, p
    <3> QED
      BY <1>3, <2>1, PolymorphFrameOK
  <2> QED
    BY <2>2
<1> HIDE DEF g
<1>9. Proper(g) /\ Filled(g.items)
  <2> DEFINE S == {}
  <2>1. <<>> \in Seq(S) /\ \A e \in S : IsEntry(e)
    OBVIOUS
  <2> HIDE DEF S
  <2>2. Entries(<<>>)
    BY <2>1 DEF Entries
  <2>3. <<>> \in Seq(Wrappers)
    OBVIOUS
  <2> QED
    BY <1>8, <2>2, <2>3 DEF Proper, Marked, Filled
<1>10. Over(f, g)
  BY <1>2, <1>3, <1>5, <1>8 DEF Over
<1>11. PushOn(s, g, u)
  BY DEF PushOn
<1> HIDE DEF u
<1>12. Kept(u) /\ u # <<>> /\ u[Len(u)] = g
  BY <1>7, <1>8, <1>9, <1>10, <1>11, KeptPush, PushTop
<1>13. <<"Any">> \in Seq(Wrappers)
  <2>1. "Any" \in Wrappers
    BY DEF Wrappers
  <2> HIDE DEF Wrappers
  <2> QED
    BY <2>1
<1> QED
  BY <1>1, <1>9, <1>12, <1>13 DEF Intact

-----------------------------------------------------------------------------
(* What the caller does with the value. *)

LEMMA KeepKeeps ==
  ASSUME WInv, pc = "returned", stack # <<>>,
         NEW STATE f, IsFrame(f), f.type = Top.type, f.type # "none", Proper(f),
         Filled(f.items) \/ f.inner.error, Keep(f)
  PROVE  Intact(stack, pc, caret, call.wraps, ret)'
<1> DEFINE t == [stack EXCEPT ![Len(stack)] = f]
<1>1. stack' = t /\ pc' = "iterate" /\ UNCHANGED call
  BY DEF Keep
<1>2. PutOn(stack, f, t)
  BY DEF PutOn
<1> HIDE DEF t
<1>3. /\ IsStack(stack) /\ Kept(stack) /\ Top = stack[Len(stack)]
      /\ call.wraps \in Seq(Wrappers)
  BY Unbroken
<1>4. Kept(t) /\ t # <<>> /\ t[Len(t)] = f
  BY <1>2, <1>3, KeptPut, PutTop
<1> QED
  BY <1>1, <1>3, <1>4 DEF Intact

(* One more item; a field's value. *)
LEMMA AppendEntry ==
  ASSUME NEW x, Entries(x), NEW k, NEW v
  PROVE  /\ Entries(Append(x, Entry(k, v)))
         /\ Filled(x) /\ Whole(v) => Filled(Append(x, Entry(k, v)))
<1> DEFINE e == Entry(k, v)
<1>1. IsEntry(e) /\ e.value = v
  BY DEF Entry, IsEntry
<1> HIDE DEF e
<1>2. PICK S : x \in Seq(S) /\ \A d \in S : IsEntry(d)
  BY DEF Entries
<1> DEFINE T == S \cup {e}
<1>3. x \in Seq(T) /\ e \in T /\ \A d \in T : IsEntry(d)
  <2>1. S \subseteq T
    OBVIOUS
  <2> QED
    BY <1>1, <1>2, <2>1, SeqMonotonic
<1> HIDE DEF T
<1>4. /\ Append(x, e) \in Seq(T) /\ Len(x) \in Nat /\ DOMAIN x = 1 .. Len(x)
      /\ DOMAIN Append(x, e) = 1 .. Len(x) + 1
      /\ \A i \in 1 .. Len(x) : Append(x, e)[i] = x[i]
      /\ Append(x, e)[Len(x) + 1] = e
  BY <1>3, AppendProperties, LenProperties
<1>5. \A i \in 1 .. Len(x) + 1 : i \in 1 .. Len(x) \/ i = Len(x) + 1
  BY <1>4
<1>6. Entries(Append(x, e))
  BY <1>3, <1>4 DEF Entries
<1>7. ASSUME Filled(x), Whole(v)
      PROVE  Filled(Append(x, e))
  BY <1>1, <1>4, <1>5, <1>7 DEF Filled
<1> QED
  BY <1>6, <1>7 DEF e

LEMMA SetEntry ==
  ASSUME NEW x, Entries(x), NEW k, NEW v
  PROVE  /\ Entries(Set(x, k, v)) /\ DOMAIN Set(x, k, v) = DOMAIN x
         /\ \A i \in DOMAIN x :
              /\ Set(x, k, v)[i].key = x[i].key /\ Set(x, k, v)[i].select = x[i].select
              /\ Set(x, k, v)[i].value = IF x[i].key = k THEN v ELSE x[i].value
<1> DEFINE d(i) == IF x[i].key = k THEN [x[i] EXCEPT !.value = v] ELSE x[i]
           y == Set(x, k, v)
<1>1. PICK S : x \in Seq(S) /\ \A e \in S : IsEntry(e)
  BY DEF Entries
<1>2. Len(x) \in Nat /\ DOMAIN x = 1 .. Len(x) /\ \A i \in DOMAIN x : IsEntry(x[i])
  <2>1. \A i \in 1 .. Len(x) : x[i] \in S
    BY <1>1, ElementOfSeq
  <2> QED
    BY <1>1, <2>1, LenProperties
<1>3. y = [i \in DOMAIN x |-> d(i)]
  BY DEF Set
<1>4. ASSUME NEW i \in DOMAIN x
      PROVE  /\ IsEntry(d(i)) /\ d(i).key = x[i].key /\ d(i).select = x[i].select
             /\ d(i).value = IF x[i].key = k THEN v ELSE x[i].value
  <2>1. IsEntry(x[i])
    BY <1>2
  <2> QED
    BY <2>1 DEF IsEntry
<1> DEFINE T == { d(i) : i \in DOMAIN x }
           n == Len(x)
<1>5. y \in [1 .. n -> T] /\ n \in Nat
  BY <1>2, <1>3
<1>6. \A e \in T : IsEntry(e)
  BY <1>4
<1>7. DOMAIN y = DOMAIN x /\ \A i \in DOMAIN x : y[i] = d(i)
  BY <1>3
<1> HIDE DEF T, n, d, y
<1>8. y \in Seq(T)
  BY <1>5, SeqDef
<1> QED
  BY <1>4, <1>6, <1>7, <1>8 DEF Entries, y

LEMMA SetFilled ==
  ASSUME NEW x, Entries(x), Filled(x), NEW k, NEW v, Whole(v) 
  PROVE  Filled(Set(x, k, v))
<1> DEFINE y == Set(x, k, v)
<1>1. /\ DOMAIN y = DOMAIN x
      /\ \A i \in DOMAIN x : /\ y[i].select = x[i].select
                             /\ y[i].value = IF x[i].key = k THEN v ELSE x[i].value
  BY SetEntry
<1> HIDE DEF y
<1> QED
  BY <1>1 DEF Filled, y

(* A field with a typeSelector may be given anything. *)
LEMMA SetMarked ==
  ASSUME NEW x, Entries(x), Filled(x), NEW k, NEW v,
         \A i \in DOMAIN x : x[i].key = k => x[i].select # "none"
  PROVE  Filled(Set(x, k, v))
<1> DEFINE y == Set(x, k, v)
<1>1. /\ DOMAIN y = DOMAIN x
      /\ \A i \in DOMAIN x : /\ y[i].select = x[i].select
                             /\ y[i].value = IF x[i].key = k THEN v ELSE x[i].value
  BY SetEntry
<1> HIDE DEF y
<1> QED
  BY <1>1 DEF Filled, y


LEMMA FrameWithItem ==
  ASSUME NEW g, IsFrame(g), NEW x, NEW n
  PROVE  /\ [g EXCEPT !.items = x, !.index = n].items = x
         /\ [g EXCEPT !.items = x, !.index = n].wraps = g.wraps
BY DEF IsFrame

LEMMA FrameWith ==
  ASSUME NEW g, IsFrame(g), NEW x, NEW f, f = [g EXCEPT !.items = x]
  PROVE  f.items = x /\ f.wraps = g.wraps /\ f.key = g.key
BY DEF IsFrame

LEMMA ReceiveItemKeeps ==
  ASSUME WInv, ReceiveItem
  PROVE  Intact(stack, pc, caret, call.wraps, ret)'
<1> DEFINE e == Entry(<<>>, ret)
           x == Append(Top.items, e)
           f == [Top EXCEPT !.items = x, !.index = Top.index + 1]
           c == Top.inner
<1>1. /\ pc = "returned" /\ stack # <<>> /\ Top.type # "none" /\ InClass("Collection")
      /\ FailInside(c) \/ (~Top.inner.error /\ Keep(f))
  BY DEF ReceiveItem, Receiving
<1>2. /\ IInv /\ Proper(Top) /\ IsFrame(Top) /\ Filled(Top.items)
      /\ Here.error \/ Whole(ret)
  BY <1>1, Unbroken
<1>3. Here = Top.inner /\ c.pos \in Int
  BY <1>1, <1>2, SoundParts DEF Here, CaretOf, Top, IsFrame
<1>4. Entries(x) /\ (Whole(ret) => Filled(x))
  BY <1>2, AppendEntry DEF Proper
<1> HIDE DEF x, c
<1>5. IsFrame(f) /\ f.inner = Top.inner /\ f.type = Top.type
  BY <1>2, FrameItem
<1>6. f.items = x /\ f.wraps = Top.wraps
  BY <1>2, FrameWithItem
<1> HIDE DEF f
<1>7. Proper(f)
  <2>1. Class(f.type) # "Object"
    BY <1>1, <1>5 DEF InClass
  <2> QED
    BY <1>2, <1>4, <1>6, <2>1 DEF Proper, Marked
<1>8. CASE FailInside(c)
  BY <1>1, <1>3, <1>8, FailInsideKeeps
<1>9. CASE ~Top.inner.error /\ Keep(f)
  <2>1. Filled(f.items)
    BY <1>2, <1>3, <1>4, <1>6, <1>9
  <2> QED
    BY <1>1, <1>5, <1>7, <1>9, <2>1, KeepKeeps
<1> QED
  BY <1>1, <1>8, <1>9

LEMMA ReceiveValueKeeps ==
  ASSUME WInv, ReceiveValue
  PROVE  Intact(stack, pc, caret, call.wraps, ret)'
<1> DEFINE e == Entry(Top.key, ret)
           x == Append(Top.items, e)
           f == [Top EXCEPT !.items = x]
<1>1. /\ pc = "returned" /\ stack # <<>> /\ Top.type # "none" /\ InClass("Map") /\ Keep(f)
  BY DEF ReceiveValue, Receiving
<1>2. /\ IInv /\ Proper(Top) /\ IsFrame(Top) /\ Filled(Top.items)
      /\ Here.error \/ Whole(ret)
  BY <1>1, Unbroken
<1>3. Here = Top.inner
  BY <1>1 DEF Here, CaretOf, Top
<1>4. Entries(x) /\ (Whole(ret) => Filled(x))
  BY <1>2, AppendEntry DEF Proper
<1> HIDE DEF x
<1>5. IsFrame(f) /\ f.inner = Top.inner /\ f.type = Top.type
  BY <1>2, FrameItems
<1>6. f.items = x /\ f.wraps = Top.wraps
  BY <1>2, FrameWith
<1> HIDE DEF f
<1>7. Proper(f)
  <2>1. Class(f.type) # "Object"
    BY <1>1, <1>5 DEF InClass
  <2> QED
    BY <1>2, <1>4, <1>6, <2>1 DEF Proper, Marked
<1>8. Filled(f.items) \/ f.inner.error
  BY <1>2, <1>3, <1>4, <1>5, <1>6
<1> QED
  BY <1>1, <1>5, <1>7, <1>8, KeepKeeps

(* A field's value leaves the marks of the object's other fields alone.    *)
LEMMA SetProper ==
  ASSUME NEW g, IsFrame(g), Proper(g), NEW k, NEW v, NEW f,
         f = [g EXCEPT !.items = Set(g.items, k, v)]
  PROVE  Proper(f) /\ f.items = Set(g.items, k, v) /\ f.key = g.key
<1> DEFINE y == Set(g.items, k, v)
<1>1. /\ Entries(y) /\ DOMAIN y = DOMAIN g.items
      /\ \A i \in DOMAIN g.items : y[i].key = g.items[i].key /\ y[i].select = g.items[i].select
  BY SetEntry DEF Proper
<1>2. f = [g EXCEPT !.items = y]
  OBVIOUS
<1> HIDE DEF y
<1>3. f.items = y /\ f.wraps = g.wraps /\ f.key = g.key
  BY <1>2, FrameWith
<1>4. f.type = g.type
  BY <1>2, FrameItems
<1>5. Proper(f)
  BY <1>1, <1>3, <1>4 DEF Proper, Marked
<1> QED
  BY <1>3, <1>5 DEF y

LEMMA ReceiveFieldKeeps ==
  ASSUME WInv, ReceiveField
  PROVE  Intact(stack, pc, caret, call.wraps, ret)'
<1> DEFINE x == Set(Top.items, Top.key, ret)
           f == [Top EXCEPT !.items = x]
<1>1. pc = "returned" /\ stack # <<>> /\ Top.type # "none" /\ Keep(f)
  BY DEF ReceiveField, Receiving
<1>2. /\ IInv /\ Proper(Top) /\ IsFrame(Top) /\ Filled(Top.items)
      /\ Here.error \/ Whole(ret)
  BY <1>1, Unbroken
<1>3. Here = Top.inner
  BY <1>1 DEF Here, CaretOf, Top
<1>4. Whole(ret) => Filled(x)
  BY <1>2, SetFilled DEF Proper
<1>5. Proper(f) /\ f.items = x
  BY <1>2, SetProper
<1> HIDE DEF x
<1>6. IsFrame(f) /\ f.inner = Top.inner /\ f.type = Top.type
  BY <1>2, FrameItems
<1> HIDE DEF f
<1>7. Filled(f.items) \/ f.inner.error
  BY <1>2, <1>3, <1>4, <1>5, <1>6
<1> QED
  BY <1>1, <1>5, <1>6, <1>7, KeepKeeps

(* The value of a field with a typeSelector goes where Held does not look. *)
LEMMA ReceivePolymorphKeeps ==
  ASSUME WInv, ReceivePolymorph
  PROVE  Intact(stack, pc, caret, call.wraps, ret)'
<1> DEFINE b == Below(stack)
           g == b[Len(b)]
           k == Top.key
           x == Set(g.items, k, ret)
           f == [g EXCEPT !.items = x]
           t == [b EXCEPT ![Len(b)] = f]
<1>1. /\ pc = "returned" /\ stack # <<>> /\ Top.type = "none"
      /\ stack' = [b EXCEPT ![Len(b)].items = Set(@, Top.key, ret)]
      /\ pc' = "polymorphs" /\ UNCHANGED call
  BY DEF ReceivePolymorph
<1>2. stack' = t
  BY <1>1
<1>3. /\ IInv /\ IsStack(stack) /\ Kept(stack) /\ RootOK(request, stack, "returned", caret)
      /\ Top = stack[Len(stack)] /\ call.wraps \in Seq(Wrappers)
      /\ Len(stack) \in Nat /\ Len(stack) >= 1
  BY <1>1, Unbroken, Facts
<1>4. Len(stack) >= 2
  <2> DEFINE n == Len(stack)
  <2>1. stack[1].type # "none"
    BY <1>1, <1>3 DEF RootOK, Opened
  <2>2. n # 1
    BY <1>1, <1>3, <2>1
  <2>3. n \in Nat /\ n >= 1
    BY <1>3
  <2> HIDE DEF n
  <2>4. n >= 2
    BY <2>2, <2>3
  <2> QED
    BY <2>4 DEF n
<1>5. Len(b) # 0
  BY <1>1, <1>3, <1>4, PopStack
<1> HIDE DEF x
<1>6. /\ IsStack(b) /\ Kept(b) /\ b # <<>> /\ Filled(g.items) /\ Over(g, Top)
  <2>1. b # <<>>
    BY <1>5
  <2> QED
    BY <1>1, <1>3, <2>1, KeptPop
<1>7. Class(g.type) = "Object" /\ IsPolymorph(g.type, k) /\ g.type # "none"
  <2>1. Len(stack) \in 2 .. Len(stack)
    BY <1>3, <1>4
  <2>2. b[Len(b)] = stack[Len(stack) - 1]
    <3>1. Len(b) = Len(stack) - 1 /\ \A i \in 1 .. Len(stack) - 1 : b[i] = stack[i]
      BY <1>1, <1>3, PopStack
    <3>2. Len(stack) - 1 \in 1 .. Len(stack) - 1
      BY <1>3, <1>4
    <3> QED
      BY <3>1, <3>2
  <2>3. g.type # "none"
    BY <1>1, <1>3, <2>1, <2>2 DEF RootOK, Layered
  <2> QED
    BY <1>1, <1>6, <2>3 DEF Over
<1> HIDE DEF b
<1>8. Proper(g) /\ IsFrame(g)
  BY <1>6, KeptTop
<1> HIDE DEF k, g
<1>9. Proper(f) /\ f.items = x /\ f.key = g.key
  BY <1>8, SetProper DEF x
<1>10. Filled(x)
  <2>1. \A i \in DOMAIN g.items : g.items[i].key = k => g.items[i].select # "none"
    BY <1>7, <1>8 DEF Proper, Marked
  <2> QED
    BY <1>6, <1>8, <2>1, SetMarked DEF x, Proper
<1>11. IsFrame(f) /\ f.type = g.type
  BY <1>8, FrameItems
<1> HIDE DEF f
<1>12. PutOn(b, f, t)
  BY DEF PutOn
<1> HIDE DEF t
<1>13. Kept(t) /\ t # <<>> /\ t[Len(t)] = f
  <2>1. f.type = b[Len(b)].type /\ (f.type # "none" \/ f.key = b[Len(b)].key)
    BY <1>7, <1>11 DEF g
  <2> QED
    BY <1>6, <1>9, <1>11, <1>12, <2>1, KeptPut, PutTop
<1> QED
  BY <1>1, <1>2, <1>3, <1>7, <1>9, <1>10, <1>11, <1>13 DEF Intact


LEMMA ReadReturnsKeeps ==
  ASSUME WInv, ReadReturns
  PROVE  Intact(stack, pc, caret, call.wraps, ret)'
<1>1. /\ pc = "returned" /\ stack = <<>> /\ pc' = "done"
      /\ UNCHANGED <<caret, stack, call, ret>>
  BY DEF ReadReturns
<1>2. Intact(stack, "returned", caret, call.wraps, ret)
  BY <1>1 DEF WInv
<1>3. Intact(stack, "done", caret, call.wraps, ret)
  BY <1>1, <1>2 DEF Intact
<1> QED
  BY <1>1, <1>3

LEMMA StutterKeeps ==
  ASSUME WInv, UNCHANGED vars
  PROVE  Intact(stack, pc, caret, call.wraps, ret)'
BY DEF WInv, vars

-----------------------------------------------------------------------------
LEMMA InitWInv ==
  ASSUME Init
  PROVE  WInv
<1>1. stack = <<>> /\ pc = "call" /\ call.wraps = <<>>
  BY DEF Init
<1>2. IInv
  BY InitInv
<1>3. <<>> \in Seq(Wrappers)
  OBVIOUS
<1> QED
  BY <1>1, <1>2, <1>3, NoFrames DEF WInv, Intact

LEMMA NextWInv ==
  ASSUME WInv, [Next]_vars
  PROVE  WInv'
<1> DEFINE P == Intact(stack, pc, caret, call.wraps, ret)'
<1> SUFFICES P
  BY NextInv DEF WInv
<1>1. CASE DeserializeScalar       BY <1>1, DeserializeScalarKeeps
<1>2. CASE DeserializeInlineDocs   BY <1>2, DeserializeInlineDocsKeeps
<1>3. CASE DeserializeAny          BY <1>3, DeserializeAnyKeeps
<1>4. CASE DeserializeEnum         BY <1>4, DeserializeEnumKeeps
<1>5. CASE DeserializeInterpreted  BY <1>5, DeserializeInterpretedKeeps
<1>6. CASE DeserializeUnknown      BY <1>6, DeserializeUnknownKeeps
<1>7. CASE OpenCompound            BY <1>7, OpenCompoundKeeps
<1>8. CASE KeyFails                BY <1>8, KeyFailsKeeps
<1>9. CASE CollectionElement       BY <1>9, CollectionElementKeeps
<1>10. CASE MapElement             BY <1>10, MapElementKeeps
<1>11. CASE FieldElement           BY <1>11, FieldElementKeeps
<1>12. CASE PolymorphElement       BY <1>12, PolymorphElementKeeps
<1>13. CASE UnknownElement         BY <1>13, UnknownElementKeeps
<1>14. CASE CloseFails             BY <1>14, CloseFailsKeeps
<1>15. CASE Close                  BY <1>15, CloseKeeps
<1>16. CASE OpenPolymorph          BY <1>16, OpenPolymorphKeeps
<1>17. CASE ReturnObject           BY <1>17, ReturnObjectKeeps
<1>18. CASE ReceiveItem            BY <1>18, ReceiveItemKeeps
<1>19. CASE ReceiveValue           BY <1>19, ReceiveValueKeeps
<1>20. CASE ReceiveField           BY <1>20, ReceiveFieldKeeps
<1>21. CASE ReceivePolymorph       BY <1>21, ReceivePolymorphKeeps
<1>22. CASE ReadReturns            BY <1>22, ReadReturnsKeeps
<1>23. CASE UNCHANGED vars        BY <1>23, StutterKeeps
<1> QED
  BY <1>1, <1>2, <1>3, <1>4, <1>5, <1>6, <1>7, <1>8, <1>9, <1>10, <1>11, <1>12, <1>13,
     <1>14, <1>15, <1>16, <1>17, <1>18, <1>19, <1>20, <1>21, <1>22, <1>23
     DEF Next, Step, Finished

(* A read that reports no error has read every part of its result, at any  *)
(* depth, for any types and any bytes: an error in a nested document is    *)
(* never lost on the way to the caller, except within a field that has a   *)
(* typeSelector, whose caret goes out of scope with its error.             *)
THEOREM NothingLost == Spec => []NothingMissing
<1>1. WInv => NothingMissing
  <2> SUFFICES ASSUME WInv, pc = "done", ~caret.error, NEW n \in 0 .. Depth
               PROVE  Nil \notin Parts(ret, n)
    BY DEF NothingMissing
  <2>1. RootOK(request, stack, "done", caret)
    BY Unbroken, Facts
  <2>2. stack = <<>>
    BY <2>1 DEF RootOK
  <2>3. Here = caret
    BY <2>2 DEF Here, CaretOf
  <2>4. Whole(ret)
    BY <2>3, Unbroken
  <2>5. n \in Nat
    BY DepthAssumption
  <2> QED
    BY <2>4, <2>5, PartsOfWhole
<1>2. Init => WInv
  BY InitWInv
<1>3. WInv /\ [Next]_vars => WInv'
  BY NextWInv
<1> QED
  BY <1>1, <1>2, <1>3, PTL DEF Spec

-----------------------------------------------------------------------------
(* Places from which no walk goes astray, said of a set of places that is  *)
(* closed under Leads so that no induction over walks is needed.           *)

OnTrack(S) == Astray \notin S /\ \A x \in S : Leads(x) \subseteq S

Framed(p) == \E S : p \in S /\ OnTrack(S)

LEMMA FramedLeads ==
  ASSUME NEW p, Framed(p)
  PROVE  p # Astray /\ \A x \in Leads(p) : Framed(x)
BY DEF Framed, OnTrack

(* A place is framed if those that it leads to are. *)
LEMMA Joined ==
  ASSUME NEW p, p # Astray, \A x \in Leads(p) : Framed(x)
  PROVE  Framed(p)
<1> DEFINE P(x) == CHOOSE S : x \in S /\ OnTrack(S)
           T == {p} \cup UNION { P(x) : x \in Leads(p) }
<1>1. ASSUME NEW x \in Leads(p)
      PROVE  x \in P(x) /\ OnTrack(P(x))
  <2>1. \E S : x \in S /\ OnTrack(S)
    BY DEF Framed
  <2> QED
    BY <2>1
<1> HIDE DEF P
<1>2. Astray \notin T
  <2>1. ASSUME NEW x \in Leads(p)
        PROVE  Astray \notin P(x)
    BY <1>1 DEF OnTrack
  <2> HIDE DEF Astray
  <2> QED
    BY <2>1
<1>3. ASSUME NEW y \in T
      PROVE  Leads(y) \subseteq T
  <2>1. CASE y = p
    <3>1. ASSUME NEW x \in Leads(p)
          PROVE  x \in T
      BY <1>1
    <3> HIDE DEF T
    <3> QED
      BY <2>1, <3>1
  <2>2. CASE y # p
    <3>1. PICK x \in Leads(p) : y \in P(x)
      BY <2>2
    <3>2. Leads(y) \subseteq P(x)
      BY <1>1, <3>1 DEF OnTrack
    <3>3. P(x) \subseteq T
      OBVIOUS
    <3> QED
      BY <3>2, <3>3
  <2> QED
    BY <2>1, <2>2
<1>4. p \in T
  OBVIOUS
<1> HIDE DEF T
<1> QED
  BY <1>2, <1>3, <1>4 DEF Framed, OnTrack

(* Walk: its recursive function exists, and stays within what is framed.   *)
Steps(p, n, f) ==
  f = [i \in 0 .. n |-> IF i = 0 THEN {p} ELSE UNION { Leads(x) : x \in f[i - 1] }]

LEMMA StepsExist ==
  ASSUME NEW p, NEW m \in Nat
  PROVE  \E f : Steps(p, m, f)
<1> DEFINE L(f, i) == IF i = 0 THEN {p} ELSE UNION { Leads(x) : x \in f[i - 1] }
           T == { n \in Nat : \E f : Steps(p, n, f) }
<1>1. 0 \in T
  <2> DEFINE f == [i \in 0 .. 0 |-> {p}]
  <2>1. f = [i \in 0 .. 0 |-> L(f, i)]
    OBVIOUS
  <2>2. Steps(p, 0, f)
    BY <2>1 DEF Steps
  <2> QED
    BY <2>2
<1>2. ASSUME NEW n \in T
      PROVE  n + 1 \in T
  <2>1. PICK f : Steps(p, n, f)
    OBVIOUS
  <2> DEFINE g == [i \in 0 .. n + 1 |-> IF i = n + 1 THEN L(f, i) ELSE f[i]]
  <2>2. \A i \in 0 .. n : f[i] = L(f, i)
    BY <2>1 DEF Steps
  <2>3. \A i \in 0 .. n : i \in 0 .. n + 1 /\ i # n + 1
    OBVIOUS
  <2>4. \A i \in 0 .. n : g[i] = f[i]
    BY <2>3
  <2>5. ASSUME NEW i \in 0 .. n + 1
        PROVE  g[i] = L(f, i)
    <3>1. i = n + 1 \/ i \in 0 .. n
      OBVIOUS
    <3> HIDE DEF L
    <3> QED
      BY <2>2, <3>1
  <2>6. ASSUME NEW i \in 0 .. n + 1
        PROVE  L(g, i) = L(f, i)
    <3>1. i = 0 \/ i - 1 \in 0 .. n
      OBVIOUS
    <3>2. CASE i = 0
      BY <3>2
    <3>3. CASE i - 1 \in 0 .. n
      <4>1. g[i - 1] = f[i - 1]
        BY <2>4, <3>3
      <4> HIDE DEF g
      <4> QED
        BY <4>1
    <3> QED
      BY <3>1, <3>2, <3>3
  <2>7. g = [i \in 0 .. n + 1 |-> L(g, i)]
    <3>1. \A i \in 0 .. n + 1 : g[i] = L(g, i)
      BY <2>5, <2>6
    <3>2. g = [i \in 0 .. n + 1 |-> g[i]]
      OBVIOUS
    <3> HIDE DEF g, L
    <3> QED
      BY <3>1, <3>2
  <2> HIDE DEF g
  <2>8. Steps(p, n + 1, g)
    BY <2>7 DEF Steps
  <2> QED
    BY <2>8
<1> HIDE DEF T
<1>3. T = Nat
  BY <1>1, <1>2, AllNaturals DEF T
<1> QED
  BY <1>3 DEF T

LEMMA WalkOfFramed ==
  ASSUME NEW p, Framed(p), NEW n \in Nat
  PROVE  Astray \notin Walk(p, n)
<1> DEFINE f == CHOOSE g : g = [i \in 0 .. n |->
                  IF i = 0 THEN {p} ELSE UNION { Leads(x) : x \in g[i - 1] }]
<1>1. Walk(p, n) = f[n]
  BY DEF Walk
<1>2. \E g : g = [i \in 0 .. n |-> IF i = 0 THEN {p} ELSE UNION { Leads(x) : x \in g[i - 1] }]
  <2>1. PICK g : Steps(p, n, g)
    BY StepsExist
  <2> QED
    BY <2>1 DEF Steps
<1>3. f = [i \in 0 .. n |-> IF i = 0 THEN {p} ELSE UNION { Leads(x) : x \in f[i - 1] }]
  BY <1>2
<1> HIDE DEF f
<1>4. PICK S : p \in S /\ OnTrack(S)
  BY DEF Framed
<1> DEFINE T == { i \in Nat : i <= n => f[i] \subseteq S }
<1>5. 0 \in T
  BY <1>3, <1>4
<1>6. ASSUME NEW i \in T
      PROVE  i + 1 \in T
  <2> SUFFICES ASSUME i + 1 <= n PROVE f[i + 1] \subseteq S
    OBVIOUS
  <2>1. i \in Nat /\ i <= n /\ i + 1 \in 0 .. n /\ i + 1 # 0 /\ (i + 1) - 1 = i
    OBVIOUS
  <2>2. f[i] \subseteq S
    BY <2>1
  <2>3. f[i + 1] = UNION { Leads(x) : x \in f[i] }
    BY <1>3, <2>1
  <2> QED
    BY <1>4, <2>2, <2>3 DEF OnTrack
<1> HIDE DEF T
<1>7. T = Nat
  BY <1>5, <1>6, AllNaturals DEF T
<1>8. f[n] \subseteq S
  BY <1>7 DEF T
<1> QED
  BY <1>1, <1>4, <1>8 DEF OnTrack

-----------------------------------------------------------------------------
(* Where the deserializer's carets stand, BSON says that things end.       *)

LEMMA NulEnds ==
  ASSUME NEW c, Within(c), NulOffset(c) < Left(c)
  PROVE  AfterNul(c.data, c.pos) = c.pos + NulOffset(c) + 1
<1> DEFINE n == NulOffset(c)
           d == c.data
           i == c.pos
           hits == { j \in i + 1 .. Len(d) : d[j] = 0 }
           z == i + n + 1
<1>1. n \in Nat /\ n < Len(d) - i /\ d[z] = 0 /\ \A j \in 1 .. n : d[i + j] # 0
  BY NulOffsetIs, WithinSound, SoundParts
<1>2. i \in Nat /\ Len(d) \in Nat
  BY WithinSound, SoundParts
<1>3. AfterNul(d, i) = IF hits = {} THEN 0 ELSE CHOOSE j \in hits : \A k \in hits : j <= k
  BY DEF AfterNul
<1> HIDE DEF n, d, i
<1>4. z \in hits
  BY <1>1, <1>2
<1>5. ASSUME NEW k \in hits
      PROVE  z <= k
  <2>1. k \in i + 1 .. Len(d) /\ d[k] = 0
    OBVIOUS
  <2>2. k - i \in 1 .. n => d[i + (k - i)] # 0
    BY <1>1
  <2>3. i + (k - i) = k
    BY <1>2, <2>1
  <2>4. k - i \notin 1 .. n
    BY <2>1, <2>2, <2>3
  <2> QED
    BY <1>1, <1>2, <2>1, <2>4
<1>6. hits \subseteq Int
  BY <1>2
<1> HIDE DEF hits
<1>7. \A j \in hits : (\A k \in hits : j <= k) => j = z
  <2>1. z \in Int
    BY <1>1, <1>2
  <2> HIDE DEF z
  <2> QED
    BY <1>4, <1>5, <1>6, <2>1
<1>8. (CHOOSE j \in hits : \A k \in hits : j <= k) = z
  <2> HIDE DEF z
  <2> QED
    BY <1>4, <1>5, <1>7
<1> QED
  BY <1>3, <1>4, <1>8 DEF n, d, i

LEMMA KeyEnds ==
  ASSUME NEW c, Within(c), ~c.error, Left(c) > 1, ~ReadKey(c).caret.error
  PROVE  /\ ReadKey(c).caret.pos = AfterNul(c.data, c.pos + 1)
         /\ ReadKey(c).caret.pos >= c.pos + 2
         /\ ReadKey(c).code = c.data[c.pos + 1]
         /\ ReadKey(c).key = SubSeq(c.data, c.pos + 2, ReadKey(c).caret.pos - 1)
         /\ ReadKey(c).caret.data = c.data
<1> DEFINE start == Inc(c, 1)
           n     == NulOffset(start)
           end   == Inc(start, n)
           r     == ReadKey(c)
<1>1. r = [ code  |-> CurrByte(c), key |-> CurrBytes(start, n),
            caret |-> IF CanContinue(end) THEN Inc(end, 1) ELSE SetError(end) ]
  BY DEF ReadKey
<1>2. c.pos \in Nat
  BY WithinSound
<1>3. Within(start) /\ start.data = c.data /\ ~start.error /\ start.pos = c.pos + 1
  BY IncType, WithinSound
<1>4. CurrBytes(start, n) = SubSeq(start.data, start.pos + 1, start.pos + n)
  BY DEF CurrBytes
<1>5. n < Left(start) => AfterNul(start.data, start.pos) = start.pos + n + 1
  <2> HIDE DEF start
  <2> QED
    BY <1>3, NulEnds DEF n
<1> HIDE DEF start
<1>6. n \in Nat /\ n <= Left(start)
  BY <1>3, NulOffsetType
<1> HIDE DEF n
<1>7. Within(end) /\ end.data = c.data /\ ~end.error /\ end.pos = start.pos + n
      /\ Left(end) = Left(start) - n
  BY <1>3, <1>6, IncType
<1> HIDE DEF end
<1>8. CanContinue(end)
  <2> SUFFICES ASSUME ~CanContinue(end) PROVE FALSE
    OBVIOUS
  <2>1. r.caret = SetError(end)
    BY <1>1
  <2>2. end \in CaretState
    BY <1>7, WithinSound
  <2> QED
    BY <2>1, <2>2, SetErrorFrom
<1>9. Left(end) >= 1
  BY <1>7, <1>8, WithinSound, SoundParts DEF CanContinue
<1>10. r.caret = Inc(end, 1)
  BY <1>1, <1>8
<1>11. r.caret.pos = end.pos + 1 /\ r.caret.data = c.data
  BY <1>7, <1>9, <1>10, IncType
<1>12. r.caret.pos = c.pos + 1 + n + 1
  BY <1>3, <1>7, <1>11
<1>13. n < Left(start)
  BY <1>3, <1>6, <1>7, <1>9, WithinSound
<1>14. AfterNul(c.data, c.pos + 1) = c.pos + 1 + n + 1
  BY <1>3, <1>5, <1>13
<1>15. /\ start.pos + 1 = c.pos + 2 /\ start.pos + n = r.caret.pos - 1
       /\ r.caret.pos >= c.pos + 2
  BY <1>2, <1>3, <1>6, <1>12
<1>16. r.key = SubSeq(c.data, c.pos + 2, r.caret.pos - 1)
  <2>1. r.key = CurrBytes(start, n)
    BY <1>1
  <2> HIDE DEF r
  <2> QED
    BY <1>3, <1>4, <1>15, <2>1
<1>17. r.code = c.data[c.pos + 1]
  BY <1>1 DEF CurrByte
<1> HIDE DEF r
<1> QED
  BY <1>11, <1>12, <1>14, <1>15, <1>16, <1>17 DEF r

(* The size field where a caret stands. *)
LEMMA SizeIs ==
  ASSUME NEW c, Within(c), ~c.error
  PROVE  SizeAt(c.data, c.pos) = ReadInt32(c).value
<1>1. c \in CaretState
  BY WithinSound
<1> DEFINE k == Caret(c.data)
           e == Inc(k, c.pos)
<1>2. c.pos \in Int /\ c.error = FALSE /\ c.data \in Seq(BsonByte)
  BY <1>1 DEF CaretState
<1>3. k \in CaretState /\ k.data = c.data /\ k.pos = 0 /\ k.error = FALSE
  BY <1>2 DEF Caret, CaretState
<1> HIDE DEF k
<1>4. e \in CaretState /\ e.data = c.data /\ e.pos = c.pos /\ e.error = c.error
  <2>1. e \in CaretState /\ e.data = k.data /\ e.pos = k.pos + c.pos /\ e.error = k.error
    BY <1>2, <1>3, IncState
  <2> HIDE DEF e
  <2>2. e.pos = c.pos
    <3>1. \A x \in Int : 0 + x = x
      OBVIOUS
    <3> QED
      BY <1>2, <1>3, <2>1, <3>1
  <2>3. e.error = c.error
    BY <1>2, <1>3, <2>1, Zenon
  <2> QED
    BY <1>3, <2>1, <2>2, <2>3, Zenon
<1>5. SizeAt(c.data, c.pos) = ReadInt32(e).value
  BY DEF SizeAt, k
<1> HIDE DEF e
<1>6. e = c
  BY <1>1, <1>4 DEF CaretState
<1> QED
  BY <1>5, <1>6

LEMMA CodesDiffer ==
  /\ \A code \in {NULL_VALUE, UNDEFINED, MIN_KEY, MAX_KEY} :
       code \notin Sized \cup {DECIMAL_128, REGEXP} \cup {ScalarCode[c] : c \in ScalarClass}
  /\ \A code \in Sized : /\ code # DECIMAL_128 /\ code # REGEXP
                          /\ code \notin {ScalarCode[c] : c \in ScalarClass \ {"String"}}
                          /\ code \notin {NULL_VALUE, UNDEFINED, MIN_KEY, MAX_KEY}
  /\ DECIMAL_128 # REGEXP
  /\ \A c \in ScalarClass : /\ ScalarCode[c] \notin {DECIMAL_128, REGEXP}
                            /\ c # "String" => ScalarCode[c] \notin Sized
<1>1. \A c \in ScalarClass : ScalarCode[c] \in {DOUBLE, OBJECT_ID, BOOLEAN_CODE, DATE_TIME,
                                                INT_32, TIMESTAMP, INT_64, STRING_CODE}
  BY DEF ScalarClass, ScalarCode
<1>2. \A c \in ScalarClass : c # "String" =>
        ScalarCode[c] \in {DOUBLE, OBJECT_ID, BOOLEAN_CODE, DATE_TIME,
                           INT_32, TIMESTAMP, INT_64}
  BY DEF ScalarClass, ScalarCode
<1>3. \A code \in {DOUBLE, OBJECT_ID, BOOLEAN_CODE, DATE_TIME, INT_32, TIMESTAMP, INT_64} :
        code \notin Sized
  BY DEF Sized, DOUBLE, OBJECT_ID, BOOLEAN_CODE, DATE_TIME, INT_32, TIMESTAMP, INT_64,
         STRING_CODE, JAVASCRIPT_CODE, SYMBOL, DOCUMENT_EMBEDDED, DOCUMENT_ARRAY,
         JAVASCRIPT_CODE_WS, BINARY, BD_POINTER
<1>4. \A code \in {DOUBLE, OBJECT_ID, BOOLEAN_CODE, DATE_TIME, INT_32, TIMESTAMP, INT_64,
                   STRING_CODE} :
        code \notin {DECIMAL_128, REGEXP, NULL_VALUE, UNDEFINED, MIN_KEY, MAX_KEY}
  BY DEF DOUBLE, OBJECT_ID, BOOLEAN_CODE, DATE_TIME, INT_32, TIMESTAMP, INT_64,
         STRING_CODE, DECIMAL_128, REGEXP, NULL_VALUE, UNDEFINED, MIN_KEY, MAX_KEY
<1>5. \A code \in Sized : code \notin {DECIMAL_128, REGEXP, NULL_VALUE, UNDEFINED, MIN_KEY, MAX_KEY}
  BY DEF Sized, STRING_CODE, JAVASCRIPT_CODE, SYMBOL, DOCUMENT_EMBEDDED, DOCUMENT_ARRAY,
         JAVASCRIPT_CODE_WS, BINARY, BD_POINTER, DECIMAL_128, REGEXP, NULL_VALUE, UNDEFINED,
         MIN_KEY, MAX_KEY
<1>6. DECIMAL_128 # REGEXP /\ {DECIMAL_128, REGEXP} \cap {NULL_VALUE, UNDEFINED, MIN_KEY, MAX_KEY} = {}
  BY DEF DECIMAL_128, REGEXP, NULL_VALUE, UNDEFINED, MIN_KEY, MAX_KEY
<1>7. ASSUME NEW code \in {NULL_VALUE, UNDEFINED, MIN_KEY, MAX_KEY}
      PROVE  code \notin Sized \cup {DECIMAL_128, REGEXP} \cup {ScalarCode[c] : c \in ScalarClass}
  BY <1>1, <1>4, <1>5, <1>6, Zenon
<1>8. \A code \in Sized : code \notin {ScalarCode[c] : c \in ScalarClass \ {"String"}}
  BY <1>2, <1>3
<1> QED
  BY <1>1, <1>2, <1>3, <1>4, <1>5, <1>6, <1>7, <1>8

LEMMA SizedIs ==
  ASSUME NEW code \in Sized
  PROVE  \/ /\ code \in {STRING_CODE, JAVASCRIPT_CODE, SYMBOL}
            /\ code \notin {DOCUMENT_EMBEDDED, DOCUMENT_ARRAY, JAVASCRIPT_CODE_WS}
            /\ code # BINARY /\ code # BD_POINTER /\ AdditionalBytes(code) = 0
         \/ /\ code \in {DOCUMENT_EMBEDDED, DOCUMENT_ARRAY, JAVASCRIPT_CODE_WS}
            /\ code \notin {STRING_CODE, JAVASCRIPT_CODE, SYMBOL}
            /\ code # BINARY /\ code # BD_POINTER /\ AdditionalBytes(code) = -4
         \/ /\ code = BINARY /\ code \notin {STRING_CODE, JAVASCRIPT_CODE, SYMBOL}
            /\ code \notin {DOCUMENT_EMBEDDED, DOCUMENT_ARRAY, JAVASCRIPT_CODE_WS}
            /\ code # BD_POINTER /\ AdditionalBytes(code) = 1
         \/ /\ code = BD_POINTER /\ code \notin {STRING_CODE, JAVASCRIPT_CODE, SYMBOL}
            /\ code \notin {DOCUMENT_EMBEDDED, DOCUMENT_ARRAY, JAVASCRIPT_CODE_WS}
            /\ code # BINARY /\ AdditionalBytes(code) = 12
BY SMTT(60) DEF Sized, AdditionalBytes, STRING_CODE, JAVASCRIPT_CODE, SYMBOL, DOCUMENT_EMBEDDED,
   DOCUMENT_ARRAY, JAVASCRIPT_CODE_WS, BINARY, BD_POINTER

LEMMA EndOfEmpty ==
  ASSUME NEW b, NEW i, NEW code \in {NULL_VALUE, UNDEFINED, MIN_KEY, MAX_KEY}
  PROVE  EndOf(b, i, code) = i
<1>1. code \notin Sized \cup {DECIMAL_128, REGEXP} \cup {ScalarCode[c] : c \in ScalarClass}
  BY CodesDiffer
<1> QED
  BY <1>1 DEF EndOf, Sized

LEMMA EndOfSized ==
  ASSUME NEW b, NEW i \in Int, SizeAt(b, i) \in Int, NEW code \in Sized
  PROVE  EndOf(b, i, code) = IF SizeAt(b, i) + AdditionalBytes(code) < 0 THEN 0
                             ELSE i + 4 + SizeAt(b, i) + AdditionalBytes(code)
<1> DEFINE E(more) == IF SizeAt(b, i) + more < 0 THEN 0 ELSE i + 4 + SizeAt(b, i) + more
<1>1. /\ code \notin {NULL_VALUE, UNDEFINED, MIN_KEY, MAX_KEY, DECIMAL_128, REGEXP}
      /\ code \notin {ScalarCode[c] : c \in ScalarClass \ {"String"}}
  BY CodesDiffer
<1>2. \/ EndOf(b, i, code) = E(0) /\ AdditionalBytes(code) = 0
      \/ EndOf(b, i, code) = E(-4) /\ AdditionalBytes(code) = -4
      \/ EndOf(b, i, code) = E(1) /\ AdditionalBytes(code) = 1
      \/ EndOf(b, i, code) = E(12) /\ AdditionalBytes(code) = 12
  <2> HIDE DEF E
  <2>1. EndOf(b, i, code) =
          CASE code \in {NULL_VALUE, UNDEFINED, MIN_KEY, MAX_KEY} -> i
            [] code \in {STRING_CODE, JAVASCRIPT_CODE, SYMBOL}    -> E(0)
            [] code \in {DOCUMENT_EMBEDDED, DOCUMENT_ARRAY,
                         JAVASCRIPT_CODE_WS}                      -> E(-4)
            [] code = BINARY                                      -> E(1)
            [] code = BD_POINTER                                  -> E(12)
            [] code = DECIMAL_128                                 -> i + 16
            [] code = REGEXP ->
                 (IF AfterNul(b, i) = 0 THEN 0 ELSE AfterNul(b, AfterNul(b, i)))
            [] code \in {ScalarCode[c] : c \in ScalarClass \ {"String"}} ->
                 i + ScalarWidth(code)
            [] OTHER                                              -> 0
    BY DEF EndOf, E
  <2> HIDE DEF E
  <2> QED
    BY <1>1, <2>1, SizedIs
<1> QED
  BY <1>2

LEMMA EndOfScalar ==
  ASSUME NEW b, NEW i, NEW class \in ScalarClass, class # "String"
  PROVE  EndOf(b, i, ScalarCode[class]) = i + ScalarWidth(ScalarCode[class])
<1> DEFINE code == ScalarCode[class]
<1>1. /\ code \in {ScalarCode[k] : k \in ScalarClass \ {"String"}}
      /\ code \notin Sized \cup {DECIMAL_128, REGEXP} \cup {NULL_VALUE, UNDEFINED, MIN_KEY, MAX_KEY}
  BY CodesDiffer
<1> HIDE DEF code
<1>2. EndOf(b, i, code) = i + ScalarWidth(code)
  BY <1>1 DEF EndOf, Sized
<1> QED
  BY <1>2 DEF code

LEMMA EndOfDecimal ==
  ASSUME NEW b, NEW i
  PROVE  EndOf(b, i, DECIMAL_128) = i + 16
<1>1. DECIMAL_128 \notin Sized \cup {NULL_VALUE, UNDEFINED, MIN_KEY, MAX_KEY, REGEXP}
              \cup {ScalarCode[k] : k \in ScalarClass}
  BY CodesDiffer, Zenon
<1> QED
  BY <1>1 DEF EndOf, Sized

LEMMA EndOfRegexp ==
  ASSUME NEW b, NEW i
  PROVE  EndOf(b, i, REGEXP) =
           IF AfterNul(b, i) = 0 THEN 0 ELSE AfterNul(b, AfterNul(b, i))
<1>1. REGEXP \notin Sized \cup {NULL_VALUE, UNDEFINED, MIN_KEY, MAX_KEY, DECIMAL_128}
              \cup {ScalarCode[k] : k \in ScalarClass}
  BY CodesDiffer, Zenon
<1> QED
  BY <1>1 DEF EndOf, Sized

LEMMA CStringEnds ==
  ASSUME NEW c, Within(c), ~c.error, NEW e, e = SkipCString(c), ~e.error
  PROVE  /\ e.pos = AfterNul(c.data, c.pos) /\ e.pos >= 1 /\ e.data = c.data /\ Within(e)
<1> DEFINE n == NulOffset(c)
           found == Inc(c, n)
<1>1. n \in Nat /\ n <= Left(c) /\ c.pos \in Nat /\ Left(c) \in Nat
  BY NulOffsetType, WithinSound
<1>2. n < Left(c) => AfterNul(c.data, c.pos) = c.pos + n + 1
  BY NulEnds
<1>3. e = IF AtChar(found, 0) THEN Inc(found, 1) ELSE SetError(found)
  BY DEF SkipCString
<1> HIDE DEF n
<1>4. /\ Within(found) /\ found.data = c.data /\ found.pos = c.pos + n
      /\ Left(found) = Left(c) - n
  BY <1>1, IncType
<1> HIDE DEF found
<1>5. AtChar(found, 0)
  <2> SUFFICES ASSUME ~AtChar(found, 0) PROVE FALSE
    OBVIOUS
  <2>1. e = SetError(found) /\ found \in CaretState
    BY <1>3, <1>4, WithinSound
  <2> QED
    BY <2>1, SetErrorFrom
<1>6. Left(found) >= 1
  BY <1>4, <1>5, AtCharLeft
<1>7. Within(e) /\ e.pos = found.pos + 1 /\ e.data = found.data
  BY <1>3, <1>4, <1>5, <1>6, IncType
<1>8. n < Left(c)
  BY <1>1, <1>4, <1>6
<1>9. e.pos = c.pos + n + 1 /\ e.pos >= 1
  BY <1>1, <1>4, <1>7
<1> QED
  BY <1>2, <1>4, <1>7, <1>8, <1>9

LEMMA SizedEnds ==
  ASSUME NEW c, Within(c), ~c.error, NEW more \in Int,
         NEW e, e = SkipSizedElement(c, more), ~e.error
  PROVE  /\ SizeAt(c.data, c.pos) \in Int /\ SizeAt(c.data, c.pos) + more >= 0
         /\ e.pos = c.pos + 4 + SizeAt(c.data, c.pos) + more
         /\ c.pos \in Nat
<1> DEFINE size == ReadInt32(c)
           n    == size.value + more
           bad  == n > Left(size.caret) \/ n < 0
           d    == IF bad THEN SetError(size.caret) ELSE size.caret
<1>1. /\ size.value \in Int /\ Within(size.caret)
      /\ Left(c) < 4 => size.caret = SetError(c)
      /\ Left(c) >= 4 => size.caret = Inc(c, 4)
  BY Int32From
<1>2. c.pos \in Nat /\ c \in CaretState /\ Left(c) \in Nat
  BY WithinSound
<1>3. e = Inc(d, n)
  BY DEF SkipSizedElement
<1>4. SizeAt(c.data, c.pos) = size.value
  BY SizeIs
<1> HIDE DEF size
<1>5. n \in Int /\ size.caret \in CaretState
  BY <1>1, WithinSound
<1>6. d \in CaretState
  <2> HIDE DEF bad
  <2> QED
    BY <1>5, SetErrorFrom
<1>7. e.error = d.error /\ e.pos = d.pos + n
  <2> HIDE DEF d, n
  <2> QED
    BY <1>3, <1>5, <1>6, IncState
<1>8. ~bad
  <2> SUFFICES ASSUME bad PROVE FALSE
    OBVIOUS
  <2>1. d = SetError(size.caret)
    OBVIOUS
  <2> HIDE DEF d, bad
  <2> QED
    BY <1>5, <1>7, <2>1, SetErrorFrom
<1>9. d = size.caret
  BY <1>8
<1>10. Left(c) >= 4
  <2> SUFFICES ASSUME ~(Left(c) >= 4) PROVE FALSE
    OBVIOUS
  <2>1. size.caret = SetError(c)
    BY <1>1, <1>2
  <2> HIDE DEF d
  <2> QED
    BY <1>2, <1>7, <1>9, <2>1, SetErrorFrom
<1>11. size.caret.pos = c.pos + 4
  <2>1. size.caret = Inc(c, 4)
    BY <1>1, <1>10
  <2>2. 4 \in Int /\ Inc(c, 4).pos = c.pos + 4
    BY <1>2, IncState
  <2> QED
    BY <2>1, <2>2
<1>12. n >= 0 /\ e.pos = c.pos + 4 + size.value + more
  <2>1. ~(n < 0)
    BY <1>8
  <2>2. e.pos = c.pos + 4 + n
    BY <1>7, <1>9, <1>11
  <2> QED
    BY <1>1, <1>2, <1>5, <2>1, <2>2
<1> QED
  BY <1>1, <1>2, <1>4, <1>12

(* What skipElement skips without an error is what BSON says is there.     *)
LEMMA WidthsAgree ==
  ASSUME NEW b, NEW i, NEW code, FixedWidth(code) >= 0, i \in Nat
  PROVE  EndOf(b, i, code) = i + FixedWidth(code)
<1>1. CASE code \in {UNDEFINED, NULL_VALUE, MIN_KEY, MAX_KEY}
  <2>1. FixedWidth(code) = 0
    BY <1>1 DEF FixedWidth, BOOLEAN_CODE, INT_32, DOUBLE, DATE_TIME, TIMESTAMP,
                INT_64, OBJECT_ID, UNDEFINED, NULL_VALUE, MIN_KEY, MAX_KEY, DECIMAL_128
  <2> QED
    BY <1>1, <2>1, EndOfEmpty
<1>2. CASE code \in {BOOLEAN_CODE, INT_32, DOUBLE, DATE_TIME, TIMESTAMP, INT_64, OBJECT_ID}
  <2>1. \E class \in ScalarClass : class # "String" /\ code = ScalarCode[class]
    BY <1>2 DEF ScalarClass, ScalarCode
  <2>2. EndOf(b, i, code) = i + ScalarWidth(code)
    BY <2>1, EndOfScalar
  <2>3. ScalarWidth(code) = FixedWidth(code)
    BY <1>2, SMTT(30) DEF ScalarWidth, FixedWidth, BOOLEAN_CODE, INT_32, DOUBLE, DATE_TIME, TIMESTAMP,
                INT_64, OBJECT_ID, UNDEFINED, NULL_VALUE, MIN_KEY, MAX_KEY, DECIMAL_128
  <2> QED
    BY <2>2, <2>3
<1>3. CASE code = DECIMAL_128
  <2>1. FixedWidth(code) = 16
    BY <1>3 DEF FixedWidth, BOOLEAN_CODE, INT_32, DOUBLE, DATE_TIME, TIMESTAMP,
                INT_64, OBJECT_ID, UNDEFINED, NULL_VALUE, MIN_KEY, MAX_KEY, DECIMAL_128
  <2> QED
    BY <1>3, <2>1, EndOfDecimal
<1>4. CASE code \notin {UNDEFINED, NULL_VALUE, MIN_KEY, MAX_KEY, BOOLEAN_CODE, INT_32, DOUBLE,
                        DATE_TIME, TIMESTAMP, INT_64, OBJECT_ID, DECIMAL_128}
  <2>1. FixedWidth(code) = -1
    BY <1>4 DEF FixedWidth
  <2> QED
    BY <2>1
<1> QED
  BY <1>1, <1>2, <1>3, <1>4

LEMMA SkipEnds ==
  ASSUME NEW c, Within(c), ~c.error, c.pos >= 1, NEW code \in BsonByte,
         NEW e, e = SkipElement(c, code), ~e.error
  PROVE  e.pos = EndOf(c.data, c.pos, code) /\ e.pos >= 1
<1>1. c \in CaretState /\ c.pos \in Nat
  BY WithinSound
<1>2. \/ FixedWidth(code) >= 0 /\ e = Inc(c, FixedWidth(code))
      \/ code \in Sized /\ e = SkipSizedElement(c, AdditionalBytes(code))
      \/ code = REGEXP /\ e = SkipCString(SkipCString(c))
      \/ e = SetError(c)
  BY DEF SkipElement
<1>3. CASE FixedWidth(code) >= 0 /\ e = Inc(c, FixedWidth(code))
  <2>1. FixedWidth(code) \in Int
    BY DEF FixedWidth
  <2>2. e.pos = c.pos + FixedWidth(code)
    BY <1>1, <1>3, <2>1, IncState
  <2>3. EndOf(c.data, c.pos, code) = c.pos + FixedWidth(code)
    BY <1>1, <1>3, WidthsAgree
  <2>4. c.pos + FixedWidth(code) >= 1
    BY <1>1, <1>3, <2>1
  <2> QED
    BY <2>2, <2>3, <2>4
<1>4. CASE code \in Sized /\ e = SkipSizedElement(c, AdditionalBytes(code))
  <2> DEFINE more == AdditionalBytes(code)
             size == SizeAt(c.data, c.pos)
  <2>1. more \in Int
    BY DEF AdditionalBytes
  <2>2. size \in Int /\ size + more >= 0 /\ e.pos = c.pos + 4 + size + more
    BY <1>4, <2>1, SizedEnds
  <2>3. EndOf(c.data, c.pos, code) = IF size + more < 0 THEN 0 ELSE c.pos + 4 + size + more
    BY <1>1, <1>4, <2>2, EndOfSized
  <2> HIDE DEF more, size
  <2>4. ~(size + more < 0) /\ c.pos + 4 + size + more >= 1
    BY <1>1, <2>1, <2>2
  <2> QED
    BY <2>2, <2>3, <2>4
<1>5. CASE code = REGEXP /\ e = SkipCString(SkipCString(c))
  <2> DEFINE d == SkipCString(c)
  <2>1. Within(d)
    BY SkipCStringFrom
  <2>2. d.pos = AfterNul(c.data, c.pos) /\ d.pos >= 1 /\ d.data = c.data /\ ~d.error
    <3>1. d.error => e.error
      <4> SUFFICES ASSUME d.error PROVE e.error
        OBVIOUS
      <4> DEFINE found == Inc(d, NulOffset(d))
      <4>1. NulOffset(d) \in Nat /\ NulOffset(d) <= Left(d)
        BY <2>1, NulOffsetType
      <4>2. Within(found) /\ found.error = d.error
        BY <2>1, <4>1, IncType
      <4>3. e = IF AtChar(found, 0) THEN Inc(found, 1) ELSE SetError(found)
        BY <1>5 DEF SkipCString
      <4> HIDE DEF found, d
      <4>4. ~AtChar(found, 0)
        BY <4>2, AtCharLeft
      <4> QED
        BY <4>2, <4>3, <4>4, SetErrorType
    <3> QED
      BY <3>1, CStringEnds
  <2>3. e = SkipCString(d)
    BY <1>5
  <2> HIDE DEF d
  <2>4. e.pos = AfterNul(d.data, d.pos) /\ e.pos >= 1
    BY <2>1, <2>2, <2>3, CStringEnds
  <2>5. AfterNul(c.data, c.pos) # 0
    BY <2>2
  <2> QED
    BY <1>5, <2>2, <2>4, <2>5, EndOfRegexp
<1>6. CASE e = SetError(c)
  BY <1>1, <1>6, SetErrorFrom
<1> QED
  BY <1>2, <1>3, <1>4, <1>5, <1>6

LEMMA FixedEnds ==
  ASSUME NEW c, Within(c), ~c.error, NEW class \in ScalarClass, class # "String",
         NEW r, r = ReadFixed(class, c), ~r.caret.error
  PROVE  /\ r.caret.pos = EndOf(c.data, c.pos, ScalarCode[class])
         /\ r.caret.pos >= 1 /\ r.caret.pos <= Len(c.data)
<1> DEFINE n == ScalarWidth(ScalarCode[class])
           b == CurrBytes(c, n)
           v == Value(class, b, <<>>)
<1>1. n \in Nat /\ n >= 1
  BY DEF ScalarWidth
<1>2. c \in CaretState /\ c.pos \in Nat /\ Left(c) \in Nat /\ Left(c) = Len(c.data) - c.pos
  BY WithinSound, SoundParts
<1>3. \/ r = ReadError(c)
      \/ r = ReadError(Inc(c, n))
      \/ Left(c) >= n /\ r = Read(v, Inc(c, n))
  <2>1. \/ r = ReadError(c)
        \/ r = ReadError(Inc(c, n))
        \/ ~(Left(c) < n) /\ r = Read(v, Inc(c, n))
    BY Zenon DEF ReadFixed
  <2> HIDE DEF n, v
  <2> QED
    BY <1>1, <1>2, <2>1
<1>4. EndOf(c.data, c.pos, ScalarCode[class]) = c.pos + n
  BY EndOfScalar
<1> HIDE DEF n, v
<1>5. Inc(c, n) \in CaretState /\ Inc(c, n).pos = c.pos + n
  <2>1. n \in Int
    BY <1>1
  <2> QED
    BY <1>2, <2>1, IncState
<1>6. Left(c) >= n /\ r.caret = Inc(c, n)
  <2>1. Read(v, Inc(c, n)).caret = Inc(c, n)
    BY DEF Read
  <2>2. ReadError(c).caret = SetError(c) /\ ReadError(Inc(c, n)).caret = SetError(Inc(c, n))
    BY DEF ReadError, Read
  <2>3. SetError(c).error /\ SetError(Inc(c, n)).error
    BY <1>2, <1>5, SetErrorFrom
  <2> QED
    BY <1>3, <2>1, <2>2, <2>3
<1> QED
  BY <1>1, <1>2, <1>4, <1>5, <1>6

(* Four bytes are left if the size can be read. *)
LEMMA SizeRead ==
  ASSUME NEW c, Within(c), ~c.error, NEW size, size = ReadInt32(c),
         size.value > 0 \/ ~size.caret.error
  PROVE  /\ size.value \in Int /\ size.value = SizeAt(c.data, c.pos)
         /\ size.caret = Inc(c, 4) /\ Within(size.caret) /\ size.caret.pos = c.pos + 4
         /\ size.caret.data = c.data /\ ~size.caret.error
         /\ c.pos \in Nat /\ Len(c.data) \in Nat /\ Left(size.caret) = Len(c.data) - (c.pos + 4)
<1>1. /\ size.value \in Int /\ Within(size.caret)
      /\ Left(c) < 4 => size.value = 0 /\ size.caret = SetError(c)
      /\ Left(c) >= 4 => size.caret = Inc(c, 4)
  BY Int32From
<1>2. c \in CaretState /\ c.pos \in Nat /\ Left(c) \in Nat
  BY WithinSound
<1>3. Left(c) >= 4
  <2>1. SetError(c).error
    BY <1>2, SetErrorFrom
  <2>2. ~(Left(c) < 4)
    BY <1>1, <2>1
  <2> QED
    BY <1>2, <2>2
<1>4. size.caret = Inc(c, 4) /\ 4 \in Nat
  BY <1>1, <1>3
<1>5. /\ Inc(c, 4).pos = c.pos + 4 /\ Inc(c, 4).data = c.data /\ Inc(c, 4).error = c.error
  BY <1>3, <1>4, IncType
<1>6. Left(size.caret) = Len(size.caret.data) - size.caret.pos /\ Len(size.caret.data) \in Nat
  BY <1>1, WithinSound, SoundParts
<1> QED
  BY <1>1, <1>2, <1>4, <1>5, <1>6, SizeIs

LEMMA StringEnds ==
  ASSUME NEW c, Within(c), ~c.error, NEW r, r = ReadString(c), ~r.caret.error
  PROVE  /\ r.caret.pos = EndOf(c.data, c.pos, STRING_CODE)
         /\ r.caret.pos >= 1 /\ r.caret.pos <= Len(c.data)
<1> DEFINE size == ReadInt32(c)
           v == Value("String", CurrBytes(size.caret, size.value - 1), <<>>)
<1>1. /\ size.value \in Int /\ Within(size.caret) /\ Left(size.caret) \in Nat
      /\ size.caret \in CaretState
  BY Int32From, WithinSound
<1>2. r = IF size.value > Left(size.caret) \/ size.value < 1
          THEN ReadError(size.caret) ELSE Read(v, Inc(size.caret, size.value))
  BY DEF ReadString
<1>3. size.value > 0 => /\ size.value = SizeAt(c.data, c.pos) /\ size.caret.pos = c.pos + 4
                        /\ c.pos \in Nat /\ Len(c.data) \in Nat
                        /\ Left(size.caret) = Len(c.data) - (c.pos + 4)
  BY SizeRead
<1> HIDE DEF size, v
<1>4. ~(size.value > Left(size.caret) \/ size.value < 1)
  <2> SUFFICES ASSUME size.value > Left(size.caret) \/ size.value < 1 PROVE FALSE
    OBVIOUS
  <2>1. r.caret = SetError(size.caret)
    BY <1>2 DEF ReadError, Read
  <2> QED
    BY <1>1, <2>1, SetErrorFrom
<1>5. r.caret = Inc(size.caret, size.value)
  BY <1>2, <1>4 DEF Read
<1>6. r.caret.pos = size.caret.pos + size.value
  BY <1>1, <1>5, IncState
<1>7. STRING_CODE \in Sized /\ AdditionalBytes(STRING_CODE) = 0
  BY DEF Sized, AdditionalBytes, STRING_CODE, DOCUMENT_EMBEDDED, DOCUMENT_ARRAY,
         JAVASCRIPT_CODE_WS, BINARY, BD_POINTER
<1>8. /\ size.value > 0 /\ size.value <= Left(size.caret)
  BY <1>1, <1>4
<1> DEFINE z == SizeAt(c.data, c.pos)
<1>9. z \in Int /\ c.pos \in Int /\ z > 0 /\ r.caret.pos = c.pos + 4 + z
      /\ c.pos + 4 + z <= Len(c.data) /\ c.pos + 4 + z >= 1
  BY <1>1, <1>3, <1>6, <1>8
<1>10. EndOf(c.data, c.pos, STRING_CODE) = IF z + 0 < 0 THEN 0 ELSE c.pos + 4 + z + 0
  BY <1>7, <1>9, EndOfSized
<1> HIDE DEF z
<1> QED
  BY <1>9, <1>10

LEMMA ScalarEnds ==
  ASSUME NEW c, Within(c), ~c.error, NEW class \in ScalarClass, NEW code,
         NEW r, r = ReadScalar(class, c, code), ~r.caret.error
  PROVE  \/ code = NULL_VALUE /\ r.caret.pos = c.pos
         \/ /\ code # NULL_VALUE /\ code = ScalarCode[class]
            /\ r.caret.pos = PayloadEnd(c.data, c.pos, code) /\ r.caret.pos # 0
<1>1. c \in CaretState
  BY WithinSound
<1>2. \/ code = NULL_VALUE /\ r = Read(NullOf(class), c)
      \/ r = ReadError(c)
      \/ code # NULL_VALUE /\ code = ScalarCode[class] /\ class = "String" /\ r = ReadString(c)
      \/ code # NULL_VALUE /\ code = ScalarCode[class] /\ class # "String" /\ r = ReadFixed(class, c)
  <2>1. ScalarCode[class] # NULL_VALUE
    BY CodesDiffer
  <2> QED
    BY <2>1 DEF ReadScalar
<1>3. CASE code = NULL_VALUE /\ r = Read(NullOf(class), c)
  BY <1>3 DEF Read
<1>4. CASE r = ReadError(c)
  <2>1. r.caret = SetError(c)
    BY <1>4 DEF ReadError, Read
  <2> QED
    BY <1>1, <2>1, SetErrorFrom
<1>5. ASSUME code # NULL_VALUE, code = ScalarCode[class],
             r.caret.pos = EndOf(c.data, c.pos, code), r.caret.pos >= 1,
             r.caret.pos <= Len(c.data)
      PROVE  r.caret.pos = PayloadEnd(c.data, c.pos, code) /\ r.caret.pos # 0
  <2>1. PayloadEnd(c.data, c.pos, code) = Fitting(c.data, r.caret.pos)
    BY <1>5, EndFits
  <2>2. r.caret.pos \in Int /\ Len(c.data) \in Nat
    <3>1. Within(c) /\ From(c, r.caret)
      BY ReadScalarFrom
    <3> QED
      BY <3>1, SoundParts, WithinSound DEF From
  <2> QED
    BY <1>5, <2>1, <2>2 DEF Fitting
<1>6. CASE /\ code # NULL_VALUE /\ code = ScalarCode[class] /\ class = "String"
           /\ r = ReadString(c)
  <2>1. code = STRING_CODE
    BY <1>6 DEF ScalarCode
  <2> QED
    BY <1>5, <1>6, <2>1, StringEnds
<1>7. CASE /\ code # NULL_VALUE /\ code = ScalarCode[class] /\ class # "String"
           /\ r = ReadFixed(class, c)
  BY <1>5, <1>7, FixedEnds
<1> QED
  BY <1>2, <1>3, <1>4, <1>6, <1>7

(* What follows a size field of n + 4. *)
LEMMA DocumentEnds ==
  ASSUME NEW c, Within(c), ~c.error, NEW size, size = ReadInt32(c),
         NEW n \in Int, n = size.value - 4, n >= 0, n <= Left(size.caret),
         NEW code \in {DOCUMENT_EMBEDDED, DOCUMENT_ARRAY}
  PROVE  /\ PayloadEnd(c.data, c.pos, code) = c.pos + 4 + n
         /\ c.pos + 4 + n # 0 /\ c.pos \in Nat /\ size.caret.pos = c.pos + 4
         /\ size.caret.data = c.data
         /\ CurrBytes(size.caret, n) = SubSeq(c.data, c.pos + 5, c.pos + 4 + n)
<1>1. size.value \in Int
  BY Int32From
<1>2. size.value > 0
  BY <1>1
<1>3. /\ size.value = SizeAt(c.data, c.pos) /\ size.caret.pos = c.pos + 4
      /\ size.caret.data = c.data /\ c.pos \in Nat /\ Len(c.data) \in Nat
      /\ Left(size.caret) = Len(c.data) - (c.pos + 4)
  BY <1>2, SizeRead
<1>4. code \in Sized /\ AdditionalBytes(code) = -4
  <2>1. code \in Sized
    BY DEF Sized
  <2>2. code # BINARY /\ code # BD_POINTER
    BY DEF DOCUMENT_EMBEDDED, DOCUMENT_ARRAY, BINARY, BD_POINTER
  <2>3. code \notin {STRING_CODE, JAVASCRIPT_CODE, SYMBOL}
    BY DEF DOCUMENT_EMBEDDED, DOCUMENT_ARRAY, STRING_CODE, JAVASCRIPT_CODE, SYMBOL
  <2> QED
    BY <2>1, <2>2, <2>3, SizedIs
<1>5. EndOf(c.data, c.pos, code) = IF size.value + (-4) < 0 THEN 0
                                   ELSE c.pos + 4 + size.value + (-4)
  <2>1. SizeAt(c.data, c.pos) \in Int /\ c.pos \in Int
    BY <1>1, <1>3
  <2> QED
    BY <1>3, <1>4, <2>1, EndOfSized
<1>6. EndOf(c.data, c.pos, code) = c.pos + 4 + n
  BY <1>1, <1>3, <1>5
<1>7. PayloadEnd(c.data, c.pos, code) = Fitting(c.data, c.pos + 4 + n)
  BY <1>6, EndFits
<1>8. c.pos + 4 + n <= Len(c.data) /\ c.pos + 4 + n # 0
  BY <1>3
<1>9. PayloadEnd(c.data, c.pos, code) = c.pos + 4 + n
  BY <1>3, <1>7, <1>8 DEF Fitting
<1>10. size.caret.pos + 1 = c.pos + 5 /\ size.caret.pos + n = c.pos + 4 + n
  BY <1>3
<1> QED
  BY <1>3, <1>8, <1>9, <1>10 DEF CurrBytes

LEMMA InlineEnds ==
  ASSUME NEW c, Within(c), ~c.error, NEW class, NEW code,
         NEW r, r = ReadInline(class, c, code), ~r.caret.error
  PROVE  \/ code = NULL_VALUE /\ r.caret.pos = c.pos
         \/ /\ code # NULL_VALUE /\ code \in {DOCUMENT_EMBEDDED, DOCUMENT_ARRAY}
            /\ r.caret.pos = PayloadEnd(c.data, c.pos, code) /\ r.caret.pos # 0
<1> DEFINE size == ReadInt32(c)
           v == Value(IF code = DOCUMENT_ARRAY THEN "InlineArray" ELSE "InlineDocument",
                      CurrBytes(c, size.value), <<>>)
           n == size.value - 4
<1>1. c \in CaretState /\ size.caret \in CaretState /\ size.value \in Int
      /\ Left(size.caret) \in Nat /\ c.pos \in Nat
  BY Int32From, WithinSound
<1>2. \/ code = NULL_VALUE /\ r = Read(NullOf(class), c)
      \/ r = ReadError(c)
      \/ r = ReadError(size.caret)
      \/ /\ code # NULL_VALUE /\ code \in {DOCUMENT_EMBEDDED, DOCUMENT_ARRAY}
         /\ ~(size.value - 4 > Left(size.caret)) /\ ~(size.value < 5)
         /\ r = Read(v, Inc(c, size.value))
  BY Zenon DEF ReadInline
<1>3. /\ size.value - 4 <= Left(size.caret) /\ size.value - 4 >= 0
         /\ code \in {DOCUMENT_EMBEDDED, DOCUMENT_ARRAY}
      => PayloadEnd(c.data, c.pos, code) = c.pos + 4 + n /\ c.pos + 4 + n # 0
  <2> SUFFICES ASSUME n <= Left(size.caret), n >= 0,
                      code \in {DOCUMENT_EMBEDDED, DOCUMENT_ARRAY}
               PROVE  PayloadEnd(c.data, c.pos, code) = c.pos + 4 + n /\ c.pos + 4 + n # 0
    OBVIOUS
  <2>1. n \in Int
    BY <1>1
  <2> HIDE DEF size
  <2>2. n = size.value - 4 /\ size = ReadInt32(c)
    BY DEF size
  <2> HIDE DEF n
  <2> QED
    BY <2>1, <2>2, DocumentEnds
<1> HIDE DEF size, v
<1>4. CASE code = NULL_VALUE /\ r = Read(NullOf(class), c)
  BY <1>4 DEF Read
<1>5. CASE r = ReadError(c) \/ r = ReadError(size.caret)
  <2>1. r.caret = SetError(c) \/ r.caret = SetError(size.caret)
    BY <1>5 DEF ReadError, Read
  <2> QED
    BY <1>1, <2>1, SetErrorFrom
<1>6. CASE /\ code # NULL_VALUE /\ code \in {DOCUMENT_EMBEDDED, DOCUMENT_ARRAY}
           /\ ~(size.value - 4 > Left(size.caret)) /\ ~(size.value < 5)
           /\ r = Read(v, Inc(c, size.value))
  <2>1. r.caret = Inc(c, size.value)
    BY <1>6 DEF Read
  <2>2. r.caret.pos = c.pos + size.value
    BY <1>1, <2>1, IncState
  <2>3. size.value - 4 <= Left(size.caret) /\ size.value - 4 >= 0 /\ c.pos + 4 + n = c.pos + size.value
    BY <1>1, <1>6
  <2> HIDE DEF n
  <2> QED
    BY <1>3, <1>6, <2>2, <2>3
<1> QED
  BY <1>2, <1>4, <1>5, <1>6

-----------------------------------------------------------------------------
(* Where places lead. *)

LEMMA PlaceLeads ==
  ASSUME NEW doc, NEW data, NEW at, NEW code, NEW type
  PROVE  /\ ElementAt(doc, data, at) # Astray /\ PayloadAt(doc, data, at, code, type) # Astray
         /\ Leads(ElementAt(doc, data, at)) = FromElement(ElementAt(doc, data, at))
         /\ Leads(PayloadAt(doc, data, at, code, type)) =
              FromPayload(PayloadAt(doc, data, at, code, type))
<1> DEFINE e == ElementAt(doc, data, at)
           p == PayloadAt(doc, data, at, code, type)
<1>1. e.kind = "element" /\ p.kind = "payload" /\ Astray.kind = "astray"
  BY DEF ElementAt, PayloadAt, Astray
<1> HIDE DEF e, p
<1>2. e # Astray /\ p # Astray
  <2> HIDE DEF Astray
  <2> QED
    BY <1>1
<1>3. Leads(e) = FromElement(e) /\ Leads(p) = FromPayload(p)
  BY <1>1 DEF Leads
<1> QED
  BY <1>2, <1>3 DEF e, p

(* Behind the last byte there is no element. *)
LEMMA Outside ==
  ASSUME NEW doc, NEW data \in Seq(BsonByte), NEW at \in Nat, Framed(ElementAt(doc, data, at))
  PROVE  at < Len(data)
<1> SUFFICES ASSUME ~(at < Len(data)) PROVE FALSE
  OBVIOUS
<1> DEFINE e == ElementAt(doc, data, at)
<1>1. e.data = data /\ e.at = at
  BY DEF ElementAt
<1>2. Leads(e) = FromElement(e)
  BY PlaceLeads
<1>3. Framed(e)
  OBVIOUS
<1> HIDE DEF e
<1>4. at \notin 0 .. Len(data) - 1 /\ at # Len(data) - 1
  BY LenProperties
<1>5. FromElement(e) = {Astray}
  BY <1>1, <1>4, Zenon DEF FromElement
<1>6. Framed(Astray)
  BY <1>2, <1>3, <1>5, FramedLeads, Zenon
<1> QED
  BY <1>6, FramedLeads

LEMMA AtTheEnd ==
  ASSUME NEW doc, NEW data, NEW at, at = Len(data) - 1, data[Len(data)] = 0
  PROVE  Framed(ElementAt(doc, data, at))
<1> DEFINE e == ElementAt(doc, data, at)
<1>1. e.data = data /\ e.at = at
  BY DEF ElementAt
<1>2. Leads(e) = FromElement(e) /\ e # Astray
  BY PlaceLeads
<1> HIDE DEF e
<1>3. FromElement(e) = {}
  BY <1>1, Zenon DEF FromElement
<1> QED
  BY <1>2, <1>3, Joined DEF e

LEMMA AtAnElement ==
  ASSUME NEW doc, NEW data \in Seq(BsonByte), NEW at \in Nat, at < Len(data) - 1,
         NEW start \in Int, start = AfterNul(data, at + 1), start # 0,
         NEW key, key = SubSeq(data, at + 2, start - 1),
         Framed(PayloadAt(doc, data, start, data[at + 1], ElementType(doc, key)))
  PROVE  Framed(ElementAt(doc, data, at))
<1> DEFINE e == ElementAt(doc, data, at)
           p == PayloadAt(doc, data, start, data[at + 1], ElementType(doc, key))
<1>1. e.data = data /\ e.at = at /\ e.doc = doc
  BY DEF ElementAt
<1>2. Leads(e) = FromElement(e) /\ e # Astray
  BY PlaceLeads
<1> HIDE DEF e
<1>3. at \in 0 .. Len(data) - 1 /\ at # Len(data) - 1
  BY LenProperties
<1>4. FromElement(e) = {p}
  BY <1>1, <1>3, Zenon DEF FromElement
<1> HIDE DEF p
<1>5. Framed(p)
  BY DEF p
<1> QED
  BY <1>2, <1>4, <1>5, Joined DEF e

(* What comes after a payload.  *)
LEMMA AfterFramed ==
  ASSUME NEW p, NEW end, end # 0, p.doc = "none" \/ Framed(ElementAt(p.doc, p.data, end)),
         NEW x \in After(p, end)
  PROVE  Framed(x)
BY Zenon DEF After

LEMMA PayloadParts ==
  ASSUME NEW doc, NEW data, NEW at, NEW code, NEW type, NEW p,
         p = PayloadAt(doc, data, at, code, type)
  PROVE  /\ p.doc = doc /\ p.data = data /\ p.at = at /\ p.code = code /\ p.type = type
         /\ p # Astray /\ Leads(p) = FromPayload(p)
         /\ \A t : [p EXCEPT !.type = t] = PayloadAt(doc, data, at, code, t)
<1>1. p.doc = doc /\ p.data = data /\ p.at = at /\ p.code = code /\ p.type = type
  BY DEF PayloadAt
<1>2. \A t : [p EXCEPT !.type = t] = PayloadAt(doc, data, at, code, t)
  BY DEF PayloadAt
<1> QED
  BY <1>1, <1>2, PlaceLeads

(* The payload of an unknown field, or of one with a typeSelector.         *)
LEMMA SkippedFramed ==
  ASSUME NEW doc, NEW data, NEW at, NEW code, NEW end, end # 0,
         end = PayloadEnd(data, at, code), Framed(ElementAt(doc, data, end))
  PROVE  Framed(PayloadAt(doc, data, at, code, "none"))
<1> DEFINE p == PayloadAt(doc, data, at, code, "none")
<1>1. /\ p.doc = doc /\ p.data = data /\ p.at = at /\ p.code = code /\ p.type = "none"
      /\ p # Astray /\ Leads(p) = FromPayload(p)
  BY PayloadParts
<1> HIDE DEF p
<1>2. Leads(p) = After(p, end)
  BY <1>1 DEF FromPayload
<1>3. \A x \in Leads(p) : Framed(x)
  BY <1>1, <1>2, AfterFramed
<1> QED
  BY <1>1, <1>3, Joined DEF p

LEMMA NullFramed ==
  ASSUME NEW doc, NEW data, NEW at, NEW type, type # "none",
         Framed(ElementAt(doc, data, at))
  PROVE  Framed(PayloadAt(doc, data, at, NULL_VALUE, type))
<1> DEFINE p == PayloadAt(doc, data, at, NULL_VALUE, type)
<1>1. /\ p.doc = doc /\ p.data = data /\ p.at = at /\ p.code = NULL_VALUE /\ p.type = type
      /\ p # Astray /\ Leads(p) = FromPayload(p)
  BY PayloadParts
<1> HIDE DEF p
<1>2. Leads(p) = {ElementAt(doc, data, at)}
  BY <1>1 DEF FromPayload
<1>3. \A x \in Leads(p) : Framed(x)
  BY <1>2
<1> QED
  BY <1>1, <1>3, Joined DEF p

(* The classes are different strings. *)
LEMMA ClassesDiffer ==
  ASSUME NEW class
  PROVE  /\ class \in ScalarClass \cup Inline \cup Enums =>
              class \notin Compound /\ class # "Any" /\ class # "Interpreted"
         /\ class \in Compound => /\ class \notin ScalarClass \cup Inline \cup Enums
                                  /\ class # "Any" /\ class # "Interpreted"
         /\ class \in {"Any", "Interpreted"} =>
              class \notin ScalarClass \cup Inline \cup Enums \cup Compound
         /\ class \in ScalarClass \cup Inline => class \notin Enums
BY DEF ScalarClass, ScalarCode, Inline, Enums, Compound

LEMMA LeafFramed ==
  ASSUME NEW doc, NEW data, NEW at, NEW code, NEW type, type # "none", code # NULL_VALUE,
         Class(type) \in ScalarClass \cup Inline \cup Enums, Matches(type, code),
         NEW end, end # 0, end = PayloadEnd(data, at, code), Framed(ElementAt(doc, data, end))
  PROVE  Framed(PayloadAt(doc, data, at, code, type))
<1> DEFINE p == PayloadAt(doc, data, at, code, type)
<1>1. /\ p.doc = doc /\ p.data = data /\ p.at = at /\ p.code = code /\ p.type = type
      /\ p # Astray /\ Leads(p) = FromPayload(p)
  BY PayloadParts
<1> HIDE DEF p
<1>2. FromPayload(p) = FromTyped(p)
  BY <1>1 DEF FromPayload
<1>3. /\ Class(p.type) \notin Compound /\ Class(p.type) # "Any"
      /\ Class(p.type) # "Interpreted"
      /\ Class(p.type) \in ScalarClass \cup Inline \cup Enums /\ Matches(p.type, p.code)
  BY <1>1, ClassesDiffer
<1>4. FromTyped(p) = After(p, end)
  BY <1>1, <1>3 DEF FromTyped
<1>5. \A x \in Leads(p) : Framed(x)
  BY <1>1, <1>2, <1>4, AfterFramed
<1> QED
  BY <1>1, <1>5, Joined DEF p

(* Types that stand for others. *)
LEMMA SameLeads ==
  ASSUME NEW p, NEW q, Framed(q), p # Astray, Leads(p) = Leads(q)
  PROVE  Framed(p)
BY FramedLeads, Joined

LEMMA InterpretedFramed ==
  ASSUME NEW doc, NEW data, NEW at, NEW code, NEW type, type # "none",
         Class(type) = "Interpreted", Item(type) # "none",
         Framed(PayloadAt(doc, data, at, code, Item(type)))
  PROVE  Framed(PayloadAt(doc, data, at, code, type))
<1> DEFINE p == PayloadAt(doc, data, at, code, type)
           q == PayloadAt(doc, data, at, code, Item(type))
<1>1. /\ p.doc = doc /\ p.data = data /\ p.at = at /\ p.code = code /\ p.type = type
      /\ p # Astray /\ Leads(p) = FromPayload(p) /\ [p EXCEPT !.type = Item(type)] = q
  BY PayloadParts
<1>2. /\ q.doc = doc /\ q.data = data /\ q.at = at /\ q.code = code /\ q.type = Item(type)
      /\ Leads(q) = FromPayload(q)
  BY PayloadParts
<1>3. Framed(q)
  OBVIOUS
<1> HIDE DEF p, q
<1>4. CASE code = NULL_VALUE
  <2>1. FromPayload(p) = {ElementAt(doc, data, at)} /\ FromPayload(q) = {ElementAt(doc, data, at)}
    BY <1>1, <1>2, <1>4 DEF FromPayload
  <2> QED
    BY <1>1, <1>2, <1>3, <2>1, SameLeads DEF p
<1>5. CASE code # NULL_VALUE
  <2>1. FromPayload(p) = FromTyped(p)
    BY <1>1, <1>5 DEF FromPayload
  <2>2. /\ Class(p.type) = "Interpreted" /\ Class(p.type) # "Any"
        /\ Class(p.type) \notin Compound
        /\ Class(p.type) \notin ScalarClass \cup Inline \cup Enums
    BY <1>1, ClassesDiffer
  <2>3. FromTyped(p) = {q}
    BY <1>1, <2>2 DEF FromTyped
  <2>4. \A x \in Leads(p) : Framed(x)
    BY <1>1, <1>3, <2>1, <2>3
  <2> QED
    BY <1>1, <2>4, Joined DEF p
<1> QED
  BY <1>4, <1>5

LEMMA AnyFramed ==
  ASSUME NEW doc, NEW data, NEW at, NEW code, NEW type, type # "none",
         Class(type) = "Any", NEW guess,
         guess = IF code = NULL_VALUE THEN "none" ELSE GuessedType(code),
         IF guess = "none" THEN Framed(ElementAt(doc, data, at))
         ELSE Framed(PayloadAt(doc, data, at, code, guess))
  PROVE  Framed(PayloadAt(doc, data, at, code, type))
<1> DEFINE p == PayloadAt(doc, data, at, code, type)
           q == PayloadAt(doc, data, at, code, guess)
<1>1. /\ p.doc = doc /\ p.data = data /\ p.at = at /\ p.code = code /\ p.type = type
      /\ p # Astray /\ Leads(p) = FromPayload(p) /\ [p EXCEPT !.type = guess] = q
  BY PayloadParts
<1>2. IF guess = "none" THEN Framed(ElementAt(doc, data, at)) ELSE Framed(q)
  OBVIOUS
<1> HIDE DEF p, q
<1>3. CASE code = NULL_VALUE
  <2>1. Framed(ElementAt(doc, data, at))
    BY <1>2, <1>3
  <2>2. Framed(PayloadAt(doc, data, at, NULL_VALUE, type))
    BY <2>1, NullFramed
  <2> QED
    BY <1>3, <2>2
<1>4. CASE code # NULL_VALUE
  <2>1. FromPayload(p) = FromTyped(p) /\ guess = GuessedType(p.code)
    BY <1>1, <1>4 DEF FromPayload
  <2>2. /\ Class(p.type) = "Any" /\ Class(p.type) # "Interpreted"
        /\ Class(p.type) \notin Compound
        /\ Class(p.type) \notin ScalarClass \cup Inline \cup Enums
    BY <1>1, ClassesDiffer
  <2>3. FromTyped(p) = IF guess = "none" THEN {ElementAt(p.doc, p.data, p.at)}
                       ELSE {[p EXCEPT !.type = guess]}
    BY <2>1, <2>2 DEF FromTyped
  <2>4. \A x \in Leads(p) : Framed(x)
    BY <1>1, <1>2, <2>1, <2>3
  <2> QED
    BY <1>1, <2>4, Joined DEF p
<1> QED
  BY <1>3, <1>4

(* A nested document: its own elements, and what comes after it.           *)
LEMMA DocumentFramed ==
  ASSUME NEW doc, NEW data, NEW at, NEW code, NEW type, type # "none",
         Class(type) \in Compound,
         code \in {DOCUMENT_ROOT, DOCUMENT_EMBEDDED, DOCUMENT_ARRAY},
         NEW end, end # 0, end = PayloadEnd(data, at, DOCUMENT_EMBEDDED),
         Framed(ElementAt(type, SubSeq(data, at + 5, end), 0)),
         doc = "none" \/ Framed(ElementAt(doc, data, end))
  PROVE  Framed(PayloadAt(doc, data, at, code, type))
<1> DEFINE p == PayloadAt(doc, data, at, code, type)
<1>1. /\ p.doc = doc /\ p.data = data /\ p.at = at /\ p.code = code /\ p.type = type
      /\ p # Astray /\ Leads(p) = FromPayload(p)
  BY PayloadParts
<1> HIDE DEF p
<1>2. code # NULL_VALUE
  BY DEF DOCUMENT_ROOT, DOCUMENT_EMBEDDED, DOCUMENT_ARRAY, NULL_VALUE
<1>3. FromPayload(p) = FromTyped(p)
  BY <1>1, <1>2 DEF FromPayload
<1>4. /\ Class(p.type) \in Compound /\ Class(p.type) # "Any" /\ Class(p.type) # "Interpreted"
      /\ Class(p.type) \notin ScalarClass \cup Inline \cup Enums
      /\ p.code \in {DOCUMENT_ROOT, DOCUMENT_EMBEDDED, DOCUMENT_ARRAY}
  BY <1>1, ClassesDiffer
<1>5. FromTyped(p) = After(p, end) \cup {ElementAt(type, SubSeq(data, at + 5, end), 0)}
  BY <1>1, <1>4 DEF FromTyped
<1>6. \A x \in After(p, end) : Framed(x)
  BY <1>1, AfterFramed
<1>7. \A x \in Leads(p) : Framed(x)
  BY <1>1, <1>3, <1>5, <1>6
<1> QED
  BY <1>1, <1>7, Joined DEF p

-----------------------------------------------------------------------------
(* What of the outermost document is still to be shown: that it is framed  *)
(* if what has not been read yet is. *)

Root(r)    == PayloadAt("none", r.data, 0, DOCUMENT_ROOT, r.type)
StartOf(f) == ElementAt(f.type, f.inner.data, 0)

(* A frame whose loop goes on, or that a deserialize is called for, or on  *)
(* which g is open.  Nothing is said of an element set aside. *)
Follows(f, d) ==
  \/ f.type = "none" \/ d.error
  \/ Framed(ElementAt(f.type, d.data, d.pos)) => Framed(StartOf(f))

Resumes(f) == Follows(f, f.inner)

Awaits(f, a) ==
  \/ f.type = "none"
  \/ Framed(PayloadAt(f.type, f.inner.data, f.inner.pos, a.code, a.type)) => Framed(StartOf(f))

Joins(f, c, g) ==
  \/ f.type = "none" \/ g.type = "none"
  \/ /\ Framed(StartOf(g))
     /\ Framed(ElementAt(f.type, c.data, c.pos + Len(g.inner.data)))
     => Framed(StartOf(f))

Linked(f, g) == Joins(f, f.inner, g)

(* The loop of the i-th frame is over. *)
LoopOver(s, i, p) == IF i = Len(s) THEN p = "polymorphs" ELSE s[i + 1].type = "none"

Chained(s, p) ==
  \A i \in 1 .. Len(s) : i - 1 \in 1 .. Len(s) =>
    IF LoopOver(s, i, p) THEN Resumes(s[i - 1]) ELSE Linked(s[i - 1], s[i])

Based(r, s, p, c) ==
  s # <<>> => IF LoopOver(s, 1, p) THEN c.error \/ Framed(Root(r))
              ELSE Framed(StartOf(s[1])) => Framed(Root(r))

(* The innermost frame, or the caller. *)
Going(r, s, p, c, a) ==
  /\ p = "iterate" => s # <<>> /\ Resumes(s[Len(s)])
  /\ p = "call" =>
       IF s = <<>>
       THEN Framed(PayloadAt("none", c.data, c.pos, a.code, a.type)) => Framed(Root(r))
       ELSE Awaits(s[Len(s)], a)
  /\ p \in {"returned", "done"} =>
       IF s = <<>> THEN c.error \/ Framed(Root(r)) ELSE Resumes(s[Len(s)])

(* Frames of the same place. *)
Alike(f, g) == g.type = f.type /\ g.inner.data = f.inner.data

LEMMA ChainedNone ==
  ASSUME NEW p
  PROVE  Chained(<<>>, p)
<1>1. Len(<<>>) = 0 /\ 1 .. 0 = {}
  OBVIOUS
<1> QED
  BY <1>1 DEF Chained

LEMMA AlikeLinked ==
  ASSUME NEW f, NEW g, NEW h, Linked(f, g), Alike(g, h)
  PROVE  Linked(f, h)
BY DEF Linked, Joins, Alike, StartOf

LEMMA ChainedPut ==
  ASSUME NEW s, IsStack(s), s # <<>>, NEW p, Chained(s, p), NEW f, IsFrame(f),
         Alike(s[Len(s)], f), NEW q, (p = "polymorphs") <=> (q = "polymorphs"),
         NEW t, PutOn(s, f, t)
  PROVE  /\ Chained(t, q)
         /\ \A r, c : Based(r, s, p, c) => Based(r, t, q, c)
<1> DEFINE n == Len(s)
<1>1. n \in Nat /\ n # 0
  BY StackParts
<1>0. IsStack(t) /\ t # <<>>
  BY PutTop
<1>2. Len(t) = n /\ t[n] = f /\ (\A i \in 1 .. n - 1 : t[i] = s[i]) /\ t # <<>>
  BY <1>0, PutStack DEF PutOn
<1> HIDE DEF n
<1>3. ASSUME NEW i \in 1 .. n
      PROVE  /\ LoopOver(t, i, q) <=> LoopOver(s, i, p)
             /\ Alike(s[i], t[i])
             /\ i # n => t[i] = s[i]
  <2>1. CASE i = n
    BY <1>2, <2>1 DEF LoopOver, n
  <2>2. CASE i # n
    <3>1. i \in 1 .. n - 1 /\ i + 1 \in 1 .. n /\ (i + 1 = n \/ i + 1 \in 1 .. n - 1)
      BY <1>1, <2>2
    <3>2. t[i] = s[i] /\ t[i + 1].type = s[i + 1].type
      BY <1>2, <3>1 DEF Alike, n
    <3> QED
      BY <1>2, <2>2, <3>2 DEF LoopOver, Alike, n
  <2> QED
    BY <2>1, <2>2
<1>4. ASSUME NEW i \in 1 .. n, i - 1 \in 1 .. n
      PROVE  IF LoopOver(t, i, q) THEN Resumes(t[i - 1]) ELSE Linked(t[i - 1], t[i])
  <2>1. IF LoopOver(s, i, p) THEN Resumes(s[i - 1]) ELSE Linked(s[i - 1], s[i])
    BY <1>4 DEF Chained, n
  <2>2. i - 1 # n
    BY <1>1
  <2>3. t[i - 1] = s[i - 1]
    BY <1>3, <1>4, <2>2
  <2> QED
    BY <1>3, <2>1, <2>3, AlikeLinked
<1>5. Chained(t, q)
  BY <1>2, <1>4 DEF Chained
<1>6. ASSUME NEW r, NEW c, Based(r, s, p, c)
      PROVE  Based(r, t, q, c)
  <2>1. 1 \in 1 .. n
    BY <1>1
  <2>2. Alike(s[1], t[1]) /\ (LoopOver(t, 1, q) <=> LoopOver(s, 1, p))
    BY <1>3, <2>1
  <2>3. StartOf(t[1]) = StartOf(s[1])
    BY <2>2 DEF Alike, StartOf
  <2> QED
    BY <1>6, <2>2, <2>3, Zenon DEF Based
<1> QED
  BY <1>5, <1>6

LEMMA ChainedPush ==
  ASSUME NEW s, IsStack(s), NEW p, Chained(s, p), NEW f, IsFrame(f),
         NEW q, (f.type = "none") <=> (p = "polymorphs"), p = "polymorphs" => s # <<>>,
         s # <<>> => IF q = "polymorphs" THEN Resumes(s[Len(s)]) ELSE Linked(s[Len(s)], f),
         NEW t, PushOn(s, f, t)
  PROVE  /\ Chained(t, q)
         /\ \A r, c : /\ s # <<>> => Based(r, s, p, c)
                      /\ s = <<>> => IF q = "polymorphs" THEN c.error \/ Framed(Root(r))
                                     ELSE Framed(StartOf(f)) => Framed(Root(r))
                      => Based(r, t, q, c)
<1> DEFINE n == Len(s)
<1>1. n \in Nat /\ (s # <<>> <=> n # 0)
  BY StackParts
<1>2. Len(t) = n + 1 /\ t[n + 1] = f /\ \A i \in 1 .. n : t[i] = s[i]
  BY PushStack DEF PushOn
<1> HIDE DEF n
<1>3. ASSUME NEW i \in 1 .. n
      PROVE  (LoopOver(t, i, q) <=> LoopOver(s, i, p)) /\ t[i] = s[i]
  <2>1. i # n + 1 /\ (i = n \/ (i # n /\ i + 1 \in 1 .. n))
    BY <1>1
  <2>2. CASE i = n
    BY <1>2, <2>1, <2>2 DEF LoopOver, n
  <2>3. CASE i # n /\ i + 1 \in 1 .. n
    <3>1. t[i + 1] = s[i + 1]
      BY <1>2, <2>3
    <3> QED
      BY <1>2, <2>1, <2>3, <3>1 DEF LoopOver, n
  <2> QED
    BY <1>2, <2>1, <2>2, <2>3
<1>4. ASSUME NEW i \in 1 .. n + 1, i - 1 \in 1 .. n + 1
      PROVE  IF LoopOver(t, i, q) THEN Resumes(t[i - 1]) ELSE Linked(t[i - 1], t[i])
  <2>1. i - 1 \in 1 .. n /\ n # 0 /\ ((i = n + 1 /\ i - 1 = n) \/ i \in 1 .. n)
    BY <1>1, <1>4
  <2>2. t[i - 1] = s[i - 1]
    BY <1>3, <2>1
  <2>3. CASE i = n + 1 /\ i - 1 = n
    <3>1. LoopOver(t, i, q) <=> q = "polymorphs"
      BY <1>2, <2>3 DEF LoopOver
    <3>2. IF q = "polymorphs" THEN Resumes(s[n]) ELSE Linked(s[n], f)
      BY <1>1, <2>1 DEF n
    <3> QED
      BY <1>2, <2>2, <2>3, <3>1, <3>2
  <2>4. CASE i \in 1 .. n
    <3>1. IF LoopOver(s, i, p) THEN Resumes(s[i - 1]) ELSE Linked(s[i - 1], s[i])
      BY <2>1, <2>4 DEF Chained, n
    <3> QED
      BY <1>3, <2>2, <2>4, <3>1
  <2> QED
    BY <2>1, <2>3, <2>4
<1>5. Chained(t, q)
  BY <1>2, <1>4 DEF Chained
<1>6. ASSUME NEW r, NEW c, s # <<>> => Based(r, s, p, c),
             s = <<>> => IF q = "polymorphs" THEN c.error \/ Framed(Root(r))
                         ELSE Framed(StartOf(f)) => Framed(Root(r))
      PROVE  Based(r, t, q, c)
  <2>1. CASE s = <<>>
    <3>1. n = 0 /\ Len(t) = 1 /\ t[1] = f
      BY <1>1, <1>2, <2>1
    <3>2. LoopOver(t, 1, q) <=> q = "polymorphs"
      BY <3>1 DEF LoopOver
    <3> QED
      BY <1>6, <2>1, <3>1, <3>2 DEF Based
  <2>2. CASE s # <<>>
    <3>1. 1 \in 1 .. n
      BY <1>1, <2>2
    <3>2. t[1] = s[1] /\ (LoopOver(t, 1, q) <=> LoopOver(s, 1, p))
      BY <1>3, <3>1
    <3> QED
      BY <1>6, <2>2, <3>2, Zenon DEF Based
  <2> QED
    BY <2>1, <2>2
<1> QED
  BY <1>5, <1>6

(* The frame below the innermost. *)
LEMMA ChainedPop ==
  ASSUME NEW s, IsStack(s), s # <<>>, NEW p, Chained(s, p), NEW b, b = Below(s),
         NEW q, (s[Len(s)].type = "none") <=> (q = "polymorphs")
  PROVE  /\ IsStack(b) /\ Chained(b, q)
         /\ b # <<>> => IF p = "polymorphs" THEN Resumes(b[Len(b)])
                        ELSE Linked(b[Len(b)], s[Len(s)])
         /\ b # <<>> => \A r, c : Based(r, s, p, c) => Based(r, b, q, c)
         /\ b = <<>> => /\ Len(s) = 1
                        /\ \A r, c : Based(r, s, p, c) =>
                             IF p = "polymorphs" THEN c.error \/ Framed(Root(r))
                             ELSE Framed(StartOf(s[Len(s)])) => Framed(Root(r))
<1> DEFINE n == Len(s)
<1>1. n \in Nat /\ n # 0
  BY StackParts
<1>2. IsStack(b) /\ Len(b) = n - 1 /\ \A i \in 1 .. n - 1 : b[i] = s[i]
  BY PopStack
<1>3. b # <<>> <=> Len(b) # 0
  BY <1>2, StackParts
<1> HIDE DEF n
<1>4. ASSUME NEW i \in 1 .. n - 1
      PROVE  (LoopOver(b, i, q) <=> LoopOver(s, i, p)) /\ b[i] = s[i] /\ i \in 1 .. n /\ i # n
  <2>1. i \in 1 .. n /\ i # n /\ ((i = n - 1 /\ i + 1 = n) \/ (i # n - 1 /\ i + 1 \in 1 .. n - 1))
    BY <1>1
  <2>2. CASE i = n - 1 /\ i + 1 = n
    BY <1>2, <2>1, <2>2 DEF LoopOver, n
  <2>3. CASE i # n - 1 /\ i + 1 \in 1 .. n - 1
    <3>1. b[i + 1] = s[i + 1]
      BY <1>2, <2>3
    <3> QED
      BY <1>2, <2>1, <2>3, <3>1 DEF LoopOver, n
  <2> QED
    BY <1>2, <2>1, <2>2, <2>3
<1>5. ASSUME NEW i \in 1 .. n - 1, i - 1 \in 1 .. n - 1
      PROVE  IF LoopOver(b, i, q) THEN Resumes(b[i - 1]) ELSE Linked(b[i - 1], b[i])
  <2>1. i \in 1 .. n /\ i - 1 \in 1 .. n
    BY <1>1, <1>5
  <2>2. IF LoopOver(s, i, p) THEN Resumes(s[i - 1]) ELSE Linked(s[i - 1], s[i])
    BY <2>1 DEF Chained, n
  <2> QED
    BY <1>4, <1>5, <2>2
<1>6. Chained(b, q)
  BY <1>2, <1>5 DEF Chained
<1>7. ASSUME b # <<>>
      PROVE  /\ IF p = "polymorphs" THEN Resumes(b[Len(b)]) ELSE Linked(b[Len(b)], s[n])
             /\ \A r, c : Based(r, s, p, c) => Based(r, b, q, c)
  <2>1. n - 1 \in 1 .. n - 1 /\ n \in 1 .. n /\ n - 1 \in 1 .. n /\ 1 \in 1 .. n - 1
    BY <1>1, <1>2, <1>3, <1>7
  <2>2. IF LoopOver(s, n, p) THEN Resumes(s[n - 1]) ELSE Linked(s[n - 1], s[n])
    BY <2>1 DEF Chained, n
  <2>3. LoopOver(s, n, p) <=> p = "polymorphs"
    BY DEF LoopOver, n
  <2>4. b[Len(b)] = s[n - 1]
    BY <1>2, <2>1
  <2>5. b[1] = s[1] /\ (LoopOver(b, 1, q) <=> LoopOver(s, 1, p))
    BY <1>4, <2>1
  <2>6. \A r, c : Based(r, s, p, c) => Based(r, b, q, c)
    BY <2>5 DEF Based
  <2> QED
    BY <2>2, <2>3, <2>4, <2>6
<1>8. ASSUME b = <<>>
      PROVE  /\ n = 1
             /\ \A r, c : Based(r, s, p, c) =>
                  IF p = "polymorphs" THEN c.error \/ Framed(Root(r))
                  ELSE Framed(StartOf(s[n])) => Framed(Root(r))
  <2>1. n = 1
    BY <1>1, <1>2, <1>3, <1>8
  <2>2. LoopOver(s, 1, p) <=> p = "polymorphs"
    BY <2>1 DEF LoopOver, n
  <2> QED
    BY <2>1, <2>2 DEF Based
<1> QED
  BY <1>2, <1>6, <1>7, <1>8 DEF n

-----------------------------------------------------------------------------
(* The invariant behind OnlyDocumentsRead, read from the inside out: what  *)
(* has been read is not remembered, so it says what still has to be framed *)
(* for the innermost document to be (Going), for each document on the      *)
(* stack that of the frame above it (Chained), and for the request that of *)
(* the outermost frame (Based).  Closing a document settles the innermost. *)
Framing(r, s, p, c, a) == Chained(s, p) /\ Based(r, s, p, c) /\ Going(r, s, p, c, a)

DInv == IInv /\ Framing(request, stack, pc, caret, call)

LEMMA BasedNone ==
  ASSUME NEW r, NEW p, NEW c
  PROVE  Based(r, <<>>, p, c)
BY DEF Based

(* Only whether the elements set aside are being read matters of pc. *)
LEMMA ChainedPc ==
  ASSUME NEW s, NEW p, NEW q, Chained(s, p), (p = "polymorphs") <=> (q = "polymorphs")
  PROVE  Chained(s, q) /\ \A r, c : Based(r, s, p, c) => Based(r, s, q, c)
<1>1. \A i : LoopOver(s, i, p) <=> LoopOver(s, i, q)
  BY DEF LoopOver
<1> QED
  BY <1>1, Zenon DEF Chained, Based

LEMMA ResumesMoved ==
  ASSUME NEW f, NEW g, NEW d, Follows(f, d), Alike(f, g), g.inner = d
  PROVE  Resumes(g)
<1>1. StartOf(g) = StartOf(f)
  BY DEF Alike, StartOf
<1> QED
  BY <1>1, Zenon DEF Resumes, Follows, Alike

(* The innermost caret moved. *)
LEMMA ChainedMove ==
  ASSUME NEW s, IsStack(s), s # <<>>, NEW p, Chained(s, p),
         NEW d, Sound(d), d.data = s[Len(s)].inner.data,
         NEW q, (p = "polymorphs") <=> (q = "polymorphs"), NEW t, MoveOn(s, d, t)
  PROVE  /\ IsStack(t) /\ t # <<>> /\ Chained(t, q)
         /\ \A r, c : Based(r, s, p, c) => Based(r, t, q, c)
         /\ t[Len(t)].inner = d /\ Alike(s[Len(s)], t[Len(t)])
<1>1. PICK f : IsFrame(f) /\ f.inner = d /\ f.type = s[Len(s)].type /\ PutOn(s, f, t)
  BY MoveIsPut
<1>2. Alike(s[Len(s)], f)
  BY <1>1 DEF Alike
<1>3. IsStack(t) /\ t # <<>> /\ t[Len(t)] = f
  BY <1>1, PutTop
<1>4. Chained(t, q) /\ \A r, c : Based(r, s, p, c) => Based(r, t, q, c)
  BY <1>1, <1>2, ChainedPut
<1> QED
  BY <1>1, <1>2, <1>3, <1>4

LEMMA ReturnFramed ==
  ASSUME DInv, NEW STATE s, IsStack(s), Chained(s, "returned"),
         Based(request, s, "returned", caret),
         NEW STATE d, Sound(d), s = <<>> => d.error \/ Framed(Root(request)),
         s # <<>> => d.data = s[Len(s)].inner.data /\ Follows(s[Len(s)], d),
         NEW STATE w, NEW STATE v, Return(s, d, w, v)
  PROVE  Framing(request, stack, pc, caret, call)'
<1>1. /\ caret' = IF s = <<>> THEN d ELSE caret
      /\ stack' = IF s = <<>> THEN s ELSE [s EXCEPT ![Len(s)].inner = d]
      /\ pc' = "returned" /\ call' = call /\ request' = request
  BY DEF Return, PutCaret
<1>2. CASE s = <<>>
  <2>1. stack' = <<>> /\ caret' = d
    BY <1>1, <1>2
  <2>2. Chained(<<>>, "returned") /\ Based(request, <<>>, "returned", d)
    BY ChainedNone, BasedNone
  <2>3. Going(request, <<>>, "returned", d, call)
    BY <1>2 DEF Going
  <2> QED
    BY <1>1, <2>1, <2>2, <2>3 DEF Framing
<1>3. CASE s # <<>>
  <2> DEFINE t == [s EXCEPT ![Len(s)].inner = d]
  <2>1. stack' = t /\ MoveOn(s, d, t) /\ caret' = caret
    BY <1>1, <1>3 DEF MoveOn
  <2> HIDE DEF t
  <2>2. /\ t # <<>> /\ Chained(t, "returned") /\ t[Len(t)].inner = d
        /\ Alike(s[Len(s)], t[Len(t)])
        /\ \A r, c : Based(r, s, "returned", c) => Based(r, t, "returned", c)
    BY <1>3, <2>1, ChainedMove
  <2>3. Resumes(t[Len(t)])
    BY <1>3, <2>2, ResumesMoved
  <2>4. Going(request, t, "returned", caret, call)
    BY <2>2, <2>3 DEF Going
  <2> QED
    BY <1>1, <2>1, <2>2, <2>4 DEF Framing
<1> QED
  BY <1>2, <1>3

LEMMA Traced ==
  ASSUME DInv
  PROVE  /\ IInv /\ IsStack(stack) /\ Chained(stack, pc) /\ Based(request, stack, pc, caret)
         /\ Going(request, stack, pc, caret, call)
         /\ stack # <<>> => /\ IsFrame(Top) /\ Top = stack[Len(stack)] /\ Here = Top.inner
                            /\ Sound(Top.inner)
         /\ stack = <<>> => Here = caret
<1>1. IInv /\ Framing(request, stack, pc, caret, call)
  BY DEF DInv
<1> QED
  BY <1>1, Facts DEF Framing, Here, CaretOf, Top

(* A method that returns or throws before it has opened a document.        *)
LEMMA ReturnHereFramed ==
  ASSUME DInv, pc = "call", NEW STATE d, From(Here, d),
         stack = <<>> => d.error, stack # <<>> => Follows(Top, d),
         NEW STATE w, NEW STATE v, Return(stack, d, w, v)
  PROVE  Framing(request, stack, pc, caret, call)'
<1>1. IsStack(stack) /\ Chained(stack, "call") /\ Based(request, stack, "call", caret)
  BY Traced
<1>2. Chained(stack, "returned") /\ Based(request, stack, "returned", caret)
  BY <1>1, ChainedPc
<1>3. Sound(d) /\ d.data = Here.data
  BY DEF From
<1>4. stack # <<>> => d.data = stack[Len(stack)].inner.data /\ Follows(stack[Len(stack)], d)
  BY <1>3, Traced
<1> QED
  BY <1>1, <1>2, <1>3, <1>4, ReturnFramed

LEMMA ErrorFramed ==
  ASSUME DInv, pc = "call", NEW STATE d, From(Here, d), d.error,
         NEW STATE w, NEW STATE v, Return(stack, d, w, v)
  PROVE  Framing(request, stack, pc, caret, call)'
<1>1. stack # <<>> => Follows(Top, d)
  BY DEF Follows
<1> QED
  BY <1>1, ReturnHereFramed

(* A method that has read the payload. *)
LEMMA ValueFramed ==
  ASSUME DInv, pc = "call", NEW STATE d, From(Here, d), stack = <<>> => d.error,
         ~d.error => \A doc : doc # "none" /\ Framed(ElementAt(doc, d.data, d.pos)) =>
           Framed(PayloadAt(doc, d.data, Here.pos, call.code, call.type)),
         NEW STATE w, NEW STATE v, Return(stack, d, w, v)
  PROVE  Framing(request, stack, pc, caret, call)'
<1>1. ASSUME stack # <<>>
      PROVE  Follows(Top, d)
  <2>1. Awaits(Top, call) /\ Here = Top.inner
    BY <1>1, Traced DEF Going
  <2>2. d.data = Top.inner.data
    BY <2>1 DEF From
  <2> QED
    BY <2>1, <2>2 DEF Awaits, Follows
<1> QED
  BY <1>1, ReturnHereFramed

LEMMA ThrowFramed ==
  ASSUME DInv, pc = "call", Throw
  PROVE  Framing(request, stack, pc, caret, call)'
<1>1. Chained(stack, "call") /\ Based(request, stack, "call", caret)
  BY Traced
<1>2. /\ pc' = "threw" /\ stack' = stack /\ call' = call /\ caret' = caret
      /\ request' = request
  BY DEF Throw
<1>3. Chained(stack, "threw") /\ Based(request, stack, "threw", caret)
  BY <1>1, ChainedPc
<1>4. Going(request, stack, "threw", caret, call)
  BY DEF Going
<1> QED
  BY <1>2, <1>3, <1>4 DEF Framing

(* What comes back to the frame below. *)
LEMMA PopFramed ==
  ASSUME DInv, stack # <<>>, Top.type # "none", NEW STATE b, b = Below(stack)
  PROVE  /\ IsStack(b) /\ Chained(b, "returned") /\ Based(request, b, "returned", caret)
         /\ Sound(CaretOf(b))
         /\ b # <<>> => CaretOf(b) = b[Len(b)].inner
         /\ b # <<>> => IF pc = "polymorphs" THEN Resumes(b[Len(b)])
                        ELSE Linked(b[Len(b)], Top)
         /\ b = <<>> => /\ Len(stack) = 1 /\ CaretOf(b) = caret
                        /\ IF pc = "polymorphs" THEN caret.error \/ Framed(Root(request))
                           ELSE Framed(StartOf(Top)) => Framed(Root(request))
<1>1. /\ IsStack(stack) /\ Chained(stack, pc) /\ Based(request, stack, pc, caret)
      /\ Top = stack[Len(stack)] /\ IInv
  BY Traced
<1>2. Sound(CaretOf(b)) /\ (b = <<>> => CaretOf(b) = caret)
      /\ (b # <<>> => CaretOf(b) = b[Len(b)].inner)
  BY <1>1, PopTop DEF CaretOf
<1>3. (stack[Len(stack)].type = "none") <=> ("returned" = "polymorphs")
  BY <1>1
<1>4. /\ IsStack(b) /\ Chained(b, "returned")
      /\ b # <<>> => IF pc = "polymorphs" THEN Resumes(b[Len(b)])
                     ELSE Linked(b[Len(b)], stack[Len(stack)])
      /\ b # <<>> => \A r, c : Based(r, stack, pc, c) => Based(r, b, "returned", c)
      /\ b = <<>> => /\ Len(stack) = 1
                     /\ \A r, c : Based(r, stack, pc, c) =>
                             IF pc = "polymorphs" THEN c.error \/ Framed(Root(r))
                             ELSE Framed(StartOf(stack[Len(stack)])) => Framed(Root(r))
  BY <1>1, <1>3, ChainedPop
<1>5. Based(request, b, "returned", caret)
  BY <1>1, <1>4, BasedNone
<1> QED
  BY <1>1, <1>2, <1>4, <1>5

LEMMA FailInsideFramed ==
  ASSUME DInv, stack # <<>>, Top.type # "none", NEW STATE c, c.pos \in Int, FailInside(c)
  PROVE  Framing(request, stack, pc, caret, call)'
<1> DEFINE b == Below(stack)
           d == SetError(Inc(CaretOf(b), c.pos))
           w == Top.wraps
<1>1. Return(b, d, w, Nil)
  BY DEF FailInside
<1>2. /\ IsStack(b) /\ Chained(b, "returned") /\ Based(request, b, "returned", caret)
      /\ Sound(CaretOf(b)) /\ (b # <<>> => CaretOf(b) = b[Len(b)].inner)
  BY PopFramed
<1> HIDE DEF b, w
<1>3. Sound(d) /\ d.error /\ d.data = CaretOf(b).data
  BY <1>2, ErrorAfter DEF From
<1> HIDE DEF d
<1>4. b # <<>> => d.data = b[Len(b)].inner.data /\ Follows(b[Len(b)], d)
  BY <1>2, <1>3 DEF Follows
<1> QED
  BY <1>1, <1>2, <1>3, <1>4, ReturnFramed

-----------------------------------------------------------------------------
(* What a payload of one piece leaves behind it. *)
LEMMA ScalarFramed ==
  ASSUME NEW c, Within(c), ~c.error, NEW class \in ScalarClass, NEW type, type # "none",
         Class(type) \in ScalarClass \cup Enums,
         class = Class(IF Class(type) \in Enums THEN Item(type) ELSE type),
         NEW code, NEW d, d = ReadScalar(class, c, code).caret, ~d.error,
         NEW doc, Framed(ElementAt(doc, c.data, d.pos))
  PROVE  Framed(PayloadAt(doc, c.data, c.pos, code, type))
<1>1. \/ code = NULL_VALUE /\ d.pos = c.pos
      \/ /\ code # NULL_VALUE /\ code = ScalarCode[class]
         /\ d.pos = PayloadEnd(c.data, c.pos, code) /\ d.pos # 0
  BY ScalarEnds
<1>2. CASE code = NULL_VALUE /\ d.pos = c.pos
  <2>1. Framed(PayloadAt(doc, c.data, c.pos, NULL_VALUE, type))
    BY <1>2, NullFramed
  <2> QED
    BY <1>2, <2>1
<1>3. CASE /\ code # NULL_VALUE /\ code = ScalarCode[class]
           /\ d.pos = PayloadEnd(c.data, c.pos, code) /\ d.pos # 0
  <2>1. Matches(type, code)
    BY <1>3 DEF Matches
  <2> QED
    BY <1>3, <2>1, LeafFramed
<1> QED
  BY <1>1, <1>2, <1>3

LEMMA InlineFramed ==
  ASSUME NEW c, Within(c), ~c.error, NEW type, type # "none", Class(type) \in Inline,
         NEW code, NEW d, d = ReadInline(Class(type), c, code).caret, ~d.error,
         NEW doc, Framed(ElementAt(doc, c.data, d.pos))
  PROVE  Framed(PayloadAt(doc, c.data, c.pos, code, type))
<1>1. \/ code = NULL_VALUE /\ d.pos = c.pos
      \/ /\ code # NULL_VALUE /\ code \in {DOCUMENT_EMBEDDED, DOCUMENT_ARRAY}
         /\ d.pos = PayloadEnd(c.data, c.pos, code) /\ d.pos # 0
  BY InlineEnds
<1>2. CASE code = NULL_VALUE /\ d.pos = c.pos
  <2>1. Framed(PayloadAt(doc, c.data, c.pos, NULL_VALUE, type))
    BY <1>2, NullFramed
  <2> QED
    BY <1>2, <2>1
<1>3. CASE /\ code # NULL_VALUE /\ code \in {DOCUMENT_EMBEDDED, DOCUMENT_ARRAY}
           /\ d.pos = PayloadEnd(c.data, c.pos, code) /\ d.pos # 0
  <2>1. Class(type) \notin Enums
    BY ClassesDiffer
  <2>2. Matches(type, code)
    BY <1>3, <2>1 DEF Matches
  <2> QED
    BY <1>3, <2>2, LeafFramed
<1> QED
  BY <1>1, <1>2, <1>3

LEMMA DeserializeScalarFramed ==
  ASSUME DInv, DeserializeScalar
  PROVE  Framing(request, stack, pc, caret, call)'
<1> DEFINE class == Class(call.type)
           r == ReadScalar(class, Here, call.code)
           d == r.caret
           v == r.value
<1>1. pc = "call" /\ class \in ScalarClass /\ Return(stack, d, call.wraps, v)
  BY DEF DeserializeScalar, Calling
<1>2. /\ Within(Here) /\ ~Here.error /\ call.type \in Types
      /\ stack = <<>> => call.code = DOCUMENT_ROOT
  BY <1>1, Traced, Arguments
<1>3. call.type # "none" /\ class \notin Enums
  BY <1>1, <1>2, TypesAssumption, ClassesDiffer
<1>4. From(Here, d) /\ (stack = <<>> => d.error)
  <2> HIDE DEF class
  <2>1. From(Here, d)
    BY <1>1, <1>2, ReadScalarFrom
  <2>2. stack = <<>> => d.error
    BY <1>1, <1>2, ScalarAtRoot
  <2> QED
    BY <2>1, <2>2
<1>5. ASSUME ~d.error, NEW doc, Framed(ElementAt(doc, d.data, d.pos))
      PROVE  Framed(PayloadAt(doc, d.data, Here.pos, call.code, call.type))
  <2>1. class = Class(IF Class(call.type) \in Enums THEN Item(call.type) ELSE call.type)
    BY <1>3
  <2>2. d = ReadScalar(class, Here, call.code).caret /\ d.data = Here.data
    BY <1>4 DEF From
  <2>3. Class(call.type) \in ScalarClass \cup Enums
    BY <1>1
  <2> HIDE DEF class, d
  <2> QED
    BY <1>1, <1>2, <1>3, <1>5, <2>1, <2>2, <2>3, ScalarFramed
<1> DEFINE w == call.wraps
<1>6. Return(stack, d, w, v)
  BY <1>1
<1> HIDE DEF d, v, w, class
<1> QED
  BY <1>1, <1>4, <1>5, <1>6, ValueFramed

LEMMA DeserializeInlineDocsFramed ==
  ASSUME DInv, DeserializeInlineDocs
  PROVE  Framing(request, stack, pc, caret, call)'
<1> DEFINE class == Class(call.type)
           r == ReadInline(class, Here, call.code)
           d == r.caret
           v == r.value
           w == call.wraps
<1>1. pc = "call" /\ class \in Inline /\ Return(stack, d, w, v)
  BY DEF DeserializeInlineDocs, Calling
<1>2. /\ Within(Here) /\ ~Here.error /\ call.type \in Types
      /\ stack = <<>> => call.code = DOCUMENT_ROOT
  BY <1>1, Traced, Arguments
<1>3. call.type # "none"
  BY <1>2, TypesAssumption
<1>4. From(Here, d) /\ (stack = <<>> => d.error)
  <2> HIDE DEF class
  <2>1. From(Here, d)
    BY <1>1, <1>2, ReadInlineFrom
  <2>2. stack = <<>> => d.error
    BY <1>1, <1>2, InlineAtRoot
  <2> QED
    BY <2>1, <2>2
<1>5. ASSUME ~d.error, NEW doc, Framed(ElementAt(doc, d.data, d.pos))
      PROVE  Framed(PayloadAt(doc, d.data, Here.pos, call.code, call.type))
  <2>1. d = ReadInline(Class(call.type), Here, call.code).caret /\ d.data = Here.data
    BY <1>4 DEF From
  <2>2. Class(call.type) \in Inline
    BY <1>1
  <2> HIDE DEF class, d
  <2> QED
    BY <1>2, <1>3, <1>5, <2>1, <2>2, InlineFramed
<1> HIDE DEF d, v, w, class
<1> QED
  BY <1>1, <1>4, <1>5, ValueFramed

LEMMA DeserializeEnumFramed ==
  ASSUME DInv, DeserializeEnum
  PROVE  Framing(request, stack, pc, caret, call)'
<1> DEFINE class == Class(Item(call.type))
           r == ReadScalar(class, Here, call.code)
           d == r.caret
           e == SetError(d)
           w == call.wraps
<1>1. /\ pc = "call" /\ Class(call.type) \in Enums
      /\ \/ \E v : Return(stack, d, w, v)
         \/ Return(stack, e, w, Nil)
         \/ Throw
  BY DEF DeserializeEnum, Calling, Fail
<1>2. /\ Within(Here) /\ ~Here.error /\ call.type \in Types
      /\ stack = <<>> => call.code = DOCUMENT_ROOT
  BY <1>1, Traced, Arguments
<1>3. call.type # "none" /\ class \in ScalarClass
  BY <1>1, <1>2, TypesAssumption
<1>4. From(Here, d) /\ (stack = <<>> => d.error)
  <2> HIDE DEF class
  <2>1. From(Here, d)
    BY <1>2, <1>3, ReadScalarFrom
  <2>2. stack = <<>> => d.error
    BY <1>2, <1>3, ScalarAtRoot
  <2> QED
    BY <2>1, <2>2
<1>5. ASSUME ~d.error, NEW doc, Framed(ElementAt(doc, d.data, d.pos))
      PROVE  Framed(PayloadAt(doc, d.data, Here.pos, call.code, call.type))
  <2>1. class = Class(IF Class(call.type) \in Enums THEN Item(call.type) ELSE call.type)
    BY <1>1
  <2>2. d = ReadScalar(class, Here, call.code).caret /\ d.data = Here.data
    BY <1>4 DEF From
  <2>3. Class(call.type) \in ScalarClass \cup Enums
    BY <1>1
  <2> HIDE DEF class, d
  <2> QED
    BY <1>2, <1>3, <1>5, <2>1, <2>2, <2>3, ScalarFramed
<1>6. From(Here, e) /\ e.error
  <2> HIDE DEF r
  <2> QED
    BY <1>4, SetErrorFrom, FromTrans DEF From, Sound
<1> HIDE DEF d, e, w, class
<1>7. ASSUME NEW v, Return(stack, d, w, v)
      PROVE  Framing(request, stack, pc, caret, call)'
  BY <1>1, <1>4, <1>5, <1>7, ValueFramed
<1>8. CASE Return(stack, e, w, Nil)
  BY <1>1, <1>6, <1>8, ErrorFramed
<1>9. CASE Throw
  BY <1>1, <1>9, ThrowFramed
<1> QED
  BY <1>1, <1>7, <1>8, <1>9

LEMMA DeserializeUnknownFramed ==
  ASSUME DInv, DeserializeUnknown
  PROVE  Framing(request, stack, pc, caret, call)'
<1>1. pc = "call" /\ Throw
  BY DEF DeserializeUnknown
<1> QED
  BY <1>1, ThrowFramed

(* The call stands for another on the same payload. *)
LEMMA AgainFramed ==
  ASSUME DInv, pc = "call", NEW STATE t, NEW STATE w,
         \A doc, data, at : Framed(PayloadAt(doc, data, at, call.code, t)) =>
                            Framed(PayloadAt(doc, data, at, call.code, call.type)),
         call' = [call EXCEPT !.type = t, !.wraps = w],
         UNCHANGED <<request, caret, stack, pc>>
  PROVE  Framing(request, stack, pc, caret, call)'
<1>1. /\ Chained(stack, pc) /\ Based(request, stack, pc, caret)
      /\ Going(request, stack, "call", caret, call) /\ IsCall(call)
  BY Traced, Facts
<1>2. call'.type = t /\ call'.code = call.code
  BY <1>1 DEF IsCall
<1>3. Going(request, stack, "call", caret, call')
  BY <1>1, <1>2 DEF Going, Awaits
<1> QED
  BY <1>1, <1>3 DEF Framing

LEMMA DeserializeInterpretedFramed ==
  ASSUME DInv, DeserializeInterpreted
  PROVE  Framing(request, stack, pc, caret, call)'
<1> DEFINE t == Item(call.type)
           w == Append(call.wraps, "Interpreted")
<1>1. /\ pc = "call" /\ UNCHANGED <<request, caret, stack, pc>>
      /\ call' = [call EXCEPT !.type = t, !.wraps = w] /\ Class(call.type) = "Interpreted"
  BY DEF DeserializeInterpreted, Calling
<1>2. call.type # "none" /\ t # "none"
  BY <1>1, Traced, Arguments, TypesAssumption
<1>3. \A doc, data, at : Framed(PayloadAt(doc, data, at, call.code, t)) =>
                         Framed(PayloadAt(doc, data, at, call.code, call.type))
  BY <1>1, <1>2, InterpretedFramed
<1> HIDE DEF t, w
<1> QED
  BY <1>1, <1>3, AgainFramed

LEMMA DeserializeAnyFramed ==
  ASSUME DInv, DeserializeAny
  PROVE  Framing(request, stack, pc, caret, call)'
<1> DEFINE guess == IF call.code = NULL_VALUE THEN "none" ELSE GuessedType(call.code)
           w == Append(call.wraps, "Any")
           a == call.wraps
           v == NullOf("Any")
<1>1. /\ pc = "call" /\ Class(call.type) = "Any"
      /\ \/ guess = "none" /\ Return(stack, Here, a, v)
         \/ /\ guess # "none" /\ call' = [call EXCEPT !.type = guess, !.wraps = w]
            /\ UNCHANGED <<request, caret, stack, pc>>
  BY DEF DeserializeAny, Calling
<1>2. /\ From(Here, Here) /\ call.type # "none"
      /\ stack = <<>> => call.code = DOCUMENT_ROOT
  BY <1>1, Traced, Arguments, TypesAssumption
<1>3. stack = <<>> => guess # "none"
  <2>1. DOCUMENT_ROOT # NULL_VALUE /\ GuessedType(DOCUMENT_ROOT) = "Fields<Any>"
    BY DEF DOCUMENT_ROOT, NULL_VALUE, GuessedType, DOCUMENT_EMBEDDED, DOCUMENT_ARRAY,
           DOUBLE, STRING_CODE, OBJECT_ID, BOOLEAN_CODE, INT_32, TIMESTAMP, INT_64
  <2> QED
    BY <1>2, <2>1
<1>4. guess = IF call.code = NULL_VALUE THEN "none" ELSE GuessedType(call.code)
  OBVIOUS
<1> HIDE DEF guess
<1>5. ASSUME NEW doc, NEW data, NEW at,
             IF guess = "none" THEN Framed(ElementAt(doc, data, at))
             ELSE Framed(PayloadAt(doc, data, at, call.code, guess))
      PROVE  Framed(PayloadAt(doc, data, at, call.code, call.type))
  BY <1>1, <1>2, <1>4, <1>5, AnyFramed
<1> HIDE DEF w, a, v
<1>6. CASE guess = "none" /\ Return(stack, Here, a, v)
  <2> DEFINE d == Here
  <2>1. \A doc : Framed(ElementAt(doc, d.data, d.pos)) =>
           Framed(PayloadAt(doc, d.data, Here.pos, call.code, call.type))
    BY <1>5, <1>6
  <2>2. From(Here, d) /\ Return(stack, d, a, v) /\ stack # <<>>
    BY <1>2, <1>3, <1>6
  <2> HIDE DEF d
  <2> QED
    BY <1>1, <2>1, <2>2, ValueFramed
<1>7. CASE /\ guess # "none" /\ call' = [call EXCEPT !.type = guess, !.wraps = w]
           /\ UNCHANGED <<request, caret, stack, pc>>
  <2>1. \A doc, data, at : Framed(PayloadAt(doc, data, at, call.code, guess)) =>
                           Framed(PayloadAt(doc, data, at, call.code, call.type))
    BY <1>5, <1>7
  <2> QED
    BY <1>1, <1>7, <2>1, AgainFramed
<1> QED
  BY <1>1, <1>6, <1>7

-----------------------------------------------------------------------------
(* Opening a document. *)

LEMMA LinkedMoved ==
  ASSUME NEW f, NEW h, NEW c, NEW g, Joins(f, c, g), Alike(f, h), h.inner = c
  PROVE  Linked(h, g)
<1>1. StartOf(h) = StartOf(f)
  BY DEF Alike, StartOf
<1> QED
  BY <1>1, Zenon DEF Linked, Joins, Alike

(* A frame on top of one whose caret is moved to c. *)
Under(b, c, f, q) ==
  b # <<>> => /\ c.data = b[Len(b)].inner.data
              /\ IF q = "polymorphs" THEN Follows(b[Len(b)], c) ELSE Joins(b[Len(b)], c, f)

Bottom(r, b, f, q, x) ==
  b = <<>> => IF q = "polymorphs" THEN x.error \/ Framed(Root(r))
              ELSE Framed(StartOf(f)) => Framed(Root(r))

LEMMA ChainedOpen ==
  ASSUME NEW b, IsStack(b), NEW p, Chained(b, p), p # "polymorphs",
         NEW c, Sound(c), NEW f, IsFrame(f), f.type # "none", NEW q,
         Under(b, c, f, q), NEW r, NEW x, Based(r, b, p, x),
         NEW y, b # <<>> => y = x, Bottom(r, b, f, q, y),
         NEW u, OpenedOn(b, c, f, u)
  PROVE  Chained(u, q) /\ Based(r, u, q, y) /\ u # <<>> /\ u[Len(u)] = f
<1> DEFINE s == IF b = <<>> THEN b ELSE [b EXCEPT ![Len(b)].inner = c]
<1>1. PushOn(s, f, u)
  BY DEF OpenedOn, PushOn
<1>2. /\ IsStack(s) /\ Chained(s, p)
      /\ s # <<>> => /\ IF q = "polymorphs" THEN Resumes(s[Len(s)]) ELSE Linked(s[Len(s)], f)
                     /\ Based(r, s, p, y)
      /\ s = <<>> => b = <<>>
  <2>1. CASE b = <<>>
    BY <2>1
  <2>2. CASE b # <<>>
    <3>1. MoveOn(b, c, s)
      BY <2>2 DEF MoveOn
    <3> HIDE DEF s
    <3>2. /\ IsStack(s) /\ s # <<>> /\ Chained(s, p)
          /\ \A r1, c1 : Based(r1, b, p, c1) => Based(r1, s, p, c1)
          /\ s[Len(s)].inner = c /\ Alike(b[Len(b)], s[Len(s)])
      BY <2>2, <3>1, ChainedMove DEF Under
    <3>3. q = "polymorphs" => Resumes(s[Len(s)])
      BY <2>2, <3>2, ResumesMoved DEF Under
    <3>4. q # "polymorphs" => Linked(s[Len(s)], f)
      BY <2>2, <3>2, LinkedMoved DEF Under
    <3> QED
      BY <2>2, <3>2, <3>3, <3>4
  <2> QED
    BY <2>1, <2>2
<1> HIDE DEF s
<1>3. /\ Chained(u, q)
      /\ \A r1, c1 : ( /\ s # <<>> => Based(r1, s, p, c1)
                       /\ s = <<>> => IF q = "polymorphs" THEN c1.error \/ Framed(Root(r1))
                                      ELSE Framed(StartOf(f)) => Framed(Root(r1)) )
                     => Based(r1, u, q, c1)
  BY <1>1, <1>2, ChainedPush
<1>4. Based(r, u, q, y)
  BY <1>2, <1>3 DEF Bottom
<1>5. u # <<>> /\ u[Len(u)] = f
  BY <1>1, <1>2, PushTop
<1> QED
  BY <1>3, <1>4, <1>5

(* A nested document, and what comes after it. *)
LEMMA OpenedFramed ==
  ASSUME NEW c, Within(c), ~c.error, NEW size, size = ReadInt32(c),
         NEW n \in Int, n = size.value - 4, n >= 0, n <= Left(size.caret),
         NEW data, data = CurrBytes(size.caret, n), Len(data) = n,
         NEW code \in {DOCUMENT_ROOT, DOCUMENT_EMBEDDED, DOCUMENT_ARRAY},
         NEW type, type # "none", Class(type) \in Compound,
         Framed(ElementAt(type, data, 0)),
         NEW doc, \/ doc = "none"
                  \/ Framed(ElementAt(doc, size.caret.data, size.caret.pos + Len(data)))
  PROVE  Framed(PayloadAt(doc, c.data, c.pos, code, type))
<1> DEFINE end == c.pos + 4 + n
<1>1. /\ PayloadEnd(c.data, c.pos, DOCUMENT_EMBEDDED) = end /\ end # 0 /\ c.pos \in Nat
      /\ size.caret.pos = c.pos + 4 /\ size.caret.data = c.data
      /\ data = SubSeq(c.data, c.pos + 5, end)
  BY DocumentEnds
<1>2. size.caret.pos + Len(data) = end
  BY <1>1
<1> HIDE DEF end
<1> QED
  BY <1>1, <1>2, DocumentFramed

LEMMA OpenCompoundFramed ==
  ASSUME DInv, OpenCompound
  PROVE  Framing(request, stack, pc, caret, call)'
<1> DEFINE t == call.type
           size == ReadInt32(Here)
           c == size.caret
           n == size.value - 4
           d == CurrBytes(c, n)
           f == NewFrame(d)
           v == NullOf(Class(t))
           h == Here
           w == call.wraps
           e == SetError(Here)
           g == SetError(c)
           u == Append(IF stack = <<>> THEN stack ELSE [stack EXCEPT ![Len(stack)].inner = c], f)
<1>1. pc = "call" /\ Class(t) \in Compound
  BY DEF OpenCompound, Calling
<1>2. \/ call.code = NULL_VALUE /\ Return(stack, h, w, v)
      \/ Return(stack, e, w, Nil)
      \/ Return(stack, g, w, Nil)
      \/ Throw
      \/ /\ call.code \in {DOCUMENT_ROOT, DOCUMENT_EMBEDDED, DOCUMENT_ARRAY}
         /\ n \in 0 .. Left(c) /\ caret' = (IF stack = <<>> THEN c ELSE caret)
         /\ stack' = u /\ pc' = "iterate" /\ UNCHANGED <<request, call>>
  BY Zenon DEF OpenCompound, Fail
<1>3. /\ Within(Here) /\ ~Here.error /\ t \in Types /\ From(Here, Here) /\ Here \in CaretState
      /\ stack = <<>> => call.code = DOCUMENT_ROOT
  BY <1>1, Traced, Arguments, WithinSound
<1>4. /\ size.value \in Int /\ Within(c) /\ Sound(c) /\ c \in CaretState /\ Left(c) \in Nat
      /\ From(Here, c)
  BY <1>3, Int32From, WithinSound
<1>5. From(Here, e) /\ e.error /\ From(Here, g) /\ g.error
  BY <1>3, <1>4, SetErrorFrom, FromTrans
<1>6. t # "none"
  BY <1>3, TypesAssumption
<1> HIDE DEF size, c, v, e, g, h, w
<1>7. CASE call.code = NULL_VALUE /\ Return(stack, h, w, v)
  <2>1. stack # <<>>
    BY <1>3, <1>7 DEF DOCUMENT_ROOT, NULL_VALUE
  <2>2. ASSUME NEW doc, Framed(ElementAt(doc, h.data, h.pos))
        PROVE  Framed(PayloadAt(doc, h.data, Here.pos, call.code, call.type))
    <3>1. Framed(PayloadAt(doc, h.data, h.pos, NULL_VALUE, t))
      BY <1>6, <2>2, NullFramed
    <3> QED
      BY <1>7, <3>1 DEF h
  <2>3. From(Here, h)
    BY <1>3 DEF h
  <2> QED
    BY <1>1, <1>7, <2>1, <2>2, <2>3, ValueFramed
<1>8. CASE Return(stack, e, w, Nil)
  BY <1>1, <1>5, <1>8, ErrorFramed
<1>9. CASE Return(stack, g, w, Nil)
  BY <1>1, <1>5, <1>9, ErrorFramed
<1>10. CASE Throw
  BY <1>1, <1>10, ThrowFramed
<1>11. ASSUME call.code \in {DOCUMENT_ROOT, DOCUMENT_EMBEDDED, DOCUMENT_ARRAY},
              n \in 0 .. Left(c), caret' = (IF stack = <<>> THEN c ELSE caret),
              stack' = u, pc' = "iterate", UNCHANGED <<request, call>>
       PROVE  Framing(request, stack, pc, caret, call)'
  <2>1. n \in Int /\ n \in Nat /\ n >= 0 /\ n <= Left(c) /\ n = size.value - 4
    BY <1>4, <1>11
  <2> HIDE DEF n
  <2>2. d \in Seq(BsonByte) /\ Len(d) = n
    BY <1>4, <2>1, CurrBytesType
  <2>3. d = CurrBytes(size.caret, n) /\ size = ReadInt32(Here) /\ c = size.caret
    BY DEF size, c
  <2> HIDE DEF d
  <2>4. /\ IsFrame(f) /\ f.type # "none" /\ f.inner = Caret(d) /\ f.inner.data = d
        /\ ~f.inner.error
    BY <1>3, <2>2, NewFrameOK
  <2>5. f.type = t /\ f.inner.pos = 0
    BY <2>2, <2>4, CaretWithin DEF NewFrame
  <2> HIDE DEF f
  <2>6. StartOf(f) = ElementAt(t, d, 0) /\ Resumes(f)
    BY <2>4, <2>5 DEF StartOf, Resumes, Follows
  <2>7. ASSUME NEW doc, Framed(StartOf(f)),
               doc = "none" \/ Framed(ElementAt(doc, c.data, c.pos + Len(f.inner.data)))
        PROVE  Framed(PayloadAt(doc, Here.data, Here.pos, call.code, t))
    <3>1. Framed(ElementAt(t, d, 0))
      BY <2>6, <2>7
    <3>2. doc = "none" \/ Framed(ElementAt(doc, size.caret.data, size.caret.pos + Len(d)))
      BY <2>3, <2>4, <2>7
    <3> HIDE DEF t
    <3> QED
      BY <1>1, <1>3, <1>6, <1>11, <2>1, <2>2, <2>3, <3>1, <3>2, OpenedFramed
  <2>8. OpenedOn(stack, c, f, u)
    BY DEF OpenedOn
  <2> HIDE DEF u
  <2>9. stack # <<>> => c.data = stack[Len(stack)].inner.data /\ Joins(stack[Len(stack)], c, f)
    <3> SUFFICES ASSUME stack # <<>> PROVE c.data = Top.inner.data /\ Joins(Top, c, f)
      BY Traced
    <3>1. Here = Top.inner /\ Awaits(Top, call)
      BY <1>1, Traced DEF Going
    <3>2. c.data = Top.inner.data
      BY <1>4, <3>1 DEF From
    <3>3. /\ Top.type # "none" /\ Framed(StartOf(f))
          /\ Framed(ElementAt(Top.type, c.data, c.pos + Len(f.inner.data)))
          => Framed(StartOf(Top))
      BY <2>7, <3>1 DEF Awaits
    <3> QED
      BY <3>2, <3>3 DEF Joins
  <2>10. stack = <<>> => (Framed(StartOf(f)) => Framed(Root(request)))
    <3> SUFFICES ASSUME stack = <<>>, Framed(StartOf(f)) PROVE Framed(Root(request))
      OBVIOUS
    <3>1. Here = caret /\ (Framed(PayloadAt("none", caret.data, caret.pos, call.code, t))
                           => Framed(Root(request)))
      BY <1>1, Traced DEF Going
    <3> QED
      BY <2>7, <3>1
  <2>11. IsStack(stack) /\ Chained(stack, "call") /\ Based(request, stack, "call", caret)
    BY <1>1, Traced
  <2>12. /\ Chained(u, "iterate") /\ Based(request, u, "iterate", caret') /\ u # <<>>
         /\ u[Len(u)] = f
    <3>1. "iterate" # "polymorphs" /\ "call" # "polymorphs" /\ (stack # <<>> => caret' = caret)
      BY <1>11
    <3> DEFINE x == caret
               y == caret'
               r == request
    <3>2. /\ IsStack(stack) /\ Chained(stack, "call") /\ Based(r, stack, "call", x)
          /\ stack # <<>> => y = x
          /\ stack = <<>> => (Framed(StartOf(f)) => Framed(Root(r)))
      BY <2>10, <2>11, <3>1
    <3> HIDE DEF x, y, r
    <3>3. Under(stack, c, f, "iterate") /\ Bottom(r, stack, f, "iterate", y)
      BY <2>9, <3>2 DEF Under, Bottom
    <3>4. Chained(u, "iterate") /\ Based(r, u, "iterate", y) /\ u # <<>> /\ u[Len(u)] = f
      BY <1>4, <2>4, <2>8, <3>1, <3>2, <3>3, ChainedOpen
    <3> QED
      BY <3>4 DEF y, r
  <2>13. Going(request, u, "iterate", caret', call)
    BY <2>6, <2>12 DEF Going
  <2> QED
    BY <1>11, <2>12, <2>13 DEF Framing
<1> HIDE DEF n, d, f, u
<1> QED
  BY <1>2, <1>7, <1>8, <1>9, <1>10, <1>11

-----------------------------------------------------------------------------
(* The loops. *)

LEMMA KeyFailsFramed ==
  ASSUME DInv, KeyFails
  PROVE  Framing(request, stack, pc, caret, call)'
<1> DEFINE c == Element.caret
<1>1. InLoop /\ FailInside(c)
  BY DEF KeyFails
<1>2. c.pos \in Int /\ stack # <<>> /\ Top.type # "none"
  BY <1>1, Traced, LoopFacts, InFrame
<1> HIDE DEF c
<1> QED
  BY <1>1, <1>2, FailInsideFramed

LEMMA CloseFailsFramed ==
  ASSUME DInv, CloseFails
  PROVE  Framing(request, stack, pc, caret, call)'
<1> DEFINE c == Top.inner
<1>1. pc = "iterate" /\ FailInside(c)
  BY DEF CloseFails
<1>2. stack # <<>> /\ Top.type # "none" /\ c.pos \in Int
  BY <1>1, Traced, InFrame, SoundParts
<1> HIDE DEF c
<1> QED
  BY <1>1, <1>2, FailInsideFramed

(* The element whose key has been read. *)
LEMMA ElementLeads ==
  ASSUME DInv, InLoop, ~Element.caret.error
  PROVE  /\ Element.caret.data = Top.inner.data /\ Within(Element.caret)
         /\ Element.code \in BsonByte /\ Element.caret.pos >= 1
         /\ Framed(PayloadAt(Top.type, Top.inner.data, Element.caret.pos, Element.code,
                             ElementType(Top.type, Element.key)))
            => Framed(StartOf(Top))
<1> DEFINE c == Top.inner
           e == ReadKey(c)
<1>1. /\ pc = "iterate" /\ Within(c) /\ ~c.error /\ Within(Element.caret)
      /\ Element.code \in BsonByte /\ Element.caret.data = c.data
  BY Traced, LoopFacts
<1>2. Left(c) > 1
  BY DEF InLoop
<1>3. stack # <<>> /\ Resumes(Top) /\ Top.type # "none"
  BY <1>1, Traced, InFrame DEF Going
<1>4. e = Element
  BY DEF Element
<1> HIDE DEF c, e
<1>5. /\ e.caret.pos = AfterNul(c.data, c.pos + 1) /\ e.caret.pos >= c.pos + 2
      /\ e.code = c.data[c.pos + 1]
      /\ e.key = SubSeq(c.data, c.pos + 2, e.caret.pos - 1)
  <2>1. e = ReadKey(c) /\ ~ReadKey(c).caret.error
    BY <1>4 DEF e
  <2> QED
    BY <1>1, <1>2, <2>1, KeyEnds
<1>6. /\ c.pos \in Nat /\ c.data \in Seq(BsonByte) /\ Left(c) = Len(c.data) - c.pos
      /\ Len(c.data) \in Nat /\ e.caret.pos \in Int
  BY <1>1, <1>4, WithinSound, SoundParts
<1>7. c.pos < Len(c.data) - 1 /\ e.caret.pos # 0 /\ e.caret.pos >= 1
  BY <1>2, <1>5, <1>6
<1>8. ASSUME Framed(PayloadAt(Top.type, c.data, e.caret.pos, e.code, ElementType(Top.type, e.key)))
      PROVE  Framed(StartOf(Top))
  <2> DEFINE start == e.caret.pos
             at == c.pos
             data == c.data
             key == e.key
             doc == Top.type
  <2>1. /\ data \in Seq(BsonByte) /\ at \in Nat /\ at < Len(data) - 1 /\ start \in Int
        /\ start = AfterNul(data, at + 1) /\ start # 0
        /\ key = SubSeq(data, at + 2, start - 1)
        /\ Framed(PayloadAt(doc, data, start, data[at + 1], ElementType(doc, key)))
    BY <1>5, <1>6, <1>7, <1>8
  <2> HIDE DEF start, at, data, key, doc
  <2>2. Framed(ElementAt(doc, data, at))
    BY <2>1, AtAnElement
  <2>3. Framed(ElementAt(Top.type, Top.inner.data, Top.inner.pos))
    BY <2>2 DEF doc, data, at, c
  <2> QED
    BY <1>1, <1>3, <2>3 DEF Resumes, Follows, c
<1> QED
  BY <1>1, <1>4, <1>7, <1>8 DEF c

LEMMA DeserializeFramed ==
  ASSUME DInv, InLoop, ~Element.caret.error, NEW STATE type, NEW STATE key,
         type = ElementType(Top.type, Element.key),
         key \in Seq(BsonByte), Deserialize(type, key)
  PROVE  Framing(request, stack, pc, caret, call)'
<1> DEFINE e == Element.caret
           n == Len(stack)
           f == [stack[n] EXCEPT !.inner = e, !.key = key]
           t == [stack EXCEPT ![n].inner = e, ![n].key = key]
           a == [type |-> type, code |-> Element.code, wraps |-> <<>>]
<1>1. pc = "iterate" /\ Sound(e) /\ e.data = Top.inner.data
  BY Traced, LoopFacts
<1>2. /\ call' = a /\ stack' = t /\ pc' = "call" /\ request' = request /\ caret' = caret
  BY DEF Deserialize
<1>3. /\ stack # <<>> /\ IsStack(stack) /\ IsFrame(Top) /\ Top = stack[n]
      /\ Chained(stack, "iterate") /\ Based(request, stack, "iterate", caret)
  BY <1>1, Traced, InFrame
<1>4. t = [stack EXCEPT ![n] = f]
  BY TwoFields
<1>5. a.type = type /\ a.code = Element.code
  OBVIOUS
<1>6. Framed(PayloadAt(Top.type, Top.inner.data, e.pos, Element.code, type))
      => Framed(StartOf(Top))
  BY ElementLeads
<1> HIDE DEF e, a
<1>7. IsFrame(f) /\ f.inner = e /\ f.type = Top.type
  <2> HIDE DEF f
  <2>1. CallFrom(Top, e, key, f)
    BY <1>3 DEF f, CallFrom
  <2>2. Moved(Top, e, f)
    BY <1>1, <1>3, <2>1, FrameCall, Zenon
  <2> QED
    BY <2>2 DEF Moved
<1> HIDE DEF f
<1>8. PutOn(stack, f, t)
  BY <1>4 DEF PutOn
<1> HIDE DEF t
<1>9. Alike(stack[Len(stack)], f)
  BY <1>1, <1>3, <1>7 DEF Alike
<1>10. /\ Chained(t, "call")
       /\ \A r, c : Based(r, stack, "iterate", c) => Based(r, t, "call", c)
  <2>1. ("iterate" = "polymorphs") <=> ("call" = "polymorphs")
    OBVIOUS
  <2> QED
    BY <1>3, <1>7, <1>8, <1>9, <2>1, ChainedPut
<1>11. t # <<>> /\ t[Len(t)] = f
  BY <1>3, <1>7, <1>8, PutTop
<1>12. Awaits(f, a)
  <2>1. StartOf(f) = StartOf(Top)
    BY <1>1, <1>7 DEF StartOf
  <2> QED
    BY <1>1, <1>5, <1>6, <1>7, <2>1 DEF Awaits
<1>13. Going(request, t, "call", caret, a)
  BY <1>11, <1>12 DEF Going
<1> QED
  BY <1>2, <1>3, <1>10, <1>13 DEF Framing

LEMMA SkippingFramed ==
  ASSUME DInv, InLoop, ~Element.caret.error, ElementType(Top.type, Element.key) = "none",
         NEW STATE q, q \in Seq(PolymorphData),
         \A i \in DOMAIN q : IsPolymorph(Top.type, q[i].key), Skipping(q)
  PROVE  Framing(request, stack, pc, caret, call)'
<1> DEFINE start == Element.caret
           code == Element.code
           e == SkipElement(start, code)
           n == Len(stack)
           f == [stack[n] EXCEPT !.inner = e, !.polymorphs = q]
           t == [stack EXCEPT ![n].inner = e, ![n].polymorphs = q]
<1>1. /\ code \in BsonByte /\ Within(start) /\ start.pos >= 1 /\ ~start.error
      /\ start.data = Top.inner.data /\ pc = "iterate"
  BY Traced, LoopFacts, ElementLeads
<1>2. From(start, e) /\ Sound(e) /\ e.pos \in Int /\ e.data = Top.inner.data
      /\ e.data \in Seq(BsonByte)
  BY <1>1, SkipFrom, SoundParts DEF From
<1>3. \/ e.error /\ FailInside(e)
      \/ ~e.error /\ stack' = t /\ UNCHANGED <<request, caret, call, pc>>
  BY Zenon DEF Skipping
<1>4. /\ stack # <<>> /\ IsStack(stack) /\ IsFrame(Top) /\ Top = stack[n] /\ Top.type # "none"
      /\ Chained(stack, "iterate") /\ Based(request, stack, "iterate", caret)
  BY <1>1, Traced, InFrame
<1>5. t = [stack EXCEPT ![n] = f]
  BY TwoFields
<1>6. Framed(PayloadAt(Top.type, Top.inner.data, start.pos, code, "none"))
      => Framed(StartOf(Top))
  BY ElementLeads
<1>7. ~e.error => e.pos = EndOf(start.data, start.pos, code) /\ e.pos >= 1
  BY <1>1, SkipEnds
<1> HIDE DEF e, start, code
<1>8. CASE FailInside(e)
  BY <1>2, <1>4, <1>8, FailInsideFramed
<1>9. ASSUME ~e.error, stack' = t, UNCHANGED <<request, caret, call, pc>>
      PROVE  Framing(request, stack, pc, caret, call)'
  <2>1. IsFrame(f) /\ f.inner = e /\ f.type = Top.type
    <3> HIDE DEF f
    <3>1. SkipTo(Top, e, q, f)
      BY <1>4 DEF f, SkipTo
    <3>2. \A i \in DOMAIN q : Top.type # "none" /\ IsPolymorph(Top.type, q[i].key)
      BY <1>4
    <3>3. Moved(Top, e, f)
      BY <1>2, <1>4, <3>1, <3>2, FrameSkip, Zenon
    <3> QED
      BY <3>3 DEF Moved
  <2> HIDE DEF f
  <2>2. PutOn(stack, f, t)
    BY <1>5 DEF PutOn
  <2> HIDE DEF t
  <2>3. Alike(stack[Len(stack)], f)
    BY <1>2, <1>4, <2>1 DEF Alike
  <2>4. /\ Chained(t, "iterate")
        /\ \A r, c : Based(r, stack, "iterate", c) => Based(r, t, "iterate", c)
    BY <1>4, <2>1, <2>2, <2>3, ChainedPut
  <2>5. t # <<>> /\ t[Len(t)] = f
    BY <1>4, <2>1, <2>2, PutTop
  <2>6. ASSUME Framed(ElementAt(Top.type, e.data, e.pos))
        PROVE  Framed(StartOf(Top))
    <3> DEFINE data == Top.inner.data
               doc == Top.type
               end == e.pos
               i == start.pos
    <3>1. /\ data \in Seq(BsonByte) /\ end \in Int /\ end >= 1 /\ end \in Nat
          /\ Framed(ElementAt(doc, data, end)) /\ end = EndOf(data, i, code)
      BY <1>1, <1>2, <1>7, <1>9, <2>6
    <3> HIDE DEF data, doc, end, i
    <3>2. end < Len(data) /\ Len(data) \in Nat
      BY <3>1, Outside, LenProperties
    <3>3. PayloadEnd(data, i, code) = Fitting(data, end)
      BY <3>1, EndFits
    <3>4. end = PayloadEnd(data, i, code) /\ end # 0
      BY <3>1, <3>2, <3>3 DEF Fitting
    <3>5. Framed(PayloadAt(doc, data, i, code, "none"))
      BY <3>1, <3>4, SkippedFramed
    <3> QED
      BY <1>6, <3>5 DEF doc, data, i
  <2>7. Follows(Top, e)
    BY <2>6 DEF Follows
  <2>8. Resumes(f)
    BY <1>4, <2>1, <2>3, <2>7, ResumesMoved
  <2>9. Going(request, t, "iterate", caret, call)
    BY <2>5, <2>8 DEF Going
  <2> QED
    BY <1>1, <1>4, <1>9, <2>4, <2>9 DEF Framing
<1> HIDE DEF f, t
<1> QED
  BY <1>3, <1>8, <1>9

(* What an element is read into. *)
LEMMA ElementTypes ==
  ASSUME NEW t \in Types, NEW key
  PROVE  /\ Class(t) # "Object" => ElementType(t, key) = Item(t)
         /\ (/\ Class(t) = "Object" /\ IsPolymorph(t, key)) => ElementType(t, key) = "none"
         /\ (/\ Class(t) = "Object"
             /\ ~ \E i \in DOMAIN Fields(t) : Fields(t)[i].name = key)
            => ElementType(t, key) = "none"
         /\ (/\ Class(t) = "Object"
             /\ \E i \in DOMAIN Fields(t) : Fields(t)[i].name = key
             /\ FieldOf(t, key).select = "none")
            => ElementType(t, key) = FieldOf(t, key).type
<1> DEFINE k == CHOOSE i \in DOMAIN Fields(t) : Fields(t)[i].name = key
<1>1. FieldOf(t, key) = Fields(t)[k]
  BY DEF FieldOf
<1>2. \A i \in DOMAIN Fields(t) : Fields(t)[i].name = key =>
        k \in DOMAIN Fields(t) /\ Fields(t)[k].name = key
  OBVIOUS
<1>3. \A i, j \in DOMAIN Fields(t) : Fields(t)[i].name = Fields(t)[j].name => i = j
  BY TypesAssumption
<1> HIDE DEF k
<1>4. Class(t) # "Object" => ElementType(t, key) = Item(t)
  BY DEF ElementType
<1>5. ASSUME Class(t) = "Object", ~ \E i \in DOMAIN Fields(t) :
               Fields(t)[i].name = key /\ Fields(t)[i].select = "none"
      PROVE  ElementType(t, key) = "none"
  BY <1>5 DEF ElementType
<1>6. ASSUME NEW i \in DOMAIN Fields(t), Fields(t)[i].name = key
      PROVE  FieldOf(t, key) = Fields(t)[i]
  BY <1>1, <1>2, <1>3, <1>6
<1>7. ASSUME Class(t) = "Object", \E i \in DOMAIN Fields(t) : Fields(t)[i].name = key,
             FieldOf(t, key).select = "none"
      PROVE  ElementType(t, key) = FieldOf(t, key).type
  BY <1>6, <1>7 DEF ElementType
<1>8. IsPolymorph(t, key) => ~ \E i \in DOMAIN Fields(t) :
               Fields(t)[i].name = key /\ Fields(t)[i].select = "none"
  BY <1>6 DEF IsPolymorph
<1> QED
  BY <1>4, <1>5, <1>7, <1>8

LEMMA CollectionElementFramed ==
  ASSUME DInv, CollectionElement
  PROVE  Framing(request, stack, pc, caret, call)'
<1> DEFINE c == Element.caret
           t == Item(Top.type)
           k == Element.key
<1>1. /\ AtElement("Collection") /\ Class(Top.type) = "Collection"
      /\ Deserialize(t, k) \/ FailInside(c)
  BY DEF CollectionElement, AtElement, InClass
<1>2. /\ InLoop /\ ~Element.caret.error /\ k \in Seq(BsonByte)
      /\ c.pos \in Int /\ stack # <<>> /\ Top.type # "none" /\ Top.type \in Types
  BY <1>1, Traced, AtElementFacts
<1>3. t = ElementType(Top.type, Element.key)
  BY <1>1, <1>2, ElementTypes
<1> HIDE DEF c, t, k
<1>4. CASE Deserialize(t, k)
  BY <1>2, <1>3, <1>4, DeserializeFramed
<1>5. CASE FailInside(c)
  BY <1>2, <1>5, FailInsideFramed
<1> QED
  BY <1>1, <1>4, <1>5

LEMMA MapElementFramed ==
  ASSUME DInv, MapElement
  PROVE  Framing(request, stack, pc, caret, call)'
<1> DEFINE t == Item(Top.type)
           k == Element.key
<1>1. AtElement("Map") /\ Class(Top.type) = "Map" /\ Deserialize(t, k)
  BY DEF MapElement, AtElement, InClass
<1>2. InLoop /\ ~Element.caret.error /\ k \in Seq(BsonByte) /\ Top.type \in Types
  BY <1>1, Traced, AtElementFacts
<1>3. t = ElementType(Top.type, Element.key)
  BY <1>1, <1>2, ElementTypes
<1> HIDE DEF t, k
<1> QED
  BY <1>1, <1>2, <1>3, DeserializeFramed

LEMMA FieldElementFramed ==
  ASSUME DInv, FieldElement
  PROVE  Framing(request, stack, pc, caret, call)'
<1> DEFINE t == FieldOf(Top.type, Element.key).type
           k == Element.key
<1>1. /\ AtElement("Object") /\ Class(Top.type) = "Object" /\ IsField(Element.key)
      /\ FieldOf(Top.type, Element.key).select = "none" /\ Deserialize(t, k)
  BY DEF FieldElement, AtElement, InClass
<1>2. InLoop /\ ~Element.caret.error /\ k \in Seq(BsonByte) /\ Top.type \in Types
  BY <1>1, Traced, AtElementFacts
<1>3. t = ElementType(Top.type, Element.key)
  BY <1>1, <1>2, ElementTypes DEF IsField
<1> HIDE DEF t, k
<1> QED
  BY <1>1, <1>2, <1>3, DeserializeFramed

LEMMA PolymorphElementFramed ==
  ASSUME DInv, PolymorphElement
  PROVE  Framing(request, stack, pc, caret, call)'
<1>1. PICK behind \in Behind : Skipping(Append(Top.polymorphs, SetAside(behind)))
  BY DEF PolymorphElement
<1> DEFINE q == Append(Top.polymorphs, SetAside(behind))
           e == SkipElement(Element.caret, Element.code)
<1>2. /\ AtElement("Object") /\ Class(Top.type) = "Object" /\ IsField(Element.key)
      /\ FieldOf(Top.type, Element.key).select # "none" /\ Skipping(q)
  BY <1>1 DEF PolymorphElement, AtElement, InClass
<1>3. InLoop /\ ~Element.caret.error /\ Top.type \in Types
  BY <1>2, Traced, AtElementFacts
<1>4. CASE e.error
  <2> HIDE DEF q
  <2>1. FailInside(e) /\ e.pos \in Int /\ stack # <<>> /\ Top.type # "none"
    BY <1>2, <1>3, <1>4, Traced, SkippingFails
  <2> HIDE DEF e
  <2> QED
    BY <2>1, FailInsideFramed
<1>5. CASE ~e.error
  <2>1. q \in Seq(PolymorphData) /\ \A i \in DOMAIN q : IsPolymorph(Top.type, q[i].key)
    BY <1>2, <1>5, Traced, SetAsideAlso
  <2>2. ElementType(Top.type, Element.key) = "none"
    BY <1>2, <1>3, ElementTypes DEF IsField, IsPolymorph
  <2> HIDE DEF q
  <2> QED
    BY <1>2, <1>3, <2>1, <2>2, SkippingFramed
<1> QED
  BY <1>4, <1>5

LEMMA UnknownElementFramed ==
  ASSUME DInv, UnknownElement
  PROVE  Framing(request, stack, pc, caret, call)'
<1> DEFINE q == Top.polymorphs
           c == Element.caret
<1>1. /\ AtElement("Object") /\ Class(Top.type) = "Object" /\ ~IsField(Element.key)
      /\ Skipping(q) \/ FailInside(c)
  BY DEF UnknownElement, AtElement, InClass
<1>2. /\ InLoop /\ ~Element.caret.error /\ q \in Seq(PolymorphData)
      /\ \A i \in DOMAIN q : IsPolymorph(Top.type, q[i].key)
      /\ c.pos \in Int /\ stack # <<>> /\ Top.type # "none" /\ Top.type \in Types
  BY <1>1, Traced, AtElementFacts
<1>3. ElementType(Top.type, Element.key) = "none"
  BY <1>1, <1>2, ElementTypes DEF IsField
<1> HIDE DEF q, c
<1>4. CASE Skipping(q)
  BY <1>2, <1>3, <1>4, SkippingFramed
<1>5. CASE FailInside(c)
  BY <1>2, <1>5, FailInsideFramed
<1> QED
  BY <1>1, <1>4, <1>5

-----------------------------------------------------------------------------
(* The end of a document, and what the caller does with its value. *)

(* A document that is closed without an error ends with its terminator. *)
LEMMA ClosedAtTheEnd ==
  ASSUME IInv, pc = "iterate", AtTerminator, NEW STATE x, Sound(x), ~Closed(x).error
  PROVE  /\ Top.inner.pos = Len(Top.inner.data) - 1
         /\ Top.inner.data[Len(Top.inner.data)] = 0 /\ ~Top.inner.error
<1> DEFINE c == Top.inner
           end == Inc(c, 1)
<1>1. /\ ~c.error /\ c.data[c.pos + 1] = 0
  BY DEF AtTerminator, AtChar, CanContinue, CurrByte
<1>2. Sound(c) /\ c \in CaretState /\ c.pos \in Int /\ Len(c.data) \in Nat
  BY InFrame, SoundParts DEF Sound
<1>3. end.pos \in Nat /\ DataSize(end) = Len(c.data)
  BY AtEnd
<1>4. end.pos = c.pos + 1
  BY <1>2, IncState
<1>5. Closed(x) = IF end.pos # DataSize(end) THEN Inc(SetError(Inc(x, end.pos)), end.pos)
                  ELSE Inc(x, end.pos)
  BY DEF Closed
<1> HIDE DEF end, c
<1>6. end.pos = DataSize(end)
  <2> SUFFICES ASSUME end.pos # DataSize(end) PROVE FALSE
    OBVIOUS
  <2> DEFINE g == SetError(Inc(x, end.pos))
             n == end.pos
  <2>1. From(x, g) /\ g.error
    BY <1>3, ErrorAfter
  <2>2. Closed(x) = Inc(g, n) /\ n \in Int
    BY <1>3, <1>5
  <2> HIDE DEF g, n
  <2>3. g \in CaretState
    BY <2>1 DEF From, Sound
  <2>4. Inc(g, n).error = g.error
    BY <2>1, <2>2, <2>3, IncFrom, Zenon
  <2> QED
    BY <2>1, <2>2, <2>4
<1>7. c.pos = Len(c.data) - 1 /\ c.pos + 1 = Len(c.data)
  BY <1>2, <1>3, <1>4, <1>6
<1> QED
  BY <1>1, <1>7 DEF c

(* What closing a document shows of it. *)
LEMMA ClosedShows ==
  ASSUME DInv, pc = "iterate", AtTerminator, NEW STATE x, Sound(x)
  PROVE  Closed(x).error \/ Framed(StartOf(Top))
<1> SUFFICES ASSUME ~Closed(x).error PROVE Framed(StartOf(Top))
  OBVIOUS
<1>1. /\ Top.inner.pos = Len(Top.inner.data) - 1
      /\ Top.inner.data[Len(Top.inner.data)] = 0 /\ ~Top.inner.error
  BY Traced, ClosedAtTheEnd
<1>2. stack # <<>> /\ Top.type # "none" /\ Resumes(Top)
  BY Traced, InFrame DEF Going
<1>3. Framed(ElementAt(Top.type, Top.inner.data, Top.inner.pos))
  BY <1>1, AtTheEnd
<1> QED
  BY <1>1, <1>2, <1>3 DEF Resumes, Follows

LEMMA CloseFramed ==
  ASSUME DInv, Close
  PROVE  Framing(request, stack, pc, caret, call)'
<1> DEFINE b == Below(stack)
           x == CaretOf(b)
           c == Closed(x)
           g == [Top EXCEPT !.inner = Inc(Top.inner, 1)]
           w == Top.wraps
           v == Value(Class(Top.type), <<>>, Top.items)
           u == Append(IF b = <<>> THEN b ELSE [b EXCEPT ![Len(b)].inner = c], g)
<1>1. /\ pc = "iterate" /\ AtTerminator
      /\ \/ Return(b, c, w, v)
         \/ /\ caret' = IF b = <<>> THEN c ELSE caret
            /\ stack' = u /\ pc' = "polymorphs" /\ UNCHANGED <<request, call>>
  BY DEF Close
<1>2. stack # <<>> /\ Top.type # "none" /\ IsFrame(Top) /\ IInv
  BY <1>1, Traced, InFrame
<1>3. /\ IsStack(b) /\ Chained(b, "returned") /\ Based(request, b, "returned", caret)
      /\ Sound(x)
      /\ b # <<>> => x = b[Len(b)].inner /\ Linked(b[Len(b)], Top)
      /\ b = <<>> => x = caret /\ (Framed(StartOf(Top)) => Framed(Root(request)))
  BY <1>1, <1>2, PopFramed
<1>4. c.error \/ Framed(StartOf(Top))
  BY <1>1, <1>3, ClosedShows
<1>5. From(x, c) /\ (c.error \/ c.pos = x.pos + Len(Top.inner.data))
  BY <1>1, <1>2, <1>3, ClosedFrom
<1>6. IsFrame(g) /\ g.type = Top.type
  <2> DEFINE end == Inc(Top.inner, 1)
  <2>1. Sound(end)
    BY <1>1, <1>2, AtEnd
  <2> HIDE DEF end
  <2>2. g = [Top EXCEPT !.inner = end]
    BY DEF end
  <2> HIDE DEF g
  <2> QED
    BY <1>2, <2>1, <2>2, FrameInner
<1> HIDE DEF b, x, c, w, v, g
<1>7. Sound(c) /\ c.data = x.data
  BY <1>5 DEF From
<1>8. b # <<>> => c.data = b[Len(b)].inner.data /\ Follows(b[Len(b)], c)
  <2> SUFFICES ASSUME b # <<>> PROVE c.data = b[Len(b)].inner.data /\ Follows(b[Len(b)], c)
    OBVIOUS
  <2> DEFINE h == b[Len(b)]
  <2>1. x = h.inner /\ Joins(h, x, Top)
    BY <1>3 DEF Linked
  <2> HIDE DEF h
  <2>2. c.data = h.inner.data
    BY <1>7, <2>1
  <2>3. ~c.error => ElementAt(h.type, c.data, c.pos)
                    = ElementAt(h.type, x.data, x.pos + Len(Top.inner.data))
    BY <1>5, <1>7
  <2>4. Follows(h, c)
    BY <1>2, <1>4, <2>1, <2>3, Zenon DEF Joins, Follows
  <2> QED
    BY <2>2, <2>4 DEF h
<1>9. b = <<>> => c.error \/ Framed(Root(request))
  BY <1>3, <1>4
<1>10. CASE Return(b, c, w, v)
  BY <1>3, <1>7, <1>8, <1>9, <1>10, ReturnFramed
<1>11. ASSUME caret' = (IF b = <<>> THEN c ELSE caret), stack' = u, pc' = "polymorphs",
              UNCHANGED <<request, call>>
       PROVE  Framing(request, stack, pc, caret, call)'
  <2> DEFINE y == caret'
             z == caret
             r == request
  <2>1. /\ IsStack(b) /\ Chained(b, "returned") /\ Based(r, b, "returned", z)
        /\ b # <<>> => y = z
        /\ b = <<>> => y.error \/ Framed(Root(r))
    BY <1>3, <1>9, <1>11
  <2>2. OpenedOn(b, c, g, u)
    BY DEF OpenedOn
  <2> HIDE DEF u, y, z, r
  <2>3. Under(b, c, g, "polymorphs") /\ Bottom(r, b, g, "polymorphs", y)
    BY <1>8, <2>1 DEF Under, Bottom
  <2>4. g.type # "none" /\ "returned" # "polymorphs"
    BY <1>2, <1>6
  <2>5. Chained(u, "polymorphs") /\ Based(r, u, "polymorphs", y)
    BY <1>6, <1>7, <2>1, <2>2, <2>3, <2>4, ChainedOpen
  <2>6. Going(r, u, "polymorphs", y, call)
    BY DEF Going
  <2> QED
    BY <1>11, <2>5, <2>6 DEF Framing, r, y
<1> HIDE DEF u
<1> QED
  BY <1>1, <1>10, <1>11

LEMMA ReturnObjectFramed ==
  ASSUME DInv, ReturnObject
  PROVE  Framing(request, stack, pc, caret, call)'
<1> DEFINE b == Below(stack)
           c == CaretOf(b)
           w == Top.wraps
           v == Value("Object", <<>>, Top.items)
<1>1. pc = "polymorphs" /\ Return(b, c, w, v)
  BY DEF ReturnObject
<1>2. stack # <<>> /\ Top.type # "none"
  BY <1>1, Traced, InFrame
<1>3. /\ IsStack(b) /\ Chained(b, "returned") /\ Based(request, b, "returned", caret)
      /\ Sound(c)
      /\ b # <<>> => c = b[Len(b)].inner /\ Resumes(b[Len(b)])
      /\ b = <<>> => c = caret /\ (caret.error \/ Framed(Root(request)))
  BY <1>1, <1>2, PopFramed
<1> HIDE DEF b, c, w, v
<1>4. b # <<>> => c.data = b[Len(b)].inner.data /\ Follows(b[Len(b)], c)
  BY <1>3 DEF Resumes
<1> QED
  BY <1>1, <1>3, <1>4, ReturnFramed

(* Nothing is asked of the bytes set aside. *)
LEMMA OpenPolymorphFramed ==
  ASSUME DInv, OpenPolymorph
  PROVE  Framing(request, stack, pc, caret, call)'
<1> DEFINE p == Head(Top.polymorphs)
           q == Tail(Top.polymorphs)
           n == Len(stack)
           f == [stack[n] EXCEPT !.polymorphs = q]
           s == [stack EXCEPT ![n].polymorphs = Tail(@)]
           g == [ type |-> "none", wraps |-> <<>>, inner |-> Caret(p.data),
                  index |-> 0, key |-> p.key, items |-> <<>>, polymorphs |-> <<>> ]
           u == Append(s, g)
<1>1. /\ pc = "polymorphs" /\ Top.polymorphs # <<>> /\ stack' = u /\ pc' = "call"
      /\ UNCHANGED <<request, caret>>
  BY DEF OpenPolymorph
<1>2. /\ stack # <<>> /\ IsStack(stack) /\ IsFrame(Top) /\ Top = stack[n] /\ IInv
      /\ Chained(stack, "polymorphs") /\ Based(request, stack, "polymorphs", caret)
  <2>1. stack # <<>>
    BY <1>1, Traced, InFrame
  <2> QED
    BY <1>1, <2>1, Traced
<1>3. /\ p \in PolymorphData /\ q \in Seq(PolymorphData)
      /\ \A i \in DOMAIN q : Top.type # "none" /\ IsPolymorph(Top.type, q[i].key)
  BY <1>1, <1>2, NextSetAside, InFrame
<1>4. s = [stack EXCEPT ![n] = f]
  BY <1>2
<1> HIDE DEF q
<1>5. IsFrame(f) /\ f.inner = Top.inner /\ f.type = Top.type
  <2>1. f = [Top EXCEPT !.polymorphs = q]
    BY <1>2
  <2> HIDE DEF f
  <2> QED
    BY <1>2, <1>3, <2>1, FramePolymorphs
<1> HIDE DEF f
<1>6. PutOn(stack, f, s) /\ Alike(stack[Len(stack)], f)
  BY <1>2, <1>4, <1>5 DEF PutOn, Alike
<1> HIDE DEF s
<1>7. /\ Chained(s, "polymorphs")
      /\ \A r, c : Based(r, stack, "polymorphs", c) => Based(r, s, "polymorphs", c)
  BY <1>2, <1>5, <1>6, ChainedPut
<1>8. IsStack(s) /\ s # <<>>
  BY <1>2, <1>5, <1>6, PutTop
<1>9. IsFrame(g) /\ g.type = "none"
  <2>1. PolymorphFrame(p, g)
    BY DEF PolymorphFrame
  <2> HIDE DEF g, p
  <2> QED
    BY <1>3, <2>1, PolymorphFrameOK
<1>10. PushOn(s, g, u)
  BY DEF PushOn
<1> HIDE DEF g, u, p
<1>11. Linked(s[Len(s)], g)
  BY <1>9 DEF Linked, Joins
<1>12. /\ Chained(u, "call")
       /\ \A r, c : ( /\ s # <<>> => Based(r, s, "polymorphs", c)
                      /\ s = <<>> => IF "call" = "polymorphs"
                                     THEN c.error \/ Framed(Root(r))
                                     ELSE Framed(StartOf(g)) => Framed(Root(r)) )
                    => Based(r, u, "call", c)
  <2>1. /\ (g.type = "none") <=> ("polymorphs" = "polymorphs")
        /\ "polymorphs" = "polymorphs" => s # <<>>
        /\ s # <<>> => IF "call" = "polymorphs" THEN Resumes(s[Len(s)])
                       ELSE Linked(s[Len(s)], g)
    BY <1>8, <1>9, <1>11
  <2> QED
    BY <1>7, <1>8, <1>9, <1>10, <2>1, ChainedPush
<1>13. Based(request, u, "call", caret)
  BY <1>2, <1>7, <1>8, <1>12
<1>14. u # <<>> /\ u[Len(u)] = g
  BY <1>8, <1>9, <1>10, PushTop
<1>15. Going(request, u, "call", caret, call')
  BY <1>9, <1>14 DEF Going, Awaits
<1> QED
  BY <1>1, <1>12, <1>13, <1>15 DEF Framing

LEMMA TopFrame ==
  ASSUME NEW s, IsStack(s), s # <<>>
  PROVE  IsFrame(s[Len(s)])
<1>1. Len(s) \in Nat /\ Len(s) # 0 /\ \A i \in 1 .. Len(s) : IsFrame(s[i])
  BY StackParts
<1>2. Len(s) \in 1 .. Len(s)
  BY <1>1
<1> QED
  BY <1>1, <1>2

(* A frame of the same place goes on. *)
LEMMA KeepFramed ==
  ASSUME DInv, pc = "returned", stack # <<>>,
         NEW STATE f, IsFrame(f), f.type = Top.type, f.inner = Top.inner, Keep(f)
  PROVE  Framing(request, stack, pc, caret, call)'
<1> DEFINE t == [stack EXCEPT ![Len(stack)] = f]
<1>1. stack' = t /\ pc' = "iterate" /\ UNCHANGED <<request, caret, call>>
  BY DEF Keep
<1>2. PutOn(stack, f, t)
  BY DEF PutOn
<1> HIDE DEF t
<1>3. /\ IsStack(stack) /\ Top = stack[Len(stack)] /\ Resumes(Top)
      /\ Chained(stack, "returned") /\ Based(request, stack, "returned", caret)
  BY Traced DEF Going
<1>4. Alike(stack[Len(stack)], f) /\ Resumes(f)
  BY <1>3, Zenon DEF Alike, Resumes, Follows, StartOf
<1>5. /\ Chained(t, "iterate")
      /\ \A r, c : Based(r, stack, "returned", c) => Based(r, t, "iterate", c)
  <2>1. ("returned" = "polymorphs") <=> ("iterate" = "polymorphs")
    OBVIOUS
  <2> QED
    BY <1>2, <1>3, <1>4, <2>1, ChainedPut
<1>6. t # <<>> /\ t[Len(t)] = f
  BY <1>2, <1>3, PutTop
<1>7. Going(request, t, "iterate", caret, call)
  BY <1>4, <1>6 DEF Going
<1> QED
  BY <1>1, <1>3, <1>5, <1>7 DEF Framing

LEMMA ReceiveItemFramed ==
  ASSUME DInv, ReceiveItem
  PROVE  Framing(request, stack, pc, caret, call)'
<1> DEFINE x == Append(Top.items, Entry(<<>>, ret))
           f == [Top EXCEPT !.items = x, !.index = Top.index + 1]
           c == Top.inner
<1>1. /\ pc = "returned" /\ stack # <<>> /\ Top.type # "none"
      /\ FailInside(c) \/ Keep(f)
  BY DEF ReceiveItem, Receiving
<1>2. IsFrame(Top) /\ c.pos \in Int
  BY <1>1, Traced, SoundParts
<1> HIDE DEF x
<1>3. IsFrame(f) /\ f.inner = Top.inner /\ f.type = Top.type
  BY <1>2, FrameItem
<1> HIDE DEF f, c
<1>4. CASE FailInside(c)
  BY <1>1, <1>2, <1>4, FailInsideFramed
<1>5. CASE Keep(f)
  BY <1>1, <1>3, <1>5, KeepFramed
<1> QED
  BY <1>1, <1>4, <1>5

LEMMA ReceiveValueFramed ==
  ASSUME DInv, ReceiveValue
  PROVE  Framing(request, stack, pc, caret, call)'
<1> DEFINE x == Append(Top.items, Entry(Top.key, ret))
           f == [Top EXCEPT !.items = x]
<1>1. pc = "returned" /\ stack # <<>> /\ Keep(f)
  BY DEF ReceiveValue, Receiving
<1>2. IsFrame(Top)
  BY <1>1, Traced
<1> HIDE DEF x
<1>3. IsFrame(f) /\ f.inner = Top.inner /\ f.type = Top.type
  BY <1>2, FrameItems
<1> HIDE DEF f
<1> QED
  BY <1>1, <1>3, KeepFramed

LEMMA ReceiveFieldFramed ==
  ASSUME DInv, ReceiveField
  PROVE  Framing(request, stack, pc, caret, call)'
<1> DEFINE x == Set(Top.items, Top.key, ret)
           f == [Top EXCEPT !.items = x]
<1>1. pc = "returned" /\ stack # <<>> /\ Keep(f)
  BY DEF ReceiveField, Receiving
<1>2. IsFrame(Top)
  BY <1>1, Traced
<1> HIDE DEF x
<1>3. IsFrame(f) /\ f.inner = Top.inner /\ f.type = Top.type
  BY <1>2, FrameItems
<1> HIDE DEF f
<1> QED
  BY <1>1, <1>3, KeepFramed

LEMMA ReceivePolymorphFramed ==
  ASSUME DInv, ReceivePolymorph
  PROVE  Framing(request, stack, pc, caret, call)'
<1> DEFINE b == Below(stack)
           g == b[Len(b)]
           x == Set(g.items, Top.key, ret)
           f == [g EXCEPT !.items = x]
           t == [b EXCEPT ![Len(b)] = f]
<1>1. /\ pc = "returned" /\ stack # <<>> /\ Top.type = "none"
      /\ stack' = t /\ pc' = "polymorphs" /\ UNCHANGED <<request, caret, call>>
  BY DEF ReceivePolymorph
<1>2. /\ IInv /\ IsStack(stack) /\ RootOK(request, stack, "returned", caret)
      /\ Chained(stack, "returned") /\ Based(request, stack, "returned", caret)
      /\ Top = stack[Len(stack)]
  BY <1>1, Traced, Facts
<1>3. b # <<>>
  <2> SUFFICES ASSUME b = <<>> PROVE FALSE
    OBVIOUS
  <2> DEFINE n == Len(stack)
  <2>1. stack[1].type # "none"
    BY <1>1, <1>2 DEF RootOK, Opened
  <2>2. n \in Nat /\ Len(b) = n - 1
    BY <1>1, <1>2, PopStack, StackParts
  <2>3. Len(b) = 0
    OBVIOUS
  <2> HIDE DEF n, b
  <2>4. n = 1
    BY <2>2, <2>3
  <2> QED
    BY <1>1, <1>2, <2>1, <2>4 DEF n
<1>4. /\ IsStack(b) /\ Chained(b, "polymorphs")
      /\ \A r, c : Based(r, stack, "returned", c) => Based(r, b, "polymorphs", c)
  <2> HIDE DEF b
  <2>1. b = Below(stack) /\ ((stack[Len(stack)].type = "none") <=> ("polymorphs" = "polymorphs"))
    BY <1>1, <1>2 DEF b
  <2> QED
    BY <1>1, <1>2, <1>3, <2>1, ChainedPop
<1> HIDE DEF b, x
<1>5. IsFrame(g)
  BY <1>3, <1>4, TopFrame
<1> HIDE DEF g
<1>6. IsFrame(f) /\ f.inner = g.inner /\ f.type = g.type
  BY <1>5, FrameItems
<1>7. PutOn(b, f, t)
  BY DEF PutOn
<1> HIDE DEF t, f
<1>8. Alike(b[Len(b)], f)
  BY <1>6 DEF Alike, g
<1>9. /\ Chained(t, "polymorphs")
      /\ \A r, c : Based(r, b, "polymorphs", c) => Based(r, t, "polymorphs", c)
  BY <1>3, <1>4, <1>6, <1>7, <1>8, ChainedPut
<1>10. Going(request, t, "polymorphs", caret, call)
  BY DEF Going
<1> QED
  BY <1>1, <1>2, <1>4, <1>9, <1>10 DEF Framing

LEMMA ReadReturnsFramed ==
  ASSUME DInv, ReadReturns
  PROVE  Framing(request, stack, pc, caret, call)'
<1>1. /\ pc = "returned" /\ stack = <<>> /\ pc' = "done"
      /\ UNCHANGED <<request, caret, stack, call>>
  BY DEF ReadReturns
<1>2. caret.error \/ Framed(Root(request))
  BY <1>1, Traced DEF Going
<1>3. Chained(<<>>, "done") /\ Based(request, <<>>, "done", caret)
  BY ChainedNone, BasedNone
<1>4. Going(request, <<>>, "done", caret, call)
  BY <1>2 DEF Going
<1> QED
  BY <1>1, <1>3, <1>4 DEF Framing

LEMMA StutterFramed ==
  ASSUME DInv, UNCHANGED vars
  PROVE  Framing(request, stack, pc, caret, call)'
BY DEF DInv, vars

-----------------------------------------------------------------------------
LEMMA InitDInv ==
  ASSUME Init
  PROVE  DInv
<1>1. /\ stack = <<>> /\ pc = "call" /\ caret = Caret(request.data)
      /\ call = [type |-> request.type, code |-> DOCUMENT_ROOT, wraps |-> <<>>]
  BY DEF Init
<1>2. caret.data = request.data /\ caret.pos = 0
  BY <1>1 DEF Caret
<1>3. call.code = DOCUMENT_ROOT /\ call.type = request.type
  BY <1>1
<1>4. PayloadAt("none", caret.data, caret.pos, call.code, call.type) = Root(request)
  BY <1>2, <1>3 DEF Root
<1>5. Chained(<<>>, "call") /\ Based(request, <<>>, "call", caret)
  BY ChainedNone, BasedNone
<1>6. Going(request, <<>>, "call", caret, call)
  BY <1>4 DEF Going
<1>7. IInv
  BY InitInv
<1> QED
  BY <1>1, <1>5, <1>6, <1>7 DEF DInv, Framing

LEMMA NextDInv ==
  ASSUME DInv, [Next]_vars
  PROVE  DInv'
<1> DEFINE P == Framing(request, stack, pc, caret, call)'
<1> SUFFICES P
  BY NextInv DEF DInv
<1>1. CASE DeserializeScalar       BY <1>1, DeserializeScalarFramed
<1>2. CASE DeserializeInlineDocs   BY <1>2, DeserializeInlineDocsFramed
<1>3. CASE DeserializeAny          BY <1>3, DeserializeAnyFramed
<1>4. CASE DeserializeEnum         BY <1>4, DeserializeEnumFramed
<1>5. CASE DeserializeInterpreted  BY <1>5, DeserializeInterpretedFramed
<1>6. CASE DeserializeUnknown      BY <1>6, DeserializeUnknownFramed
<1>7. CASE OpenCompound            BY <1>7, OpenCompoundFramed
<1>8. CASE KeyFails                BY <1>8, KeyFailsFramed
<1>9. CASE CollectionElement       BY <1>9, CollectionElementFramed
<1>10. CASE MapElement             BY <1>10, MapElementFramed
<1>11. CASE FieldElement           BY <1>11, FieldElementFramed
<1>12. CASE PolymorphElement       BY <1>12, PolymorphElementFramed
<1>13. CASE UnknownElement         BY <1>13, UnknownElementFramed
<1>14. CASE CloseFails             BY <1>14, CloseFailsFramed
<1>15. CASE Close                  BY <1>15, CloseFramed
<1>16. CASE OpenPolymorph          BY <1>16, OpenPolymorphFramed
<1>17. CASE ReturnObject           BY <1>17, ReturnObjectFramed
<1>18. CASE ReceiveItem            BY <1>18, ReceiveItemFramed
<1>19. CASE ReceiveValue           BY <1>19, ReceiveValueFramed
<1>20. CASE ReceiveField           BY <1>20, ReceiveFieldFramed
<1>21. CASE ReceivePolymorph       BY <1>21, ReceivePolymorphFramed
<1>22. CASE ReadReturns            BY <1>22, ReadReturnsFramed
<1>23. CASE UNCHANGED vars         BY <1>23, StutterFramed
<1> QED
  BY <1>1, <1>2, <1>3, <1>4, <1>5, <1>6, <1>7, <1>8, <1>9, <1>10, <1>11, <1>12, <1>13,
     <1>14, <1>15, <1>16, <1>17, <1>18, <1>19, <1>20, <1>21, <1>22, <1>23
     DEF Next, Step, Finished

(* A read that reports no error was given a document: its bytes divide,    *)
(* down to the innermost document, into elements that end where the next   *)
(* begin, with the codes of the types they are read into and the size      *)
(* fields and terminators of what was read, for any types and any bytes.   *)
THEOREM OnlyDocumentsRead == Spec => []OnlyDocuments
<1>1. DInv => OnlyDocuments
  <2> SUFFICES ASSUME DInv, pc = "done", ~caret.error
               PROVE  Astray \notin Walk(Root(request), Depth * Len(request.data))
    BY DEF OnlyDocuments, Root
  <2>1. IInv /\ Going(request, stack, "done", caret, call)
    BY Traced
  <2>2. stack = <<>>
    BY <2>1, Facts DEF RootOK
  <2>3. Framed(Root(request))
    BY <2>1, <2>2 DEF Going
  <2>4. Depth * Len(request.data) \in Nat
    <3>1. Len(request.data) \in Nat
      BY <2>1, Facts, LenProperties
    <3> QED
      BY <3>1, DepthAssumption
  <2> QED
    BY <2>3, <2>4, WalkOfFramed
<1>2. Init => DInv
  BY InitDInv
<1>3. DInv /\ [Next]_vars => DInv'
  BY NextDInv
<1> QED
  BY <1>1, <1>2, <1>3, PTL DEF Spec

-----------------------------------------------------------------------------
(* What is set aside.  Only the innermost loop can be over while its caret *)
(* stands behind the end of the document; everywhere else what a frame has *)
(* set aside are whole elements. *)

AsideOK(f) == \A i \in DOMAIN f.polymorphs : ElementIn(f.polymorphs[i], f.inner.data)
Laid(s)    == \A i \in 1 .. Len(s) : AsideOK(s[i])
Beyond(f)  == f.inner.pos > Len(f.inner.data)

Beside(s, p) ==
  /\ \A i \in 1 .. Len(s) - 1 : AsideOK(s[i])
  /\ s # <<>> => AsideOK(s[Len(s)]) \/ (p = "iterate" /\ Beyond(s[Len(s)]))

SInv == IInv /\ Beside(stack, pc)

(* Frames with the same bytes and the same elements set aside. *)
Level(f, g) == g.inner.data = f.inner.data /\ g.polymorphs = f.polymorphs

LEMMA LevelAside ==
  ASSUME NEW f, NEW g, Level(f, g), AsideOK(f)
  PROVE  AsideOK(g)
BY DEF Level, AsideOK

LEMMA LevelFrames ==
  ASSUME NEW f, IsFrame(f), NEW c, c.data = f.inner.data, NEW x, NEW y
  PROVE  /\ Level(f, [f EXCEPT !.inner = c])
         /\ Level(f, [f EXCEPT !.inner = c, !.key = x])
         /\ Level(f, [f EXCEPT !.items = x])
         /\ Level(f, [f EXCEPT !.items = x, !.index = y])
<1>1. [f EXCEPT !.inner = c].inner = c /\ [f EXCEPT !.inner = c].polymorphs = f.polymorphs
  BY DEF IsFrame
<1>2. /\ [f EXCEPT !.inner = c, !.key = x].inner = c
      /\ [f EXCEPT !.inner = c, !.key = x].polymorphs = f.polymorphs
  BY DEF IsFrame
<1>3. /\ [f EXCEPT !.items = x].inner = f.inner
      /\ [f EXCEPT !.items = x].polymorphs = f.polymorphs
  BY DEF IsFrame
<1>4. /\ [f EXCEPT !.items = x, !.index = y].inner = f.inner
      /\ [f EXCEPT !.items = x, !.index = y].polymorphs = f.polymorphs
  BY DEF IsFrame
<1> QED
  BY <1>1, <1>2, <1>3, <1>4 DEF Level

LEMMA NoneAside ==
  ASSUME NEW f, f.polymorphs = <<>>
  PROVE  AsideOK(f)
<1>1. DOMAIN <<>> = {}
  OBVIOUS
<1> QED
  BY <1>1 DEF AsideOK

LEMMA LaidBeside ==
  ASSUME NEW s, IsStack(s), Laid(s), NEW p
  PROVE  Beside(s, p)
<1> DEFINE n == Len(s)
<1>1. n \in Nat /\ (s # <<>> => n # 0)
  BY StackParts
<1>2. \A i \in 1 .. n : AsideOK(s[i])
  BY DEF Laid
<1>3. \A i \in 1 .. n - 1 : i \in 1 .. n
  <2> HIDE DEF n
  <2> QED
    BY <1>1
<1>4. s # <<>> => n \in 1 .. n
  <2> HIDE DEF n
  <2> QED
    BY <1>1
<1> QED
  BY <1>2, <1>3, <1>4 DEF Beside

LEMMA LaidPut ==
  ASSUME NEW s, IsStack(s), s # <<>>, NEW p, Beside(s, p), NEW f, IsFrame(f), AsideOK(f),
         NEW t, PutOn(s, f, t)
  PROVE  Laid(t) /\ IsStack(t)
<1> DEFINE n == Len(s)
<1>1. n \in Nat /\ IsStack(t)
  BY StackParts, PutTop
<1>2. Len(t) = n /\ t[n] = f /\ \A i \in 1 .. n - 1 : t[i] = s[i]
  BY PutStack DEF PutOn
<1>3. \A i \in 1 .. n - 1 : AsideOK(s[i])
  BY DEF Beside
<1> HIDE DEF n
<1>4. \A i \in 1 .. n : i = n \/ i \in 1 .. n - 1
  BY <1>1
<1>5. \A i \in 1 .. n : AsideOK(t[i])
  BY <1>2, <1>3, <1>4
<1> QED
  BY <1>1, <1>2, <1>5 DEF Laid

LEMMA LaidPush ==
  ASSUME NEW s, IsStack(s), Laid(s), NEW f, IsFrame(f), AsideOK(f), NEW t, PushOn(s, f, t)
  PROVE  Laid(t) /\ IsStack(t)
<1> DEFINE n == Len(s)
<1>1. n \in Nat /\ IsStack(t)
  BY StackParts, PushTop
<1>2. Len(t) = n + 1 /\ t[n + 1] = f /\ \A i \in 1 .. n : t[i] = s[i]
  BY PushStack DEF PushOn
<1>3. \A i \in 1 .. n : AsideOK(s[i])
  BY DEF Laid
<1> HIDE DEF n
<1>4. \A i \in 1 .. n + 1 : i = n + 1 \/ i \in 1 .. n
  BY <1>1
<1>5. \A i \in 1 .. n + 1 : AsideOK(t[i])
  BY <1>2, <1>3, <1>4
<1> QED
  BY <1>1, <1>2, <1>5 DEF Laid

LEMMA LaidBelow ==
  ASSUME NEW s, IsStack(s), s # <<>>, NEW p, Beside(s, p)
  PROVE  Laid(Below(s)) /\ IsStack(Below(s))
<1>1. /\ IsStack(Below(s)) /\ Len(Below(s)) = Len(s) - 1
      /\ \A i \in 1 .. Len(s) - 1 : Below(s)[i] = s[i]
  BY PopStack
<1>2. \A i \in 1 .. Len(s) - 1 : AsideOK(s[i])
  BY DEF Beside
<1> QED
  BY <1>1, <1>2 DEF Laid

LEMMA LaidTop ==
  ASSUME NEW s, IsStack(s), s # <<>>, Laid(s)
  PROVE  AsideOK(s[Len(s)]) /\ IsFrame(s[Len(s)])
<1> DEFINE n == Len(s)
<1>1. n \in Nat /\ n # 0 /\ \A i \in 1 .. n : IsFrame(s[i])
  BY StackParts
<1>2. n \in 1 .. n
  <2> HIDE DEF n
  <2> QED
    BY <1>1
<1>3. \A i \in 1 .. n : AsideOK(s[i])
  BY DEF Laid
<1> QED
  BY <1>1, <1>2, <1>3

LEMMA LaidMove ==
  ASSUME NEW s, IsStack(s), s # <<>>, Laid(s), NEW d, Sound(d),
         d.data = s[Len(s)].inner.data, NEW t, MoveOn(s, d, t)
  PROVE  Laid(t) /\ IsStack(t)
<1> DEFINE g == s[Len(s)]
           f == [g EXCEPT !.inner = d]
<1>1. IsFrame(g) /\ AsideOK(g)
  BY LaidTop
<1>2. PutOn(s, f, t)
  BY DEF PutOn, MoveOn
<1>3. d.data = g.inner.data
  OBVIOUS
<1> HIDE DEF g
<1>4. IsFrame(f) /\ Level(g, f)
  BY <1>1, <1>3, FrameInner, LevelFrames
<1> HIDE DEF f
<1>5. AsideOK(f)
  BY <1>1, <1>4, LevelAside
<1>6. Beside(s, "call")
  BY LaidBeside
<1> QED
  BY <1>2, <1>4, <1>5, <1>6, LaidPut

(* The frames of a state, and what they show of the next one. *)
LEMMA Alongside ==
  ASSUME SInv
  PROVE  /\ IInv /\ IsStack(stack) /\ Beside(stack, pc)
         /\ stack # <<>> => /\ IsFrame(Top) /\ Top = stack[Len(stack)] /\ Here = Top.inner
                            /\ AsideOK(Top) \/ (pc = "iterate" /\ Beyond(Top))
                            /\ Laid(Below(stack)) /\ IsStack(Below(stack))
<1>1. IInv /\ IsStack(stack) /\ Beside(stack, pc)
  BY Facts DEF SInv
<1>2. ASSUME stack # <<>>
      PROVE  /\ IsFrame(Top) /\ Top = stack[Len(stack)] /\ Here = Top.inner
             /\ AsideOK(Top) \/ (pc = "iterate" /\ Beyond(Top))
  <2>1. IsFrame(Top) /\ Top = stack[Len(stack)]
    BY <1>1, <1>2, Facts
  <2>2. Here = Top.inner
    BY <1>2 DEF Here, CaretOf, Top
  <2>3. AsideOK(Top) \/ (pc = "iterate" /\ Beyond(Top))
    BY <1>1, <1>2, <2>1 DEF Beside
  <2> QED
    BY <2>1, <2>2, <2>3
<1>3. stack # <<>> => Laid(Below(stack)) /\ IsStack(Below(stack))
  BY <1>1, LaidBelow
<1> QED
  BY <1>1, <1>2, <1>3

LEMMA AllAside ==
  ASSUME SInv, stack # <<>> => (pc # "iterate" \/ ~Beyond(Top))
  PROVE  Laid(stack)
<1> DEFINE n == Len(stack)
<1>1. IsStack(stack) /\ n \in Nat /\ \A i \in 1 .. n - 1 : AsideOK(stack[i])
  BY Alongside, StackParts DEF Beside
<1>2. n # 0 => stack # <<>>
  BY <1>1, StackParts
<1>3. n # 0 => AsideOK(stack[n])
  BY <1>2, Alongside
<1> HIDE DEF n
<1>4. \A i \in 1 .. n : n # 0 /\ (i = n \/ i \in 1 .. n - 1)
  BY <1>1
<1>5. \A i \in 1 .. n : AsideOK(stack[i])
  BY <1>1, <1>3, <1>4
<1> QED
  BY <1>5 DEF Laid, n

LEMMA ReturnLaid ==
  ASSUME NEW STATE s, IsStack(s), Laid(s), NEW STATE d, Sound(d),
         s # <<>> => d.data = s[Len(s)].inner.data,
         NEW STATE w, NEW STATE v, Return(s, d, w, v)
  PROVE  Beside(stack, pc)'
<1>1. stack' = IF s = <<>> THEN s ELSE [s EXCEPT ![Len(s)].inner = d]
  BY DEF Return, PutCaret
<1>2. CASE s = <<>>
  BY <1>1, <1>2, LaidBeside
<1>3. CASE s # <<>>
  <2> DEFINE t == [s EXCEPT ![Len(s)].inner = d]
  <2>1. stack' = t /\ MoveOn(s, d, t)
    BY <1>1, <1>3 DEF MoveOn
  <2> HIDE DEF t
  <2>2. Laid(t) /\ IsStack(t)
    BY <1>3, <2>1, LaidMove
  <2>3. Beside(t, pc')
    BY <2>2, LaidBeside
  <2> QED
    BY <2>1, <2>3
<1> QED
  BY <1>2, <1>3

LEMMA ReturnHereLaid ==
  ASSUME SInv, pc = "call", NEW STATE d, From(Here, d), NEW STATE w, NEW STATE v,
         Return(stack, d, w, v)
  PROVE  Beside(stack, pc)'
<1>1. Laid(stack) /\ IsStack(stack)
  BY AllAside, Alongside
<1>2. Sound(d) /\ d.data = Here.data
  BY DEF From
<1>3. stack # <<>> => d.data = stack[Len(stack)].inner.data
  BY <1>2, Alongside
<1> QED
  BY <1>1, <1>2, <1>3, ReturnLaid

LEMMA SameStack ==
  ASSUME SInv, pc # "iterate", stack' = stack
  PROVE  Beside(stack, pc)'
<1>1. Laid(stack) /\ IsStack(stack)
  BY AllAside, Alongside
<1>2. Beside(stack, pc')
  BY <1>1, LaidBeside
<1> QED
  BY <1>2

(* A document's method returns to the one around it. *)
LEMMA ReturnBelowLaid ==
  ASSUME SInv, stack # <<>>, Top.type # "none", NEW STATE b, b = Below(stack),
         NEW STATE d, From(CaretOf(b), d), NEW STATE w, NEW STATE v, Return(b, d, w, v)
  PROVE  Beside(stack, pc)'
<1>1. Laid(b) /\ IsStack(b)
  BY Alongside
<1>2. Sound(d) /\ (b # <<>> => d.data = b[Len(b)].inner.data)
  BY DEF From, CaretOf
<1> QED
  BY <1>1, <1>2, ReturnLaid

LEMMA FailInsideLaid ==
  ASSUME SInv, stack # <<>>, Top.type # "none", NEW STATE c, c.pos \in Int, FailInside(c)
  PROVE  Beside(stack, pc)'
<1> DEFINE b == Below(stack)
           d == SetError(Inc(CaretOf(b), c.pos))
           w == Top.wraps
<1>1. Return(b, d, w, Nil)
  BY DEF FailInside
<1>2. Sound(CaretOf(b))
  BY Alongside, PopTop
<1> HIDE DEF w
<1>3. b = Below(stack)
  OBVIOUS
<1> HIDE DEF b
<1>4. From(CaretOf(b), d)
  BY <1>2, ErrorAfter
<1> HIDE DEF d
<1> QED
  BY <1>1, <1>3, <1>4, ReturnBelowLaid

LEMMA DeserializeScalarLaid ==
  ASSUME SInv, DeserializeScalar
  PROVE  Beside(stack, pc)'
<1> DEFINE r == ReadScalar(Class(call.type), Here, call.code)
           d == r.caret
           v == r.value
           w == call.wraps
<1>1. pc = "call" /\ Class(call.type) \in ScalarClass /\ Return(stack, d, w, v)
  BY DEF DeserializeScalar, Calling
<1>2. Within(Here)
  BY <1>1, Alongside, Arguments
<1>3. From(Here, d)
  BY <1>1, <1>2, ReadScalarFrom
<1> HIDE DEF r, d, v, w
<1> QED
  BY <1>1, <1>3, ReturnHereLaid

LEMMA DeserializeInlineDocsLaid ==
  ASSUME SInv, DeserializeInlineDocs
  PROVE  Beside(stack, pc)'
<1> DEFINE r == ReadInline(Class(call.type), Here, call.code)
           d == r.caret
           v == r.value
           w == call.wraps
<1>1. pc = "call" /\ Return(stack, d, w, v)
  BY DEF DeserializeInlineDocs, Calling
<1>2. Within(Here)
  BY <1>1, Alongside, Arguments
<1>3. From(Here, d)
  BY <1>2, ReadInlineFrom
<1> HIDE DEF r, d, v, w
<1> QED
  BY <1>1, <1>3, ReturnHereLaid

LEMMA DeserializeAnyLaid ==
  ASSUME SInv, DeserializeAny
  PROVE  Beside(stack, pc)'
<1> DEFINE v == NullOf("Any")
           w == call.wraps
<1>1. pc = "call" /\ (Return(stack, Here, w, v) \/ stack' = stack)
  BY DEF DeserializeAny, Calling
<1>2. From(Here, Here)
  BY <1>1, Alongside, Arguments
<1> HIDE DEF v, w
<1>3. CASE Return(stack, Here, w, v)
  BY <1>1, <1>2, <1>3, ReturnHereLaid
<1>4. CASE stack' = stack
  BY <1>1, <1>4, SameStack
<1> QED
  BY <1>1, <1>3, <1>4

LEMMA DeserializeEnumLaid ==
  ASSUME SInv, DeserializeEnum
  PROVE  Beside(stack, pc)'
<1> DEFINE r == ReadScalar(Class(Item(call.type)), Here, call.code)
           d == r.caret
           w == call.wraps
<1>1. pc = "call" /\ Class(call.type) \in Enums
  BY DEF DeserializeEnum, Calling
<1>2. Within(Here) /\ call.type \in Types
  BY <1>1, Alongside, Arguments
<1>3. From(Here, d)
  BY <1>1, <1>2, TypesAssumption, ReadScalarFrom
<1>4. \/ \E v : Return(stack, d, w, v)
      \/ Return(stack, SetError(d), w, Nil)
      \/ Throw
  BY DEF DeserializeEnum, Fail
<1> HIDE DEF r, d, w
<1>5. ASSUME NEW v, Return(stack, d, w, v)
      PROVE  Beside(stack, pc)'
  BY <1>1, <1>3, <1>5, ReturnHereLaid
<1>6. CASE Return(stack, SetError(d), w, Nil)
  <2>1. From(Here, SetError(d))
    BY <1>3, SetErrorFrom, FromTrans DEF From, Sound
  <2> QED
    BY <1>1, <1>6, <2>1, ReturnHereLaid
<1>7. CASE Throw
  BY <1>1, <1>7, SameStack DEF Throw
<1> QED
  BY <1>4, <1>5, <1>6, <1>7

LEMMA OpenLaid ==
  ASSUME NEW b, IsStack(b), Laid(b), NEW c, Sound(c),
         b # <<>> => c.data = b[Len(b)].inner.data, NEW f, IsFrame(f), AsideOK(f),
         NEW u, OpenedOn(b, c, f, u), NEW p
  PROVE  Beside(u, p)
<1> DEFINE s == IF b = <<>> THEN b ELSE [b EXCEPT ![Len(b)].inner = c]
<1>1. IsStack(s) /\ Laid(s)
  <2>1. CASE b = <<>>
    BY <2>1
  <2>2. CASE b # <<>>
    <3>1. MoveOn(b, c, s)
      BY <2>2 DEF MoveOn
    <3> HIDE DEF s
    <3> QED
      BY <2>2, <3>1, LaidMove
  <2> QED
    BY <2>1, <2>2
<1>2. PushOn(s, f, u)
  BY DEF OpenedOn, PushOn
<1> HIDE DEF s
<1>3. Laid(u) /\ IsStack(u)
  BY <1>1, <1>2, LaidPush
<1> QED
  BY <1>3, LaidBeside

LEMMA OpenCompoundLaid ==
  ASSUME SInv, OpenCompound
  PROVE  Beside(stack, pc)'
<1> DEFINE t == call.type
           size == ReadInt32(Here)
           c == size.caret
           n == size.value - 4
           x == CurrBytes(c, n)
           f == NewFrame(x)
           v == NullOf(Class(t))
           w == call.wraps
           e == SetError(Here)
           g == SetError(c)
           u == Append(IF stack = <<>> THEN stack ELSE [stack EXCEPT ![Len(stack)].inner = c], f)
<1>1. pc = "call"
  BY DEF OpenCompound, Calling
<1>2. \/ Return(stack, Here, w, v)
      \/ Return(stack, e, w, Nil)
      \/ Return(stack, g, w, Nil)
      \/ stack' = stack
      \/ n \in 0 .. Left(c) /\ stack' = u
  BY Zenon DEF OpenCompound, Fail, Throw
<1>3. Within(Here) /\ From(Here, Here) /\ t \in Types /\ Here \in CaretState
  BY <1>1, Alongside, Arguments, WithinSound
<1>4. /\ size.value \in Int /\ Within(c) /\ From(Here, c) /\ c \in CaretState
      /\ Left(c) \in Nat
  BY <1>3, Int32From, WithinSound
<1> HIDE DEF c
<1>5. From(Here, e) /\ From(Here, g)
  BY <1>3, <1>4, SetErrorFrom, FromTrans
<1> HIDE DEF size, v, w, e, g
<1>6. CASE Return(stack, Here, w, v)
  BY <1>1, <1>3, <1>6, ReturnHereLaid
<1>7. CASE Return(stack, e, w, Nil)
  BY <1>1, <1>5, <1>7, ReturnHereLaid
<1>8. CASE Return(stack, g, w, Nil)
  BY <1>1, <1>5, <1>8, ReturnHereLaid
<1>9. CASE stack' = stack
  BY <1>1, <1>9, SameStack
<1>10. ASSUME n \in 0 .. Left(c), stack' = u
       PROVE  Beside(stack, pc)'
  <2>1. x \in Seq(BsonByte)
    <3>1. n \in Nat /\ n <= Left(c)
      BY <1>4, <1>10
    <3> HIDE DEF n
    <3> QED
      BY <1>4, <3>1, CurrBytesType
  <2> HIDE DEF x
  <2>2. IsFrame(f)
    BY <1>3, <2>1, NewFrameOK
  <2>3. AsideOK(f)
    <3>1. f.polymorphs = <<>>
      BY DEF NewFrame
    <3> HIDE DEF f
    <3> QED
      BY <3>1, NoneAside
  <2> HIDE DEF f
  <2>4. OpenedOn(stack, c, f, u)
    BY DEF OpenedOn
  <2> HIDE DEF u
  <2>5. Laid(stack) /\ IsStack(stack)
    BY <1>1, AllAside, Alongside
  <2>6. Sound(c) /\ (stack # <<>> => c.data = stack[Len(stack)].inner.data)
    BY <1>4, Alongside DEF From
  <2>7. Beside(u, pc')
    BY <2>2, <2>3, <2>4, <2>5, <2>6, OpenLaid
  <2> QED
    BY <1>10, <2>7
<1> HIDE DEF n, x, f, u
<1> QED
  BY <1>2, <1>6, <1>7, <1>8, <1>9, <1>10

(* The loops run only where all is well. *)
LEMMA InLoopLaid ==
  ASSUME SInv, InLoop
  PROVE  /\ pc = "iterate" /\ stack # <<>> /\ Top.type # "none" /\ AsideOK(Top) /\ Laid(stack)
         /\ IsFrame(Top) /\ Top = stack[Len(stack)] /\ IsStack(stack) /\ Beside(stack, pc)
<1>1. pc = "iterate" /\ Top.inner.pos < Len(Top.inner.data)
  BY DEF InLoop, CanContinue, DataSize
<1>2. stack # <<>> /\ Top.type # "none" /\ Sound(Top.inner)
  BY <1>1, Alongside, InFrame
<1>3. ~Beyond(Top)
  BY <1>1, <1>2, SoundParts DEF Beyond
<1> QED
  BY <1>1, <1>2, <1>3, Alongside, AllAside

LEMMA KeyFailsLaid ==
  ASSUME SInv, KeyFails
  PROVE  Beside(stack, pc)'
<1> DEFINE c == Element.caret
<1>1. InLoop /\ FailInside(c)
  BY DEF KeyFails
<1>2. c.pos \in Int /\ stack # <<>> /\ Top.type # "none"
  BY <1>1, Alongside, InLoopLaid, LoopFacts
<1> HIDE DEF c
<1> QED
  BY <1>1, <1>2, FailInsideLaid

LEMMA PutLaid ==
  ASSUME SInv, stack # <<>>, NEW STATE f, IsFrame(f), AsideOK(f),
         NEW STATE t, PutOn(stack, f, t), stack' = t
  PROVE  Beside(stack, pc)'
<1>1. Laid(t) /\ IsStack(t)
  BY Alongside, LaidPut
<1>2. Beside(t, pc')
  BY <1>1, LaidBeside
<1> QED
  BY <1>2

LEMMA DeserializeLaid ==
  ASSUME SInv, InLoop, ~Element.caret.error, NEW STATE type, NEW STATE key,
         key \in Seq(BsonByte), Deserialize(type, key)
  PROVE  Beside(stack, pc)'
<1> DEFINE e == Element.caret
           n == Len(stack)
           f == [stack[n] EXCEPT !.inner = e, !.key = key]
           t == [stack EXCEPT ![n].inner = e, ![n].key = key]
<1>1. Sound(e) /\ e.data = Top.inner.data
  BY Alongside, LoopFacts
<1>2. stack' = t
  BY DEF Deserialize
<1>3. stack # <<>> /\ IsFrame(Top) /\ Top = stack[n] /\ AsideOK(Top)
  BY InLoopLaid
<1>4. t = [stack EXCEPT ![n] = f]
  BY TwoFields
<1> HIDE DEF e
<1>5. IsFrame(f) /\ AsideOK(f)
  <2>1. f = [Top EXCEPT !.inner = e, !.key = key]
    BY <1>3
  <2> HIDE DEF f
  <2>2. CallFrom(Top, e, key, f)
    BY <2>1 DEF CallFrom
  <2>3. Moved(Top, e, f)
    BY <1>1, <1>3, <2>2, FrameCall, Zenon
  <2>4. Level(Top, f)
    BY <1>1, <1>3, <2>1, LevelFrames
  <2> QED
    BY <1>3, <2>3, <2>4, LevelAside DEF Moved
<1> HIDE DEF f
<1>6. PutOn(stack, f, t)
  BY <1>4 DEF PutOn
<1> HIDE DEF t
<1> QED
  BY <1>2, <1>3, <1>5, <1>6, PutLaid

LEMMA CollectionElementLaid ==
  ASSUME SInv, CollectionElement
  PROVE  Beside(stack, pc)'
<1> DEFINE c == Element.caret
           t == Item(Top.type)
           k == Element.key
<1>1. /\ AtElement("Collection")
      /\ Deserialize(t, k) \/ FailInside(c)
  BY DEF CollectionElement
<1>2. /\ InLoop /\ ~Element.caret.error /\ k \in Seq(BsonByte)
      /\ c.pos \in Int /\ stack # <<>> /\ Top.type # "none"
  BY <1>1, Alongside, AtElementFacts
<1> HIDE DEF c, t, k
<1>3. CASE Deserialize(t, k)
  BY <1>2, <1>3, DeserializeLaid
<1>4. CASE FailInside(c)
  BY <1>2, <1>4, FailInsideLaid
<1> QED
  BY <1>1, <1>3, <1>4

LEMMA MapElementLaid ==
  ASSUME SInv, MapElement
  PROVE  Beside(stack, pc)'
<1> DEFINE t == Item(Top.type)
           k == Element.key
<1>1. AtElement("Map") /\ Deserialize(t, k)
  BY DEF MapElement
<1>2. InLoop /\ ~Element.caret.error /\ k \in Seq(BsonByte)
  BY <1>1, Alongside, AtElementFacts
<1> HIDE DEF t, k
<1> QED
  BY <1>1, <1>2, DeserializeLaid

LEMMA FieldElementLaid ==
  ASSUME SInv, FieldElement
  PROVE  Beside(stack, pc)'
<1> DEFINE t == FieldOf(Top.type, Element.key).type
           k == Element.key
<1>1. AtElement("Object") /\ Deserialize(t, k)
  BY DEF FieldElement
<1>2. InLoop /\ ~Element.caret.error /\ k \in Seq(BsonByte)
  BY <1>1, Alongside, AtElementFacts
<1> HIDE DEF t, k
<1> QED
  BY <1>1, <1>2, DeserializeLaid

(* The innermost caret may leave its document: the loop is over then.      *)
LEMMA PutBeyond ==
  ASSUME NEW s, IsStack(s), s # <<>>, NEW p, Beside(s, p), NEW f, IsFrame(f), Beyond(f),
         NEW t, PutOn(s, f, t)
  PROVE  Beside(t, "iterate")
<1> DEFINE n == Len(s)
<1>1. Len(t) = n /\ t[n] = f /\ \A i \in 1 .. n - 1 : t[i] = s[i]
  BY PutStack DEF PutOn
<1>2. \A i \in 1 .. n - 1 : AsideOK(s[i])
  BY DEF Beside
<1> QED
  BY <1>1, <1>2 DEF Beside

LEMMA SkippingLaid ==
  ASSUME SInv, InLoop, ~Element.caret.error,
         ~SkipElement(Element.caret, Element.code).error,
         NEW STATE q, q \in Seq(PolymorphData),
         \A i \in DOMAIN q : IsPolymorph(Top.type, q[i].key),
         \/ SkipElement(Element.caret, Element.code).pos > Len(Top.inner.data)
         \/ \A i \in DOMAIN q : ElementIn(q[i], Top.inner.data),
         Skipping(q)
  PROVE  Beside(stack, pc)'
<1> DEFINE e == SkipElement(Element.caret, Element.code)
           n == Len(stack)
           f == [stack[n] EXCEPT !.inner = e, !.polymorphs = q]
           t == [stack EXCEPT ![n].inner = e, ![n].polymorphs = q]
<1>1. Element.code \in BsonByte /\ Within(Element.caret) /\ Element.caret.data = Top.inner.data
  BY Alongside, LoopFacts
<1>2. Sound(e) /\ e.pos \in Int /\ e.data = Top.inner.data /\ Len(e.data) \in Int
  BY <1>1, SkipFrom, SoundParts DEF From
<1>3. stack' = t /\ pc' = pc
  BY Zenon DEF Skipping
<1>4. /\ pc = "iterate" /\ stack # <<>> /\ IsFrame(Top) /\ Top = stack[n] /\ Top.type # "none"
      /\ IsStack(stack) /\ Beside(stack, pc)
  BY InLoopLaid
<1>5. t = [stack EXCEPT ![n] = f]
  BY TwoFields
<1> HIDE DEF e
<1>6. IsFrame(f) /\ f.inner = e /\ f.polymorphs = q
  <2>1. f = [Top EXCEPT !.inner = e, !.polymorphs = q]
    BY <1>4
  <2> HIDE DEF f
  <2>2. SkipTo(Top, e, q, f)
    BY <2>1 DEF SkipTo
  <2>3. \A i \in DOMAIN q : Top.type # "none" /\ IsPolymorph(Top.type, q[i].key)
    BY <1>4
  <2>4. Moved(Top, e, f)
    BY <1>2, <1>4, <2>2, <2>3, FrameSkip, Zenon
  <2>5. f.polymorphs = q
    BY <1>4, <2>1 DEF IsFrame
  <2> QED
    BY <2>4, <2>5 DEF Moved
<1> HIDE DEF f
<1>7. PutOn(stack, f, t)
  BY <1>5 DEF PutOn
<1> HIDE DEF t
<1>8. CASE \A i \in DOMAIN q : ElementIn(q[i], Top.inner.data)
  <2>1. AsideOK(f)
    BY <1>2, <1>6, <1>8 DEF AsideOK
  <2> QED
    BY <1>3, <1>4, <1>6, <1>7, <2>1, PutLaid
<1>9. CASE e.pos > Len(Top.inner.data)
  <2>1. Beyond(f)
    BY <1>2, <1>6, <1>9 DEF Beyond
  <2>2. Beside(t, "iterate")
    BY <1>4, <1>6, <1>7, <2>1, PutBeyond
  <2> QED
    BY <1>3, <1>4, <2>2
<1> QED
  BY <1>8, <1>9 DEF e

(* A copy that ends within the document is a part of it.                   *)
LEMMA CopyWithin ==
  ASSUME NEW s \in Seq(BsonByte), NEW b \in Seq(BsonByte), NEW a \in Nat, NEW m \in Int,
         m <= Len(s)
  PROVE  SubSeq(s \o b, a + 1, m) = SubSeq(s, a + 1, m)
<1> DEFINE all == s \o b
           x == SubSeq(all, a + 1, m)
           y == SubSeq(s, a + 1, m)
<1>1. /\ all \in Seq(BsonByte) /\ Len(all) = Len(s) + Len(b) /\ Len(s) \in Nat /\ Len(b) \in Nat
      /\ \A i \in 1 .. Len(s) : all[i] = s[i]
  BY ConcatType, LenProperties
<1> HIDE DEF all
<1>2. a + 1 \in Int
  OBVIOUS
<1>3. \A i \in a + 1 .. m : i \in 1 .. Len(s) /\ i \in 1 .. Len(all)
  BY <1>1
<1>4. (\A i \in a + 1 .. m : s[i] \in BsonByte) /\ (\A i \in a + 1 .. m : all[i] \in BsonByte)
  BY <1>1, <1>3, ElementOfSeq
<1>5. /\ x \in Seq(BsonByte) /\ Len(x) = IF a + 1 <= m THEN m - (a + 1) + 1 ELSE 0
      /\ \A i \in 1 .. m - (a + 1) + 1 : x[i] = all[a + 1 + i - 1]
  BY <1>2, <1>4, SubSeqProperties
<1>6. /\ y \in Seq(BsonByte) /\ Len(y) = IF a + 1 <= m THEN m - (a + 1) + 1 ELSE 0
      /\ \A i \in 1 .. m - (a + 1) + 1 : y[i] = s[a + 1 + i - 1]
  BY <1>2, <1>4, SubSeqProperties
<1> HIDE DEF x, y
<1>7. ASSUME NEW i \in 1 .. Len(x)
      PROVE  x[i] = y[i]
  <2>1. i \in 1 .. m - (a + 1) + 1 /\ a + 1 + i - 1 \in 1 .. Len(s)
    BY <1>1, <1>5
  <2>2. x[i] = all[a + 1 + i - 1] /\ y[i] = s[a + 1 + i - 1]
    BY <1>5, <1>6, <2>1
  <2> QED
    BY <1>1, <2>1, <2>2
<1>8. Len(x) = Len(y)
  BY <1>5, <1>6
<1>9. x = y
  BY <1>5, <1>6, <1>7, <1>8, SeqEqual
<1> QED
  BY <1>9 DEF x, y, all

LEMMA SetAsideIn ==
  ASSUME IInv, InLoop, ~Element.caret.error, NEW behind \in Behind,
         NEW e, e = SkipElement(Element.caret, Element.code), ~e.error,
         e.pos <= Len(Top.inner.data)
  PROVE  ElementIn(SetAside(behind), Top.inner.data)
<1> DEFINE c == Top.inner
           data == Top.inner.data
           at == Top.inner.pos
           start == Element.caret.pos
           code == Element.code
           key == Element.key
           p == SetAside(behind)
           d == SubSeq(data, start + 1, e.pos)
<1>1. /\ Within(c) /\ ~c.error /\ Left(c) > 1 /\ Within(Element.caret)
      /\ code \in BsonByte /\ Element.caret.data = data /\ data \in Seq(BsonByte)
  BY LoopFacts, SoundParts, WithinSound DEF InLoop
<1>2. Element = ReadKey(c)
  BY DEF Element
<1>3. /\ start = AfterNul(data, at + 1) /\ start >= at + 2 /\ code = data[at + 1]
      /\ key = SubSeq(data, at + 2, start - 1)
  <2>1. ~ReadKey(c).caret.error
    BY <1>2
  <2> QED
    BY <1>1, <1>2, <2>1, KeyEnds
<1>4. /\ at \in Nat /\ start \in Nat /\ Left(c) = Len(data) - at /\ Len(data) \in Nat
  BY <1>1, WithinSound, SoundParts
<1>5. at \in 0 .. Len(data) - 1 /\ start >= 1 /\ start # 0
  BY <1>1, <1>3, <1>4
<1>6. e.pos = EndOf(data, start, code) /\ e.pos >= 1 /\ e.pos \in Int
  <2>1. e.pos = EndOf(data, start, code) /\ e.pos >= 1
    BY <1>1, <1>5, SkipEnds
  <2>2. e.pos \in Int
    BY <1>1, SkipFrom, SoundParts DEF From
  <2> QED
    BY <2>1, <2>2
<1>7. PayloadEnd(data, start, code) = e.pos
  <2>1. PayloadEnd(data, start, code) = Fitting(data, e.pos)
    BY <1>6, EndFits
  <2>2. ~(e.pos > Len(data))
    BY <1>4, <1>6
  <2> QED
    BY <2>1, <2>2 DEF Fitting
<1>8. SubSeq(data \o behind, start + 1, e.pos) = SubSeq(data, start + 1, e.pos)
  <2>1. behind \in Seq(BsonByte) /\ e.pos <= Len(data)
    BY BehindAssumption
  <2> HIDE DEF data, start
  <2> QED
    BY <1>1, <1>4, <1>6, <2>1, CopyWithin
<1>9. p = [key |-> key, code |-> code, data |-> SubSeq(data \o behind, start + 1, e.pos)]
  BY Zenon DEF SetAside
<1>10. p.key = key /\ p.code = code /\ p.data = d
  <2>1. p = [key |-> key, code |-> code, data |-> d]
    BY <1>8, <1>9, Zenon
  <2> HIDE DEF p, key, code, d
  <2> QED
    BY <2>1
<1>11. e.pos # 0
  BY <1>6
<1> HIDE DEF data, at, start, code, key, p
<1>12. ElementIn(p, data)
  BY <1>3, <1>5, <1>7, <1>10, <1>11, Zenon DEF ElementIn
<1> QED
  BY <1>12 DEF p, data

LEMMA PolymorphElementLaid ==
  ASSUME SInv, PolymorphElement
  PROVE  Beside(stack, pc)'
<1>1. PICK behind \in Behind : Skipping(Append(Top.polymorphs, SetAside(behind)))
  BY DEF PolymorphElement
<1> DEFINE ps == Top.polymorphs
           x == SetAside(behind)
           q == Append(ps, x)
           e == SkipElement(Element.caret, Element.code)
<1>2. /\ AtElement("Object") /\ IsField(Element.key)
      /\ FieldOf(Top.type, Element.key).select # "none" /\ Skipping(q)
  BY <1>1 DEF PolymorphElement
<1>3. InLoop /\ ~Element.caret.error /\ IInv
  BY <1>2, Alongside DEF AtElement
<1>4. CASE e.error
  <2> HIDE DEF q
  <2>1. FailInside(e) /\ e.pos \in Int /\ stack # <<>> /\ Top.type # "none"
    BY <1>2, <1>3, <1>4, SkippingFails
  <2> HIDE DEF e
  <2> QED
    BY <2>1, FailInsideLaid
<1>5. CASE ~e.error
  <2>1. q \in Seq(PolymorphData) /\ \A i \in DOMAIN q : IsPolymorph(Top.type, q[i].key)
    BY <1>2, <1>3, <1>5, SetAsideAlso
  <2>2. ps \in Seq(PolymorphData) /\ x \in PolymorphData
    BY <1>2, <1>3, <1>5, AtElementFacts, SetAsideOK
  <2>3. \A i \in DOMAIN ps : ElementIn(ps[i], Top.inner.data)
    BY <1>3, InLoopLaid DEF AsideOK
  <2>4. e.pos > Len(Top.inner.data) \/ ElementIn(x, Top.inner.data)
    <3>1. Element.code \in BsonByte /\ Within(Element.caret) /\ Sound(Top.inner)
      BY <1>3, LoopFacts, WithinSound
    <3>2. e.pos \in Int /\ Len(Top.inner.data) \in Int
      BY <3>1, SkipFrom, SoundParts DEF From
    <3>3. e.pos > Len(Top.inner.data) \/ e.pos <= Len(Top.inner.data)
      BY <3>2
    <3> QED
      BY <1>3, <1>5, <3>3, SetAsideIn
  <2> HIDE DEF ps, x, e
  <2>5. /\ Len(ps) \in Nat /\ DOMAIN ps = 1 .. Len(ps) /\ DOMAIN q = 1 .. Len(ps) + 1
        /\ \A i \in 1 .. Len(ps) : q[i] = ps[i]
        /\ q[Len(ps) + 1] = x
    BY <2>2, AppendProperties, LenProperties
  <2>6. \A i \in 1 .. Len(ps) + 1 : i \in 1 .. Len(ps) \/ i = Len(ps) + 1
    BY <2>5
  <2>7. e.pos > Len(Top.inner.data) \/ \A i \in DOMAIN q : ElementIn(q[i], Top.inner.data)
    BY <2>3, <2>4, <2>5, <2>6
  <2> HIDE DEF q
  <2> QED
    BY <1>2, <1>3, <1>5, <2>1, <2>7, SkippingLaid DEF e
<1> QED
  BY <1>4, <1>5

LEMMA UnknownElementLaid ==
  ASSUME SInv, UnknownElement
  PROVE  Beside(stack, pc)'
<1> DEFINE q == Top.polymorphs
           c == Element.caret
           e == SkipElement(Element.caret, Element.code)
<1>1. /\ AtElement("Object")
      /\ Skipping(q) \/ FailInside(c)
  BY DEF UnknownElement
<1>2. /\ InLoop /\ ~Element.caret.error /\ q \in Seq(PolymorphData) /\ IInv
      /\ \A i \in DOMAIN q : IsPolymorph(Top.type, q[i].key)
      /\ c.pos \in Int /\ stack # <<>> /\ Top.type # "none"
  BY <1>1, Alongside, AtElementFacts
<1>3. \A i \in DOMAIN q : ElementIn(q[i], Top.inner.data)
  BY <1>2, InLoopLaid DEF AsideOK
<1> HIDE DEF q
<1>4. CASE Skipping(q) /\ e.error
  <2>1. FailInside(e) /\ e.pos \in Int
    BY <1>2, <1>4, SkippingFails
  <2> HIDE DEF e
  <2> QED
    BY <1>2, <2>1, FailInsideLaid
<1>5. CASE Skipping(q) /\ ~e.error
  BY <1>2, <1>3, <1>5, SkippingLaid
<1>6. CASE FailInside(c)
  <2> HIDE DEF c
  <2> QED
    BY <1>2, <1>6, FailInsideLaid
<1> QED
  BY <1>1, <1>4, <1>5, <1>6

LEMMA CloseFailsLaid ==
  ASSUME SInv, CloseFails
  PROVE  Beside(stack, pc)'
<1> DEFINE c == Top.inner
<1>1. pc = "iterate" /\ FailInside(c)
  BY DEF CloseFails
<1>2. stack # <<>> /\ Top.type # "none" /\ c.pos \in Int
  BY <1>1, Alongside, InFrame, SoundParts
<1> HIDE DEF c
<1> QED
  BY <1>1, <1>2, FailInsideLaid

(* At the terminator the caret is in the document.                         *)
LEMMA CloseLaid ==
  ASSUME SInv, Close
  PROVE  Beside(stack, pc)'
<1> DEFINE b == Below(stack)
           c == Closed(CaretOf(b))
           end == Inc(Top.inner, 1)
           g == [Top EXCEPT !.inner = end]
           w == Top.wraps
           v == Value(Class(Top.type), <<>>, Top.items)
           u == Append(IF b = <<>> THEN b ELSE [b EXCEPT ![Len(b)].inner = c], g)
<1>1. /\ pc = "iterate" /\ AtTerminator
      /\ Return(b, c, w, v) \/ stack' = u
  BY DEF Close
<1>2. stack # <<>> /\ Top.type # "none" /\ IsFrame(Top) /\ IInv /\ Sound(Top.inner)
  BY <1>1, Alongside, InFrame
<1>3. AsideOK(Top)
  <2>1. Top.inner.pos < Len(Top.inner.data)
    BY <1>1 DEF AtTerminator, AtChar, CanContinue, DataSize
  <2>2. ~Beyond(Top)
    BY <1>2, <2>1, SoundParts DEF Beyond
  <2> QED
    BY <1>2, <2>2, Alongside
<1>4. Laid(b) /\ IsStack(b)
  BY <1>2, Alongside
<1>5. From(CaretOf(b), c)
  <2>1. Sound(CaretOf(b))
    BY <1>2, PopTop
  <2> QED
    BY <1>1, <1>2, <2>1, ClosedFrom
<1>6. Sound(c) /\ (b # <<>> => c.data = b[Len(b)].inner.data)
  BY <1>5 DEF From, CaretOf
<1>7. IsFrame(g) /\ AsideOK(g)
  <2>1. Sound(end) /\ end.data = Top.inner.data
    BY <1>1, <1>2, AtEnd
  <2> HIDE DEF end
  <2>2. IsFrame(g) /\ Level(Top, g)
    BY <1>2, <2>1, FrameInner, LevelFrames
  <2> HIDE DEF g
  <2> QED
    BY <1>3, <2>2, LevelAside
<1>8. CASE Return(b, c, w, v)
  <2>1. b = Below(stack)
    OBVIOUS
  <2> HIDE DEF b, c, w, v
  <2> QED
    BY <1>2, <1>5, <1>8, <2>1, ReturnBelowLaid
<1>9. CASE stack' = u
  <2>1. OpenedOn(b, c, g, u)
    BY DEF OpenedOn
  <2> HIDE DEF u, b, c, g
  <2>2. Beside(u, pc')
    BY <1>4, <1>6, <1>7, <2>1, OpenLaid
  <2> QED
    BY <1>9, <2>2
<1> QED
  BY <1>1, <1>8, <1>9

LEMMA ReturnObjectLaid ==
  ASSUME SInv, ReturnObject
  PROVE  Beside(stack, pc)'
<1> DEFINE b == Below(stack)
           c == CaretOf(b)
           w == Top.wraps
           v == Value("Object", <<>>, Top.items)
<1>1. pc = "polymorphs" /\ Return(b, c, w, v)
  BY DEF ReturnObject
<1>2. stack # <<>> /\ Top.type # "none" /\ b = Below(stack)
  BY <1>1, Alongside, InFrame
<1>3. Sound(c)
  BY <1>2, Alongside, PopTop
<1> HIDE DEF b, w, v
<1>4. From(CaretOf(b), c)
  BY <1>3 DEF From
<1> HIDE DEF c
<1> QED
  BY <1>1, <1>2, <1>4, ReturnBelowLaid

(* One of the elements is taken off, and read in a frame that has none.    *)
LEMMA OpenPolymorphLaid ==
  ASSUME SInv, OpenPolymorph
  PROVE  Beside(stack, pc)'
<1> DEFINE p == Head(Top.polymorphs)
           q == Tail(Top.polymorphs)
           n == Len(stack)
           f == [stack[n] EXCEPT !.polymorphs = q]
           s == [stack EXCEPT ![n].polymorphs = Tail(@)]
           g == [ type |-> "none", wraps |-> <<>>, inner |-> Caret(p.data),
                  index |-> 0, key |-> p.key, items |-> <<>>, polymorphs |-> <<>> ]
           u == Append(s, g)
<1>1. pc = "polymorphs" /\ Top.polymorphs # <<>> /\ stack' = u
  BY DEF OpenPolymorph
<1>2. /\ stack # <<>> /\ IsStack(stack) /\ IsFrame(Top) /\ Top = stack[n] /\ AsideOK(Top)
      /\ Top.type # "none" /\ Top.polymorphs \in Seq(PolymorphData) /\ IInv
      /\ Beside(stack, pc)
  BY <1>1, Alongside, InFrame
<1>3. /\ p \in PolymorphData /\ q \in Seq(PolymorphData)
      /\ \A i \in DOMAIN q : Top.type # "none" /\ IsPolymorph(Top.type, q[i].key)
  BY <1>1, <1>2, NextSetAside
<1>4. s = [stack EXCEPT ![n] = f]
  BY <1>2
<1>5. \A i \in DOMAIN q : ElementIn(q[i], Top.inner.data)
  <2> DEFINE ps == Top.polymorphs
  <2>1. ps \in Seq(PolymorphData) /\ ps # <<>> /\ q = Tail(ps)
    BY <1>1, <1>2
  <2>2. \A i \in DOMAIN ps : ElementIn(ps[i], Top.inner.data)
    BY <1>2 DEF AsideOK
  <2> HIDE DEF ps, q
  <2>3. Len(ps) \in Nat /\ DOMAIN ps = 1 .. Len(ps)
    BY <2>1, LenProperties
  <2>4. /\ Len(q) = Len(ps) - 1 /\ DOMAIN q = 1 .. Len(q)
        /\ \A i \in 1 .. Len(q) : q[i] = ps[i + 1]
    BY <1>3, <2>1, HeadTailProperties, LenProperties
  <2>5. \A i \in 1 .. Len(q) : i + 1 \in DOMAIN ps
    BY <2>3, <2>4
  <2> QED
    BY <2>2, <2>4, <2>5
<1> HIDE DEF q
<1>6. IsFrame(f) /\ AsideOK(f)
  <2>1. f = [Top EXCEPT !.polymorphs = q]
    BY <1>2
  <2>2. f.polymorphs = q
    BY <1>2, <2>1 DEF IsFrame
  <2> HIDE DEF f
  <2>3. IsFrame(f) /\ f.inner = Top.inner
    BY <1>2, <1>3, <2>1, FramePolymorphs
  <2> QED
    BY <1>5, <2>2, <2>3 DEF AsideOK
<1> HIDE DEF f
<1>7. PutOn(stack, f, s)
  BY <1>4 DEF PutOn
<1> HIDE DEF s
<1>8. Laid(s) /\ IsStack(s)
  BY <1>2, <1>6, <1>7, LaidPut
<1>9. IsFrame(g) /\ g.polymorphs = <<>>
  <2>1. PolymorphFrame(p, g)
    BY DEF PolymorphFrame
  <2>2. IsFrame(g)
    <3> HIDE DEF g, p
    <3> QED
      BY <1>3, <2>1, PolymorphFrameOK
  <2> QED
    BY <2>2
<1>10. PushOn(s, g, u)
  BY DEF PushOn
<1> HIDE DEF g, u
<1>11. AsideOK(g)
  BY <1>9, NoneAside
<1>12. Laid(u) /\ IsStack(u)
  BY <1>8, <1>9, <1>10, <1>11, LaidPush
<1>13. Beside(u, pc')
  BY <1>12, LaidBeside
<1> QED
  BY <1>1, <1>13

LEMMA KeepLaid ==
  ASSUME SInv, pc = "returned", stack # <<>>, NEW STATE f, IsFrame(f), Level(Top, f), Keep(f)
  PROVE  Beside(stack, pc)'
<1> DEFINE t == [stack EXCEPT ![Len(stack)] = f]
<1>1. stack' = t /\ PutOn(stack, f, t)
  BY DEF Keep, PutOn
<1> HIDE DEF t
<1>2. AsideOK(f)
  <2>1. AsideOK(Top)
    BY Alongside
  <2> QED
    BY <2>1, LevelAside
<1> QED
  BY <1>1, <1>2, PutLaid

LEMMA ReceiveItemLaid ==
  ASSUME SInv, ReceiveItem
  PROVE  Beside(stack, pc)'
<1> DEFINE x == Append(Top.items, Entry(<<>>, ret))
           f == [Top EXCEPT !.items = x, !.index = Top.index + 1]
           c == Top.inner
<1>1. /\ pc = "returned" /\ stack # <<>> /\ Top.type # "none"
      /\ FailInside(c) \/ Keep(f)
  BY DEF ReceiveItem, Receiving
<1>2. IsFrame(Top) /\ c.pos \in Int
  BY <1>1, Alongside, SoundParts DEF IsFrame
<1> HIDE DEF x, c
<1>3. IsFrame(f) /\ Level(Top, f)
  <2>1. Level(Top, f)
    BY <1>2, LevelFrames
  <2> QED
    BY <1>2, <2>1, FrameItem
<1> HIDE DEF f
<1>4. CASE FailInside(c)
  BY <1>1, <1>2, <1>4, FailInsideLaid
<1>5. CASE Keep(f)
  BY <1>1, <1>3, <1>5, KeepLaid
<1> QED
  BY <1>1, <1>4, <1>5

LEMMA ReceiveValueLaid ==
  ASSUME SInv, ReceiveValue
  PROVE  Beside(stack, pc)'
<1> DEFINE x == Append(Top.items, Entry(Top.key, ret))
           f == [Top EXCEPT !.items = x]
<1>1. pc = "returned" /\ stack # <<>> /\ Keep(f)
  BY DEF ReceiveValue, Receiving
<1>2. IsFrame(Top)
  BY <1>1, Alongside
<1> HIDE DEF x
<1>3. IsFrame(f) /\ Level(Top, f)
  BY <1>2, FrameItems, LevelFrames
<1> HIDE DEF f
<1> QED
  BY <1>1, <1>3, KeepLaid

LEMMA ReceiveFieldLaid ==
  ASSUME SInv, ReceiveField
  PROVE  Beside(stack, pc)'
<1> DEFINE x == Set(Top.items, Top.key, ret)
           f == [Top EXCEPT !.items = x]
<1>1. pc = "returned" /\ stack # <<>> /\ Keep(f)
  BY DEF ReceiveField, Receiving
<1>2. IsFrame(Top)
  BY <1>1, Alongside
<1> HIDE DEF x
<1>3. IsFrame(f) /\ Level(Top, f)
  BY <1>2, FrameItems, LevelFrames
<1> HIDE DEF f
<1> QED
  BY <1>1, <1>3, KeepLaid

LEMMA ReceivePolymorphLaid ==
  ASSUME SInv, ReceivePolymorph
  PROVE  Beside(stack, pc)'
<1> DEFINE b == Below(stack)
           g == b[Len(b)]
           x == Set(g.items, Top.key, ret)
           f == [g EXCEPT !.items = x]
           t == [b EXCEPT ![Len(b)] = f]
<1>1. /\ pc = "returned" /\ stack # <<>> /\ Top.type = "none"
      /\ stack' = [b EXCEPT ![Len(b)].items = Set(@, Top.key, ret)]
  BY DEF ReceivePolymorph
<1>2. stack' = t
  BY <1>1
<1>3. /\ Laid(b) /\ IsStack(b) /\ IsStack(stack) /\ RootOK(request, stack, "returned", caret)
      /\ Top = stack[Len(stack)] /\ Len(stack) \in Nat /\ Len(stack) >= 1
  BY <1>1, Alongside, Facts
<1>4. b # <<>>
  <2> DEFINE n == Len(stack)
  <2>1. stack[1].type # "none"
    BY <1>1, <1>3 DEF RootOK, Opened
  <2>2. n # 1 /\ n \in Nat /\ n >= 1
    BY <1>1, <1>3, <2>1
  <2>3. Len(b) = n - 1
    BY <1>1, <1>3, PopStack
  <2> HIDE DEF n, b
  <2>4. Len(b) # 0
    BY <2>2, <2>3
  <2> QED
    BY <1>3, <2>4, StackParts
<1> HIDE DEF b, x
<1>5. AsideOK(g) /\ IsFrame(g)
  BY <1>3, <1>4, LaidTop
<1> HIDE DEF g
<1>6. IsFrame(f) /\ Level(g, f)
  BY <1>5, FrameItems, LevelFrames
<1> HIDE DEF f
<1>7. AsideOK(f)
  BY <1>5, <1>6, LevelAside
<1>8. PutOn(b, f, t) /\ Beside(b, "returned")
  BY <1>3, LaidBeside DEF PutOn
<1> HIDE DEF t
<1>9. Laid(t) /\ IsStack(t)
  BY <1>3, <1>4, <1>6, <1>7, <1>8, LaidPut
<1>10. Beside(t, pc')
  BY <1>9, LaidBeside
<1> QED
  BY <1>2, <1>10

LEMMA ReadReturnsLaid ==
  ASSUME SInv, ReadReturns
  PROVE  Beside(stack, pc)'
BY SameStack DEF ReadReturns

LEMMA StutterLaid ==
  ASSUME SInv, UNCHANGED vars
  PROVE  Beside(stack, pc)'
BY DEF SInv, vars

-----------------------------------------------------------------------------
LEMMA InitSInv ==
  ASSUME Init
  PROVE  SInv
<1>1. stack = <<>> /\ IInv
  BY InitInv DEF Init
<1>2. Laid(<<>>)
  BY EmptyStack, StackParts DEF Laid
<1>3. Beside(stack, pc)
  BY <1>1, <1>2, EmptyStack, LaidBeside
<1> QED
  BY <1>1, <1>3 DEF SInv

LEMMA NextSInv ==
  ASSUME SInv, [Next]_vars
  PROVE  SInv'
<1> DEFINE P == Beside(stack, pc)'
<1> SUFFICES P
  BY NextInv DEF SInv
<1>1. CASE DeserializeScalar       BY <1>1, DeserializeScalarLaid
<1>2. CASE DeserializeInlineDocs   BY <1>2, DeserializeInlineDocsLaid
<1>3. CASE DeserializeAny          BY <1>3, DeserializeAnyLaid
<1>4. CASE DeserializeEnum         BY <1>4, DeserializeEnumLaid
<1>5. CASE DeserializeInterpreted
  BY <1>5, SameStack DEF DeserializeInterpreted, Calling
<1>6. CASE DeserializeUnknown
  BY <1>6, SameStack DEF DeserializeUnknown, Throw
<1>7. CASE OpenCompound            BY <1>7, OpenCompoundLaid
<1>8. CASE KeyFails                BY <1>8, KeyFailsLaid
<1>9. CASE CollectionElement       BY <1>9, CollectionElementLaid
<1>10. CASE MapElement             BY <1>10, MapElementLaid
<1>11. CASE FieldElement           BY <1>11, FieldElementLaid
<1>12. CASE PolymorphElement       BY <1>12, PolymorphElementLaid
<1>13. CASE UnknownElement         BY <1>13, UnknownElementLaid
<1>14. CASE CloseFails             BY <1>14, CloseFailsLaid
<1>15. CASE Close                  BY <1>15, CloseLaid
<1>16. CASE OpenPolymorph          BY <1>16, OpenPolymorphLaid
<1>17. CASE ReturnObject           BY <1>17, ReturnObjectLaid
<1>18. CASE ReceiveItem            BY <1>18, ReceiveItemLaid
<1>19. CASE ReceiveValue           BY <1>19, ReceiveValueLaid
<1>20. CASE ReceiveField           BY <1>20, ReceiveFieldLaid
<1>21. CASE ReceivePolymorph       BY <1>21, ReceivePolymorphLaid
<1>22. CASE ReadReturns            BY <1>22, ReadReturnsLaid
<1>23. CASE UNCHANGED vars         BY <1>23, StutterLaid
<1> QED
  BY <1>1, <1>2, <1>3, <1>4, <1>5, <1>6, <1>7, <1>8, <1>9, <1>10, <1>11, <1>12, <1>13,
     <1>14, <1>15, <1>16, <1>17, <1>18, <1>19, <1>20, <1>21, <1>22, <1>23
     DEF Next, Step, Finished

(* skipElement may leave the document and label.toString() may copy what   *)
(* lies behind it, but when the elements set aside are read, each of them  *)
(* is a whole element of the document, for any types, any bytes and        *)
(* whatever lies behind them.                                              *)
THEOREM SetAsideIntact == Spec => []SetAsideWhole
<1>1. SInv => SetAsideWhole
  <2> SUFFICES ASSUME SInv, pc = "polymorphs"
               PROVE  \A i \in DOMAIN Top.polymorphs : ElementIn(Top.polymorphs[i], Top.inner.data)
    BY DEF SetAsideWhole
  <2>1. stack # <<>>
    BY Alongside, InFrame
  <2>2. AsideOK(Top)
    BY <2>1, Alongside
  <2> QED
    BY <2>2 DEF AsideOK
<1>2. Init => SInv
  BY InitSInv
<1>3. SInv /\ [Next]_vars => SInv'
  BY NextSInv
<1> QED
  BY <1>1, <1>2, <1>3, PTL DEF Spec
=============================================================================
