--------------------------- MODULE SerializerProofs ---------------------------
(***************************************************************************)
(* Proofs about Serializer, for every set of values, roots and prefixes.   *)
(***************************************************************************)
EXTENDS Serializer, DataLemmas, FiniteSetTheorems

-----------------------------------------------------------------------------
(* Bytes. *)

LEMMA KeyBytesType ==
  ASSUME NEW key \in Key, NEW code \in BsonByte
  PROVE  KeyBytes(code, key) \in Seq(BsonByte)
<1>1. CASE key = NullKey
  BY <1>1 DEF KeyBytes
<1>2. CASE key # NullKey
  <2>1. <<code>> \in Seq(BsonByte) /\ <<0>> \in Seq(BsonByte)
    BY DEF BsonByte
  <2>2. key \in Seq(BsonByte)
    BY <1>2 DEF Key
  <2> QED
    BY <1>2, <2>1, <2>2, ConcatType DEF KeyBytes
<1> QED
  BY <1>1, <1>2

LEMMA DocumentBytesType ==
  ASSUME NEW inner \in Seq(BsonByte)
  PROVE  /\ DocumentBytes(inner) \in Seq(BsonByte)
         /\ Len(DocumentBytes(inner)) = Len(inner) + 5
         /\ \A i \in 1 .. 4 :
              DocumentBytes(inner)[i] = Int32Bytes(Len(inner) + 5)[i]
<1> DEFINE h == Int32Bytes(Len(inner) + 5)
<1>1. h \in Seq(BsonByte) /\ Len(h) = 4
  BY Int32BytesType
<1>2. <<0>> \in Seq(BsonByte) /\ Len(<<0>>) = 1
  BY DEF BsonByte
<1>3. DocumentBytes(inner) = h \o inner \o <<0>>
  BY DEF DocumentBytes
<1> HIDE DEF h
<1>4. /\ h \o inner \o <<0>> \in Seq(BsonByte)
      /\ Len(h \o inner \o <<0>>) = Len(h) + Len(inner) + Len(<<0>>)
      /\ \A i \in 1 .. Len(h) : (h \o inner \o <<0>>)[i] = h[i]
  BY <1>1, <1>2, AroundType, Zenon
<1>5. Len(DocumentBytes(inner)) = Len(inner) + 5
  <2>1. Len(DocumentBytes(inner)) = 4 + Len(inner) + 1
    BY <1>1, <1>2, <1>3, <1>4, Zenon
  <2> QED
    BY <2>1
<1>6. \A i \in 1 .. 4 : DocumentBytes(inner)[i] = h[i]
  BY <1>1, <1>3, <1>4, Zenon
<1>7. DocumentBytes(inner) \in Seq(BsonByte)
  BY <1>3, <1>4, Zenon
<1> QED
  BY <1>5, <1>6, <1>7, Zenon DEF h

(* Writing a size and reading it back, up to the largest int32. *)
LEMMA ScalarBytesType ==
  ASSUME NEW v, v.bytes \in Seq(BsonByte)
  PROVE  ScalarBytes(v) \in Seq(BsonByte)
<1>1. Int32Bytes(Len(v.bytes) + 1) \in Seq(BsonByte)
  <2>1. Len(v.bytes) + 1 \in Int
    OBVIOUS
  <2> QED
    BY <2>1, Int32BytesType, Zenon
<1>2. <<0>> \in Seq(BsonByte)
  BY DEF BsonByte
<1> QED
  BY <1>1, <1>2, AroundType, Zenon DEF ScalarBytes

(* The digits of an index are bytes, however many there are. *)
LEMMA DigitsType ==
  ASSUME NEW i \in Nat
  PROVE  Digits(i) \in 1 .. 10
<1> DEFINE P(n) == /\ n > 1  => PowerOf10[n] <= i
                   /\ n < 10 => i < PowerOf10[n + 1]
<1>1. \E n \in 1 .. 10 : P(n)
  <2>1. \/ P(1) \/ P(2) \/ P(3) \/ P(4) \/ P(5) \/ P(6) \/ P(7) \/ P(8) \/ P(9)
        \/ P(10)
    BY SMT DEF PowerOf10
  <2> HIDE DEF P
  <2> QED
    BY <2>1, SMT
<1> HIDE DEF P
<1>2. (CHOOSE n \in 1 .. 10 : P(n)) \in 1 .. 10
  BY <1>1, Zenon
<1> QED
  BY <1>2, Zenon DEF Digits, P

LEMMA IndexKeyIs ==
  ASSUME NEW i \in Nat
  PROVE  IndexKey(i) \in Seq(BsonByte) /\ \A k \in DOMAIN IndexKey(i) : IndexKey(i)[k] # 0
<1> DEFINE n == Digits(i)
           d(k) == 48 + ((i \div PowerOf10[n + 1 - k]) % 10)
<1>1. n \in 1 .. 10
  BY DigitsType, Zenon
<1> HIDE DEF n
<1>2. ASSUME NEW k \in 1 .. n
      PROVE  d(k) \in BsonByte /\ d(k) # 0
  <2>1. PowerOf10[n + 1 - k] \in Nat \ {0}
    BY <1>1, SMT DEF PowerOf10
  <2>2. i \div PowerOf10[n + 1 - k] \in Nat
    BY <2>1, DivNat
  <2> QED
    BY <2>2, SMT DEF BsonByte
<1> DEFINE s == [k \in 1 .. n |-> d(k)]
<1>3. s \in Seq(BsonByte) /\ \A k \in DOMAIN s : s[k] # 0
  <2> HIDE DEF d
  <2> QED
    BY <1>1, <1>2
<1>4. IndexKey(i) = s
  BY Zenon DEF IndexKey, n
<1> HIDE DEF s
<1> QED
  BY <1>3, <1>4

LEMMA IndexKeyType ==
  ASSUME NEW i \in Nat
  PROVE  IndexKey(i) \in Key
BY IndexKeyIs DEF Key

-----------------------------------------------------------------------------
(* Values and stacks. *)

LEMMA ValueType ==
  ASSUME NEW v \in Values
  PROVE  /\ v.null \in BOOLEAN
         /\ v.bytes \in Seq(BsonByte)
         /\ v.items \in Seq(ValueEntry)
BY ValuesAssumption

LEMMA EntryType ==
  ASSUME NEW e \in ValueEntry
  PROVE  /\ e.key \in Key /\ e.value \in Values
         /\ e.select \in {"none", "match", "mismatch"}
         /\ e.select # "none" => e.value.class = "Any"
BY DEF ValueEntry

LEMMA HeldType ==
  ASSUME NEW v \in Values, v.class \in Wrapper,
         v.null => v.class = "Interpreted"
  PROVE  v.items[1].value \in Values
<1>1. v.items # <<>>
  BY HeldAssumption
<1>2. v.items \in Seq(ValueEntry)
  BY ValueType
<1>3. v.items[1] \in ValueEntry
  BY <1>1, <1>2
<1> QED
  BY <1>3, EntryType

(* What a field with a typeSelector yields is a value again. *)
LEMMA SeenType ==
  ASSUME NEW e \in ValueEntry
  PROVE  Seen(e) \in Values
<1>1. CASE e.select = "none"
  BY <1>1, EntryType DEF Seen
<1>2. CASE e.select # "none" /\ e.value.null
  BY <1>2, ValuesAssumption DEF Seen
<1>3. CASE e.select # "none" /\ ~e.value.null
  <2>1. e.value \in Values /\ e.value.class \in Wrapper
    BY <1>3, EntryType DEF Wrapper
  <2>2. e.value.items[1].value \in Values
    BY <1>3, <2>1, HeldType
  <2> QED
    BY <1>3, <2>2 DEF Seen
<1> QED
  BY <1>1, <1>2, <1>3

LEMMA PutOnType ==
  ASSUME NEW stk \in Seq(Frame), NEW bytes \in Seq(BsonByte)
  PROVE  /\ PutOn(stk, bytes) \in Seq(Frame)
         /\ PutOn(stk, bytes) = <<>> <=> stk = <<>>
<1>1. CASE stk = <<>>
  BY <1>1 DEF PutOn
<1>2. CASE stk # <<>>
  <2> DEFINE n == Len(stk)
             f == stk[n]
             g == [f EXCEPT !.inner = f.inner \o bytes]
  <2>1. n \in 1 .. Len(stk) /\ f \in Frame
    BY <1>2
  <2>2. f.inner \o bytes \in Seq(BsonByte)
    <3>1. f.inner \in Seq(BsonByte)
      BY <2>1 DEF Frame
    <3> QED
      BY <3>1, ConcatType, Zenon
  <2>3. g \in Frame
    BY <2>1, <2>2 DEF Frame
  <2>4. PutOn(stk, bytes) = [stk EXCEPT ![n] = g]
    BY <1>2, <2>1 DEF PutOn
  <2> HIDE DEF n, g
  <2>5. [stk EXCEPT ![n] = g] \in Seq(Frame)
    BY <2>1, <2>3
  <2>6. [stk EXCEPT ![n] = g] # <<>>
    BY <1>2, <2>1
  <2> QED
    BY <1>2, <2>4, <2>5, <2>6
<1> QED
  BY <1>1, <1>2

LEMMA NextTodoType ==
  ASSUME NEW stk \in Seq(Frame), stk # <<>>, stk[Len(stk)].todo # <<>>,
         NEW step \in Nat
  PROVE  NextTodo(stk, step) \in Seq(Frame) /\ NextTodo(stk, step) # <<>>
<1> DEFINE n == Len(stk)
           f == stk[n]
           g == [f EXCEPT !.todo = Tail(f.todo), !.index = f.index + step]
<1>1. n \in 1 .. Len(stk) /\ f \in Frame
  OBVIOUS
<1>2. Tail(f.todo) \in Seq(ValueEntry) /\ f.index + step \in Nat
  BY <1>1 DEF Frame
<1>3. g \in Frame
  BY <1>1, <1>2 DEF Frame
<1>4. NextTodo(stk, step) = [stk EXCEPT ![n] = g]
  BY <1>1, <1>3 DEF NextTodo, Frame
<1> HIDE DEF n, g
<1> QED
  BY <1>1, <1>3, <1>4

LEMMA BelowType ==
  ASSUME NEW stk \in Seq(Frame), stk # <<>>
  PROVE  Below(stk) \in Seq(Frame)
BY DEF Below

LEMMA PutOutType ==
  ASSUME stream \in Seq(BsonByte), NEW stk, NEW bytes \in Seq(BsonByte)
  PROVE  PutOut(stk, bytes) \in Seq(BsonByte)
BY ConcatType, Zenon DEF PutOut

-----------------------------------------------------------------------------
(* The inductive invariant: besides what the runs check, the root call has *)
(* no key, and what it leaves behind is one sized document.                *)

RootKey == pc = "call" /\ stack = <<>> => call.key = NullKey

SizedBytes(bytes) ==
  Len(bytes) <= MaxInt32 =>
    Len(bytes) >= 5 /\ ReadInt32(Caret(bytes)).value = Len(bytes)

RootWritten ==
  pc = "done" => \E bytes \in Seq(BsonByte) :
                   stream = Prefix \o bytes /\ SizedBytes(bytes)

IInv == TypeOK /\ AtomicWrite /\ RootKey /\ RootWritten

(* A document is as long as its size field says. *)
LEMMA DocumentSized ==
  ASSUME NEW inner \in Seq(BsonByte)
  PROVE  SizedBytes(DocumentBytes(inner))
<1> DEFINE bytes == DocumentBytes(inner)
           c == Caret(bytes)
           n == Len(inner) + 5
<1>1. /\ bytes \in Seq(BsonByte) /\ Len(bytes) = n /\ n \in Nat /\ n >= 5
      /\ \A i \in 1 .. 4 : bytes[i] = Int32Bytes(n)[i]
  BY DocumentBytesType
<1> HIDE DEF bytes, n
<1>2. c.data = bytes /\ c.pos = 0 /\ Left(c) = n
  BY <1>1 DEF Caret, Left, DataSize
<1>3. \A i \in 1 .. 4 : CurrBytes(c, 4)[i] = Int32Bytes(n)[i]
  BY <1>1, <1>2 DEF CurrBytes
<1> HIDE DEF c
<1>4. n <= MaxInt32 => Int32At(c) = n
  <2>1. n \in Int /\ -MaxInt32 - 1 <= n
    BY <1>1 DEF MaxInt32
  <2> QED
    BY <1>3, <2>1, Int32RoundTrip
<1>5. ReadInt32(c).value = Int32At(c)
  BY <1>1, <1>2 DEF ReadInt32
<1> QED
  BY <1>1, <1>4, <1>5 DEF SizedBytes, bytes, c

(* A method writes and returns, to the stream below which stk is open. *)
LEMMA ReturnStep ==
  ASSUME TypeOK, AtomicWrite, pc # "done",
         NEW stk \in Seq(Frame), NEW bytes \in Seq(BsonByte),
         stk = <<>> => SizedBytes(bytes),
         stream' = PutOut(stk, bytes), stack' = PutOn(stk, bytes),
         Return(stk), UNCHANGED <<config, root, call>>
  PROVE  IInv'
<1>1. stream = Prefix /\ stream \in Seq(BsonByte)
  BY DEF AtomicWrite, TypeOK
<1>2. stack' \in Seq(Frame) /\ (stack' = <<>> <=> stk = <<>>)
  BY PutOnType
<1>3. stream' \in Seq(BsonByte)
  BY <1>1, PutOutType
<1>4. TypeOK'
  BY <1>2, <1>3 DEF TypeOK, Return
<1>5. AtomicWrite'
  BY <1>1 DEF AtomicWrite, Return, PutOut
<1>6. RootKey'
  BY DEF RootKey, Return
<1>7. RootWritten'
  BY <1>1 DEF RootWritten, Return, PutOut
<1> QED
  BY <1>4, <1>5, <1>6, <1>7 DEF IInv

LEMMA WriteStep ==
  ASSUME IInv, pc # "done", NEW bytes \in Seq(BsonByte),
         stack = <<>> => SizedBytes(bytes), Write(bytes)
  PROVE  IInv'
BY ReturnStep DEF IInv, TypeOK, Write

LEMMA WriteNullStep ==
  ASSUME IInv, pc = "call", call.key # NullKey, WriteNull
  PROVE  IInv'
<1>1. KeyBytes(NULL_VALUE, call.key) \in Seq(BsonByte)
  BY KeyBytesType DEF IInv, TypeOK, BsonByte, NULL_VALUE
<1>2. stack # <<>>
  BY DEF IInv, RootKey
<1> QED
  BY <1>1, <1>2, WriteStep DEF WriteNull

LEMMA ThrowStep ==
  ASSUME IInv, pc # "done", NEW failure \in Failures, Throw(failure)
  PROVE  IInv'
<1>1. failure \notin {"call", "iterate", "done"}
  BY DEF Failures
<1>2. <<>> \in Seq(Frame)
  OBVIOUS
<1> QED
  BY <1>1, <1>2 DEF IInv, TypeOK, AtomicWrite, RootKey, RootWritten, Throw

LEMMA DelegateStep ==
  ASSUME IInv, pc = "call", NEW value \in Values, Delegate(value)
  PROVE  IInv'
BY DEF IInv, TypeOK, AtomicWrite, RootKey, RootWritten, Delegate

LEMMA NullStep ==
  ASSUME IInv, NEW classes, SerializeNull(classes)
  PROVE  IInv'
<1>1. pc = "call"
  BY DEF SerializeNull, Calling
<1>2. CASE call.key # NullKey
  BY <1>1, <1>2, WriteNullStep DEF SerializeNull
<1>3. CASE call.key = NullKey
  <2>1. Throw("null object with null key")
    BY <1>3 DEF SerializeNull
  <2> QED
    BY <1>1, <2>1, ThrowStep DEF Failures
<1> QED
  BY <1>2, <1>3

-----------------------------------------------------------------------------
(* One lemma per action. *)

LEMMA InitInv == Init => IInv
<1> SUFFICES ASSUME Init PROVE IInv
  OBVIOUS
<1>1. <<>> \in Seq(Frame)
  OBVIOUS
<1> QED
  BY <1>1, ValuesAssumption
     DEF Init, IInv, TypeOK, AtomicWrite, RootKey, RootWritten, Key

LEMMA CallType ==
  ASSUME IInv
  PROVE  /\ call.value \in Values /\ call.key \in Key
         /\ pc = "call" /\ call.key # NullKey => stack # <<>>
BY DEF IInv, TypeOK, RootKey

(* Elements with a key: a scalar, or the scalar an Enum stands for. *)
LEMMA KeyedWriteStep ==
  ASSUME IInv, pc = "call", call.key # NullKey, NEW v \in Values,
         v.class \in ScalarClass,
         Write(KeyBytes(ScalarCode[v.class], call.key) \o ScalarBytes(v))
  PROVE  IInv'
<1> DEFINE head == KeyBytes(ScalarCode[v.class], call.key)
<1>1. ScalarCode[v.class] \in BsonByte
  BY SMT DEF ScalarClass, ScalarCode, BsonByte, STRING_CODE, INT_32, INT_64,
     TIMESTAMP, DOUBLE, BOOLEAN_CODE, OBJECT_ID, DATE_TIME
<1>2. head \in Seq(BsonByte)
  BY <1>1, CallType, KeyBytesType
<1>3. ScalarBytes(v) \in Seq(BsonByte)
  BY ValueType, ScalarBytesType
<1>4. head \o ScalarBytes(v) \in Seq(BsonByte)
  BY <1>2, <1>3, ConcatType, Zenon
<1> QED
  BY <1>4, CallType, WriteStep

LEMMA ScalarStep == IInv /\ SerializeScalar => IInv'
<1> SUFFICES ASSUME IInv, SerializeScalar PROVE IInv'
  OBVIOUS
<1>1. pc = "call" /\ call.value.class \in ScalarClass
  BY DEF SerializeScalar, Calling
<1>2. CASE call.key = NullKey
  BY <1>1, <1>2, ThrowStep DEF SerializeScalar, Failures
<1>3. CASE call.key # NullKey /\ call.value.null
  BY <1>1, <1>3, WriteNullStep DEF SerializeScalar
<1>4. CASE call.key # NullKey /\ ~call.value.null
  BY <1>1, <1>4, CallType, KeyedWriteStep DEF SerializeScalar
<1> QED
  BY <1>2, <1>3, <1>4

LEMMA InlineStep == IInv /\ SerializeInlineDocs => IInv'
<1> SUFFICES ASSUME IInv, SerializeInlineDocs PROVE IInv'
  OBVIOUS
<1>1. CASE SerializeNull(Inline)
  BY <1>1, NullStep
<1>2. CASE ~SerializeNull(Inline)
  <2> DEFINE v == call.value
             head == KeyBytes(InlineCode(v.class), call.key)
  <2>1. pc = "call"
    BY <1>2 DEF SerializeInlineDocs, Calling
  <2>2. CASE ~InlineIsValid(v.bytes)
    <3>1. Throw("invalid inline object")
      BY <1>2, <2>2 DEF SerializeInlineDocs
    <3> QED
      BY <2>1, <3>1, ThrowStep DEF Failures
  <2>3. CASE InlineIsValid(v.bytes)
    <3>1. Write(head \o v.bytes)
      BY <1>2, <2>3 DEF SerializeInlineDocs
    <3>2. InlineCode(v.class) \in BsonByte
      BY DEF InlineCode, BsonByte, DOCUMENT_EMBEDDED, DOCUMENT_ARRAY
    <3>3. head \in Seq(BsonByte) /\ v.bytes \in Seq(BsonByte)
      BY <3>2, CallType, KeyBytesType, ValueType
    <3>4. head \o v.bytes \in Seq(BsonByte)
      BY <3>3, ConcatType, Zenon
    <3>5. stack = <<>> => head \o v.bytes = v.bytes
      <4>1. stack = <<>> => head = <<>>
        BY <2>1 DEF IInv, RootKey, KeyBytes
      <4> HIDE DEF head
      <4> QED
        BY <3>3, <4>1
    <3>6. SizedBytes(v.bytes)
      BY <2>3, <3>3 DEF InlineIsValid, SizedBytes
    <3> QED
      BY <2>1, <3>1, <3>4, <3>5, <3>6, WriteStep
  <2> QED
    BY <2>2, <2>3
<1> QED
  BY <1>1, <1>2

LEMMA AnyStep == IInv /\ SerializeAny => IInv'
<1> SUFFICES ASSUME IInv, SerializeAny PROVE IInv'
  OBVIOUS
<1>1. CASE SerializeNull({"Any"})
  BY <1>1, NullStep
<1>2. CASE ~SerializeNull({"Any"})
  <2>1. pc = "call" /\ call.value.class \in Wrapper /\ ~call.value.null
    BY <1>2 DEF SerializeAny, Calling, Wrapper
  <2>2. call.value.items[1].value \in Values
    BY <2>1, CallType, HeldType
  <2> QED
    BY <1>2, <2>1, <2>2, DelegateStep DEF SerializeAny
<1> QED
  BY <1>1, <1>2

LEMMA EnumStep == IInv /\ SerializeEnum => IInv'
<1> SUFFICES ASSUME IInv, SerializeEnum PROVE IInv'
  OBVIOUS
<1> DEFINE v == call.value
<1>1. pc = "call" /\ v.class \in {"Enum", "NotNullEnum"} /\ v \in Values
  BY CallType DEF SerializeEnum, Calling
<1>2. CASE call.key = NullKey
  BY <1>1, <1>2, ThrowStep DEF SerializeEnum, Failures
<1>3. CASE call.key # NullKey /\ v.null
  BY <1>1, <1>3, ThrowStep, WriteNullStep DEF SerializeEnum, Failures
<1>4. CASE call.key # NullKey /\ ~v.null
  <2>1. v.items[1].value \in Values /\ v.items[1].value.class \in ScalarClass
    BY <1>1, <1>4, HeldType, HeldAssumption DEF Wrapper
  <2> QED
    BY <1>1, <1>4, <2>1, KeyedWriteStep DEF SerializeEnum
<1> QED
  BY <1>2, <1>3, <1>4

LEMMA InterpretedStep == IInv /\ SerializeInterpreted => IInv'
<1> SUFFICES ASSUME IInv, SerializeInterpreted PROVE IInv'
  OBVIOUS
<1>1. pc = "call" /\ call.value.class = "Interpreted"
  BY DEF SerializeInterpreted, Calling
<1>2. call.value.items[1].value \in Values
  BY <1>1, CallType, HeldType DEF Wrapper
<1> QED
  BY <1>1, <1>2, DelegateStep DEF SerializeInterpreted

LEMMA UnknownStep == IInv /\ SerializeUnknown => IInv'
BY ThrowStep DEF SerializeUnknown, Failures

LEMMA OpenStep == IInv /\ OpenCompound => IInv'
<1> SUFFICES ASSUME IInv, OpenCompound PROVE IInv'
  OBVIOUS
<1>1. CASE SerializeNull(Compound)
  BY <1>1, NullStep
<1>2. CASE ~SerializeNull(Compound)
  <2> DEFINE v     == call.value
             bytes == KeyBytes(CompoundCode(v.class), call.key)
             frame == [class |-> v.class, todo |-> v.items, index |-> 0,
                       inner |-> <<>>]
  <2>1. /\ pc = "call" /\ v.class \in Compound
        /\ stream' = PutOut(stack, bytes)
        /\ stack' = Append(PutOn(stack, bytes), frame)
        /\ pc' = "iterate"
        /\ UNCHANGED <<config, root, call>>
    BY <1>2 DEF OpenCompound, Calling
  <2>2. CompoundCode(v.class) \in BsonByte
    BY DEF CompoundCode, BsonByte, DOCUMENT_EMBEDDED, DOCUMENT_ARRAY
  <2>3. bytes \in Seq(BsonByte) /\ (stack = <<>> => bytes = <<>>)
    <3>1. bytes \in Seq(BsonByte)
      BY <2>2, CallType, KeyBytesType
    <3>2. stack = <<>> => bytes = <<>>
      BY <2>1 DEF IInv, RootKey, KeyBytes
    <3> QED
      BY <3>1, <3>2
  <2>4. frame \in Frame
    BY <2>1, CallType, ValueType DEF Frame
  <2> HIDE DEF bytes, frame
  <2>5. PutOn(stack, bytes) \in Seq(Frame)
    BY <2>3, PutOnType DEF IInv, TypeOK
  <2>6. stack' \in Seq(Frame) /\ stack' # <<>>
    <3> HIDE DEF v
    <3> QED
      BY <2>1, <2>4, <2>5
  <2>7. stream' \in Seq(BsonByte) /\ stream' = stream
    BY <2>1, <2>3 DEF PutOut, IInv, TypeOK
  <2> QED
    BY <2>1, <2>6, <2>7
       DEF IInv, TypeOK, AtomicWrite, RootKey, RootWritten
<1> QED
  BY <1>1, <1>2

LEMMA HeadType ==
  ASSUME IInv, Iterating
  PROVE  /\ pc = "iterate" /\ stack \in Seq(Frame) /\ stack # <<>>
         /\ Top = stack[Len(stack)] /\ Top \in Frame /\ Top.todo # <<>>
         /\ Head(Top.todo) \in ValueEntry
<1>1. /\ pc = "iterate" /\ stack \in Seq(Frame) /\ stack # <<>>
      /\ Top = stack[Len(stack)] /\ Top.todo # <<>>
  BY DEF IInv, TypeOK, Iterating, Top
<1>2. Top \in Frame
  BY <1>1
<1>3. Top.todo \in Seq(ValueEntry)
  BY <1>2 DEF Frame
<1> QED
  BY <1>1, <1>2, <1>3

LEMMA SkipStep == IInv /\ SkipEntry => IInv'
<1> SUFFICES ASSUME IInv, SkipEntry PROVE IInv'
  OBVIOUS
<1>1. stack' = NextTodo(stack, 0) /\ Iterating
  BY DEF SkipEntry
<1>2. stack' \in Seq(Frame) /\ stack' # <<>>
  BY <1>1, HeadType, NextTodoType
<1> QED
  BY <1>2 DEF SkipEntry, IInv, TypeOK, AtomicWrite, RootKey, RootWritten

LEMMA EntryStep == IInv /\ WriteEntry => IInv'
<1> SUFFICES ASSUME IInv, WriteEntry PROVE IInv'
  OBVIOUS
<1> DEFINE e == Head(Top.todo)
<1>1. stack' = NextTodo(stack, 1) /\ Iterating /\ pc' = "call"
  BY DEF WriteEntry
<1>2. stack' \in Seq(Frame) /\ stack' # <<>>
  BY <1>1, HeadType, NextTodoType
<1>3. e.key \in Key /\ Seen(e) \in Values /\ IndexKey(Top.index) \in Key
  BY <1>1, HeadType, EntryType, SeenType, IndexKeyType DEF Frame
<1>4. call' \in [key : Key, value : Values]
  BY <1>3 DEF WriteEntry
<1> QED
  BY <1>1, <1>2, <1>4, HeadType
     DEF WriteEntry, IInv, TypeOK, AtomicWrite, RootKey, RootWritten

LEMMA RetrieveStep == IInv /\ RetrieveFails => IInv'
BY ThrowStep DEF RetrieveFails, Iterating, Failures

LEMMA CloseStep == IInv /\ CloseCompound => IInv'
<1> SUFFICES ASSUME IInv, CloseCompound PROVE IInv'
  OBVIOUS
<1> DEFINE bytes == DocumentBytes(Top.inner)
<1>1. pc = "iterate" /\ stack \in Seq(Frame) /\ stack # <<>>
  BY DEF IInv, TypeOK, CloseCompound
<1>2. Top \in Frame
  BY <1>1 DEF Top
<1>3. bytes \in Seq(BsonByte) /\ SizedBytes(bytes)
  BY <1>2, DocumentBytesType, DocumentSized DEF Frame
<1>4. Below(stack) \in Seq(Frame)
  BY <1>1, BelowType
<1>5. TypeOK /\ AtomicWrite
  BY DEF IInv
<1> QED
  BY <1>1, <1>3, <1>4, <1>5, ReturnStep DEF CloseCompound

LEMMA NextInv == IInv /\ [Next]_vars => IInv'
<1> SUFFICES ASSUME IInv, [Next]_vars PROVE IInv'
  OBVIOUS
<1>1. CASE Step
  BY <1>1, ScalarStep, InlineStep, AnyStep, EnumStep, InterpretedStep,
     UnknownStep, OpenStep, SkipStep, EntryStep, RetrieveStep, CloseStep
     DEF Step
<1>2. CASE UNCHANGED vars
  BY <1>2 DEF vars, IInv, TypeOK, AtomicWrite, RootKey, RootWritten
<1> QED
  BY <1>1, <1>2 DEF Next, Finished

LEMMA Invariant == Spec => []IInv
<1> QED
  BY InitInv, NextInv, PTL DEF Spec

-----------------------------------------------------------------------------
(* Frames hold bytes and entries, and a loop runs only where there is a    *)
(* frame, for every set of values. *)
THEOREM TypeCorrect == Spec => []TypeOK
<1>1. IInv => TypeOK
  BY DEF IInv
<1> QED
  BY <1>1, Invariant, PTL

(* No exception leaves a part of a document in the caller's stream. *)
THEOREM Atomicity == Spec => []AtomicWrite
<1>1. IInv => AtomicWrite
  BY DEF IInv
<1> QED
  BY <1>1, Invariant, PTL

(* What a normal return appends is as long as its first four bytes say, of *)
(* a document of any depth and length that an int32 can count. *)
THEOREM SizesCount == Spec => []SizedRoot
<1>1. IInv => SizedRoot
  <2> SUFFICES ASSUME IInv, pc = "done" PROVE SizedRoot
    BY DEF SizedRoot
  <2>1. PICK bytes \in Seq(BsonByte) : stream = Prefix \o bytes /\ SizedBytes(bytes)
    BY DEF IInv, RootWritten
  <2> DEFINE c == Inc(Caret(stream), Len(Prefix))
             d == Caret(bytes)
  <2>2. /\ Prefix \in Seq(BsonByte)
        /\ c.data = Prefix \o bytes /\ c.pos = Len(Prefix)
        /\ d.data = bytes /\ d.pos = 0
    BY <2>1, ValuesAssumption DEF Inc, Caret
  <2> HIDE DEF c, d
  <2>3. Left(c) = Len(bytes) /\ Left(d) = Len(bytes)
    BY <2>2 DEF Left, DataSize
  <2>4. CASE Len(bytes) >= 4
    <3>1. \A i \in 1 .. 4 : CurrBytes(c, 4)[i] = CurrBytes(d, 4)[i]
      BY <2>2, <2>4 DEF CurrBytes
    <3>2. Int32At(c) = Int32At(d)
      BY <3>1, SMT DEF Int32At
    <3>3. ReadInt32(c).value = Int32At(c) /\ ReadInt32(d).value = Int32At(d)
      BY <2>3, <2>4 DEF ReadInt32
    <3> QED
      BY <2>1, <2>3, <3>2, <3>3 DEF SizedBytes, SizedRoot, c, d
  <2>5. CASE ~(Len(bytes) >= 4)
    BY <2>1, <2>3, <2>5, SMT DEF SizedBytes, SizedRoot, MaxInt32, c
  <2> QED
    BY <2>4, <2>5
<1> QED
  BY <1>1, Invariant, PTL

-----------------------------------------------------------------------------
(* The document that stands for a value.  What a frame has written is the  *)
(* beginning of the elements of a value, and what the frames above it have *)
(* still to write is the encoding of the value of the frame above.         *)

LEMMA EncodingType ==
  ASSUME NEW nulls \in BOOLEAN, NEW v \in Values
  PROVE  /\ Encoding[nulls][v] \in [code : BsonByte, bytes : Seq(BsonByte)]
         /\ Encoding[nulls][v].code \in BsonByte
         /\ Encoding[nulls][v].bytes \in Seq(BsonByte)
<1>1. Encoding[nulls] \in [Values -> [code : BsonByte, bytes : Seq(BsonByte)]]
  BY EncodingAssumption, Zenon
<1>2. Encoding[nulls][v] \in [code : BsonByte, bytes : Seq(BsonByte)]
  BY <1>1, Zenon
<1> QED
  BY <1>2

LEMMA EntryValueType ==
  ASSUME NEW e \in ValueEntry
  PROVE  EntryValue(e) \in Values
<1>1. CASE e.select = "none" \/ e.value.null
  BY <1>1, EntryType DEF EntryValue
<1>2. CASE ~(e.select = "none" \/ e.value.null)
  <2>1. e.value \in Values /\ e.value.class \in Wrapper
    BY <1>2, EntryType DEF Wrapper
  <2>2. e.value.items[1].value \in Values
    BY <1>2, <2>1, HeldType
  <2> QED
    BY <1>2, <2>2 DEF EntryValue
<1> QED
  BY <1>1, <1>2

(* The number of an item grows by one behind each item kept. *)
LEMMA NumberType ==
  ASSUME NEW v, NEW i \in Nat \ {0}, NEW nulls
  PROVE  /\ Number(v, i, nulls) \in Nat
         /\ i = 1 => Number(v, i, nulls) = 0
         /\ Number(v, i + 1, nulls) =
              Number(v, i, nulls) + (IF Kept(v, i, nulls) THEN 1 ELSE 0)
<1> DEFINE S == { j \in 1 .. i - 1 : Kept(v, j, nulls) }
           T == { j \in 1 .. (i + 1) - 1 : Kept(v, j, nulls) }
<1>1. IsFiniteSet(S)
  <2>1. IsFiniteSet(1 .. i - 1)
    BY FS_Interval
  <2> QED
    BY <2>1, FS_Subset
<1>2. Cardinality(S) \in Nat
  BY <1>1, FS_CardinalityType
<1>3. i = 1 => S = {}
  OBVIOUS
<1>4. i \notin S
  OBVIOUS
<1>5. T = IF Kept(v, i, nulls) THEN S \cup {i} ELSE S
  OBVIOUS
<1> HIDE DEF S, T
<1>6. Cardinality(T) = Cardinality(S) + (IF Kept(v, i, nulls) THEN 1 ELSE 0)
  <2>1. CASE Kept(v, i, nulls)
    <3>1. Cardinality(S \cup {i}) = Cardinality(S) + 1
      BY <1>1, <1>4, FS_AddElement
    <3> QED
      BY <1>5, <2>1, <3>1
  <2>2. CASE ~Kept(v, i, nulls)
    BY <1>2, <1>5, <2>2
  <2> QED
    BY <2>1, <2>2
<1>7. i = 1 => Cardinality(S) = 0
  BY <1>3, FS_EmptySet
<1> QED
  BY <1>2, <1>6, <1>7 DEF Number, S, T

LEMMA ElementBytesType ==
  ASSUME NEW nulls \in BOOLEAN, NEW v \in Values, NEW key \in Key
  PROVE  ElementBytes(key, Encoding[nulls][v]) \in Seq(BsonByte)
<1> DEFINE x == Encoding[nulls][v]
<1>1. x.code \in BsonByte /\ x.bytes \in Seq(BsonByte)
  BY EncodingType
<1> HIDE DEF x
<1>2. KeyBytes(x.code, key) \in Seq(BsonByte)
  BY <1>1, KeyBytesType
<1>3. KeyBytes(x.code, key) \o x.bytes \in Seq(BsonByte)
  BY <1>1, <1>2, ConcatType, Zenon
<1> QED
  BY <1>3 DEF ElementBytes, x

LEMMA PartType ==
  ASSUME NEW nulls \in BOOLEAN, NEW v \in Values, NEW i \in 1 .. Len(v.items)
  PROVE  /\ v.items[i] \in ValueEntry /\ EntryValue(v.items[i]) \in Values
         /\ KeyOf(v, i, nulls) \in Key
         /\ Parts(v, nulls)[i] =
              IF Kept(v, i, nulls)
              THEN ElementBytes(KeyOf(v, i, nulls), Encoding[nulls][EntryValue(v.items[i])])
              ELSE <<>>
         /\ Parts(v, nulls)[i] \in Seq(BsonByte)
<1>1. v.items \in Seq(ValueEntry)
  BY ValueType
<1>2. v.items[i] \in ValueEntry
  BY <1>1
<1>3. EntryValue(v.items[i]) \in Values /\ v.items[i].key \in Key
  BY <1>2, EntryValueType, EntryType
<1>4. KeyOf(v, i, nulls) \in Key
  <2>1. i \in Nat \ {0}
    OBVIOUS
  <2>2. Number(v, i, nulls) \in Nat
    BY <2>1, NumberType
  <2> QED
    BY <1>3, <2>2, IndexKeyType DEF KeyOf
<1>5. Parts(v, nulls)[i] =
        IF Kept(v, i, nulls)
        THEN ElementBytes(KeyOf(v, i, nulls), Encoding[nulls][EntryValue(v.items[i])])
        ELSE <<>>
  BY DEF Parts
<1>6. ElementBytes(KeyOf(v, i, nulls), Encoding[nulls][EntryValue(v.items[i])])
        \in Seq(BsonByte)
  BY <1>3, <1>4, ElementBytesType
<1>7. <<>> \in Seq(BsonByte)
  OBVIOUS
<1> QED
  BY <1>2, <1>3, <1>4, <1>5, <1>6, <1>7, Zenon

LEMMA PartsType ==
  ASSUME NEW nulls \in BOOLEAN, NEW v \in Values
  PROVE  Parts(v, nulls) \in Seq(Seq(BsonByte)) /\ Len(Parts(v, nulls)) = Len(v.items)
<1>1. Len(v.items) \in Nat
  BY ValueType, LenProperties
<1>2. \A i \in 1 .. Len(v.items) : Parts(v, nulls)[i] \in Seq(BsonByte)
  BY PartType
<1> DEFINE n == Len(v.items)
           part(i) ==
             IF Kept(v, i, nulls)
             THEN ElementBytes(KeyOf(v, i, nulls), Encoding[nulls][EntryValue(v.items[i])])
             ELSE <<>>
<1>3. Parts(v, nulls) = [i \in 1 .. n |-> part(i)]
  BY DEF Parts
<1>4. \A i \in 1 .. n : part(i) \in Seq(BsonByte)
  BY <1>2, <1>3
<1> HIDE DEF n, part
<1>5. /\ [i \in 1 .. n |-> part(i)] \in Seq(Seq(BsonByte))
      /\ Len([i \in 1 .. n |-> part(i)]) = n
  BY <1>1, <1>4 DEF n
<1> QED
  BY <1>3, <1>5 DEF n

LEMMA StandsForIs ==
  ASSUME NEW v, NEW nulls, NEW x, x = StandsFor(v, nulls)
  PROVE  /\ StandsForItem(v) => x = Encoding[nulls][v.items[1].value]
         /\ ~StandsForItem(v) /\ v.null => x = Element(NULL_VALUE, <<>>)
         /\ ~v.null /\ v.class \in ScalarClass =>
              x = Element(ScalarCode[v.class], ScalarBytes(v))
         /\ ~v.null /\ v.class \in Inline =>
              x = Element(InlineCode(v.class), v.bytes)
         /\ ~v.null /\ v.class \in Compound =>
              x = Element(CompoundCode(v.class),
                          DocumentBytes(FlattenSeq(Parts(v, nulls))))
<1>1. StandsForItem(v) => v.class \in Wrapper
  BY DEF StandsForItem, Wrapper
<1>2. /\ \A c \in Wrapper  : c \notin ScalarClass /\ c \notin Inline /\ c \notin Compound
      /\ \A c \in Inline   : c \notin ScalarClass /\ c \notin Compound
      /\ \A c \in Compound : c \notin ScalarClass
  BY DEF Wrapper, ScalarClass, ScalarCode, Inline, Compound
<1> DEFINE A == StandsForItem(v)
           S == v.class \in ScalarClass
           I == v.class \in Inline
           C == v.class \in Compound
           a == Encoding[nulls][v.items[1].value]
           n == Element(NULL_VALUE, <<>>)
           s == Element(ScalarCode[v.class], ScalarBytes(v))
           i == Element(InlineCode(v.class), v.bytes)
           c == Element(CompoundCode(v.class), DocumentBytes(FlattenSeq(Parts(v, nulls))))
<1>3. x = CASE A -> a [] ~A /\ v.null -> n [] ~v.null /\ S -> s [] ~v.null /\ I -> i
            [] ~v.null /\ C -> c
  BY DEF StandsFor, InlineCode, CompoundCode
<1>4. /\ A => ~S /\ ~I /\ ~C
      /\ I => ~S /\ ~C
      /\ C => ~S
  BY <1>1, <1>2
<1> HIDE DEF A, S, I, C, a, n, s, i, c
<1>5. /\ A => x = a
      /\ ~A /\ v.null => x = n
      /\ ~v.null /\ S => x = s
      /\ ~v.null /\ I => x = i
      /\ ~v.null /\ C => x = c
  BY <1>3, <1>4
<1> QED
  BY <1>5 DEF A, S, I, C, a, n, s, i, c

LEMMA StandsForScalar ==
  ASSUME NEW v, NEW nulls, ~v.null, v.class \in ScalarClass
  PROVE  StandsFor(v, nulls) = Element(ScalarCode[v.class], ScalarBytes(v))
BY StandsForIs

LEMMA StandsForInline ==
  ASSUME NEW v, NEW nulls, ~v.null, v.class \in Inline
  PROVE  StandsFor(v, nulls) = Element(InlineCode(v.class), v.bytes)
BY StandsForIs

LEMMA ElementBytesIs ==
  ASSUME NEW key, NEW code, NEW bytes
  PROVE  ElementBytes(key, Element(code, bytes)) = KeyBytes(code, key) \o bytes
BY DEF ElementBytes, Element

(* What a field with a typeSelector yields is encoded as what it holds: a  *)
(* null Any and a null of another class as a null. *)
LEMMA SeenEncoding ==
  ASSUME NEW nulls \in BOOLEAN, NEW e \in ValueEntry
  PROVE  /\ Encoding[nulls][Seen(e)] = Encoding[nulls][EntryValue(e)]
         /\ Seen(e).null = EntryValue(e).null
<1>1. CASE e.select = "none" \/ ~e.value.null
  BY <1>1 DEF Seen, EntryValue
<1>2. CASE e.select # "none" /\ e.value.null
  <2> DEFINE o == NullOf("Object")
  <2>1. Seen(e) = o /\ EntryValue(e) = e.value
    BY <1>2 DEF Seen, EntryValue
  <2>2. o \in Values /\ o.null /\ o.class = "Object"
    BY ValuesAssumption DEF NullOf
  <2>3. e.value \in Values /\ e.value.null /\ e.value.class = "Any"
    BY <1>2, EntryType
  <2> HIDE DEF o
  <2>4. Encoding[nulls][o] = Element(NULL_VALUE, <<>>)
    <3>1. ~StandsForItem(o)
      BY <2>2 DEF StandsForItem
    <3>2. Encoding[nulls][o] = StandsFor(o, nulls)
      BY <2>2, EncodingAssumption DEF Compound
    <3> QED
      BY <2>2, <3>1, <3>2 DEF StandsFor
  <2>5. Encoding[nulls][e.value] = Element(NULL_VALUE, <<>>)
    <3>1. ~StandsForItem(e.value)
      BY <2>3 DEF StandsForItem
    <3>2. Encoding[nulls][e.value] = StandsFor(e.value, nulls)
      BY <2>3, EncodingAssumption DEF Wrapper
    <3> QED
      BY <2>3, <3>1, <3>2 DEF StandsFor
  <2> QED
    BY <2>1, <2>2, <2>3, <2>4, <2>5
<1> QED
  BY <1>1, <1>2

(* Of value v frame f has visited m items, and has written the elements of *)
(* these but for the bytes rest. *)
Shows(f, v, m, nulls, rest) ==
  /\ v.class = f.class /\ v.class \in Compound /\ ~v.null
  /\ m <= Len(v.items) /\ Len(f.todo) = Len(v.items) - m
  /\ \A i \in 1 .. Len(f.todo) : f.todo[i] = v.items[m + i]
  /\ f.index = Number(v, m + 1, nulls)
  /\ f.inner \o rest = First(Parts(v, nulls), m)

Shown(stk, V, M, nulls, rest) ==
  /\ V \in [1 .. Len(stk) -> Values] /\ M \in [1 .. Len(stk) -> Nat]
  /\ \A k \in 1 .. Len(stk) :
       Shows(stk[k], V[k], M[k], nulls,
             IF k < Len(stk) THEN Encoding[nulls][V[k + 1]].bytes ELSE rest)

(* The open frames write document doc, up to the bytes rest. *)
Encoded(stk, nulls, doc, rest) ==
  \E V, M : /\ Shown(stk, V, M, nulls, rest)
            /\ stk # <<>> => Encoding[nulls][V[1]].bytes = doc

(* Bytes written are no longer to be written. *)
LEMMA PutEncoded ==
  ASSUME NEW nulls \in BOOLEAN, NEW doc, NEW stk \in Seq(Frame), stk # <<>>,
         NEW bytes \in Seq(BsonByte), NEW rest \in Seq(BsonByte),
         Encoded(stk, nulls, doc, bytes \o rest)
  PROVE  Encoded(PutOn(stk, bytes), nulls, doc, rest)
<1> DEFINE n == Len(stk)
           new == PutOn(stk, bytes)
<1>1. PICK V, M : /\ Shown(stk, V, M, nulls, bytes \o rest)
                  /\ Encoding[nulls][V[1]].bytes = doc
  BY DEF Encoded
<1>2. n \in Nat \ {0} /\ n \in 1 .. n
  BY LenProperties
<1>3. stk[n] \in Frame /\ stk[n].inner \in Seq(BsonByte)
  <2>1. stk[n] \in Frame
    BY <1>2
  <2> QED
    BY <2>1 DEF Frame
<1>4. /\ Len(new) = n /\ \A k \in 1 .. n : k # n => new[k] = stk[k]
      /\ new[n] = [stk[n] EXCEPT !.inner = stk[n].inner \o bytes]
  <2> DEFINE g == [stk[n] EXCEPT !.inner = stk[n].inner \o bytes]
  <2>1. new = [stk EXCEPT ![n] = g]
    BY <1>2 DEF PutOn
  <2> HIDE DEF g, n, new
  <2>2. n = Len(stk)
    BY DEF n
  <2>3. /\ Len(new) = n /\ \A k \in 1 .. n : k # n => new[k] = stk[k]
        /\ new[n] = g
    BY <1>2, <2>1, <2>2
  <2> QED
    BY <2>3 DEF g
<1>5. /\ new[n].class = stk[n].class /\ new[n].todo = stk[n].todo
      /\ new[n].index = stk[n].index /\ new[n].inner = stk[n].inner \o bytes
  BY <1>3, <1>4 DEF Frame
<1>6. new[n].inner \o rest = stk[n].inner \o (bytes \o rest)
  <2> DEFINE a == stk[n].inner
  <2>1. a \in Seq(BsonByte)
    BY <1>3
  <2> HIDE DEF a
  <2>2. (a \o bytes) \o rest = a \o (bytes \o rest)
    BY <2>1, ConcatAssociative
  <2> QED
    BY <1>5, <2>2, Zenon DEF a
<1> HIDE DEF n, new
<1>7. Shown(new, V, M, nulls, rest)
  <2>1. /\ V \in [1 .. n -> Values] /\ M \in [1 .. n -> Nat]
        /\ \A k \in 1 .. n :
             Shows(stk[k], V[k], M[k], nulls,
                   IF k < n THEN Encoding[nulls][V[k + 1]].bytes ELSE bytes \o rest)
    BY <1>1 DEF Shown, n
  <2>2. ASSUME NEW k \in 1 .. n
        PROVE  Shows(new[k], V[k], M[k], nulls,
                     IF k < n THEN Encoding[nulls][V[k + 1]].bytes ELSE rest)
    <3>1. CASE k = n
      <4>1. Shows(stk[n], V[n], M[n], nulls, bytes \o rest)
        BY <1>2, <2>1
      <4>2. Shows(new[n], V[n], M[n], nulls, rest)
        BY <1>5, <1>6, <4>1 DEF Shows
      <4> QED
        BY <1>2, <3>1, <4>2
    <3>2. CASE k # n
      <4>1. k < n /\ new[k] = stk[k]
        BY <1>2, <1>4, <3>2
      <4> QED
        BY <2>1, <4>1
    <3> QED
      BY <3>1, <3>2
  <2> QED
    BY <1>4, <2>1, <2>2 DEF Shown
<1> QED
  BY <1>1, <1>7 DEF Encoded, new

(* An open compound has its elements to write, which the frame below has   *)
(* not written yet. *)
LEMMA PushEncoded ==
  ASSUME NEW nulls \in BOOLEAN, NEW doc, NEW stk \in Seq(Frame), NEW v \in Values,
         v.class \in Compound, ~v.null,
         NEW f, f = [class |-> v.class, todo |-> v.items, index |-> 0, inner |-> <<>>],
         Encoded(stk, nulls, doc, Encoding[nulls][v].bytes),
         stk = <<>> => Encoding[nulls][v].bytes = doc
  PROVE  Encoded(Append(stk, f), nulls, doc, <<>>)
<1> DEFINE n == Len(stk)
           new == Append(stk, f)
<1>1. PICK V, M : /\ Shown(stk, V, M, nulls, Encoding[nulls][v].bytes)
                  /\ stk # <<>> => Encoding[nulls][V[1]].bytes = doc
  BY DEF Encoded
<1> DEFINE W == [k \in 1 .. n + 1 |-> IF k <= n THEN V[k] ELSE v]
           N == [k \in 1 .. n + 1 |-> IF k <= n THEN M[k] ELSE 0]
<1>2. n \in Nat
  BY LenProperties
<1>3. /\ V \in [1 .. n -> Values] /\ M \in [1 .. n -> Nat]
      /\ \A k \in 1 .. n :
           Shows(stk[k], V[k], M[k], nulls,
                 IF k < n THEN Encoding[nulls][V[k + 1]].bytes ELSE Encoding[nulls][v].bytes)
  BY <1>1 DEF Shown
<1>4. /\ Len(new) = n + 1 /\ new[n + 1] = f /\ \A k \in 1 .. n : new[k] = stk[k]
  OBVIOUS
<1>5. /\ W \in [1 .. n + 1 -> Values] /\ N \in [1 .. n + 1 -> Nat]
      /\ \A k \in 1 .. n : W[k] = V[k] /\ N[k] = M[k]
      /\ W[n + 1] = v /\ N[n + 1] = 0
  BY <1>2, <1>3
<1>s. stk = <<>> <=> n = 0
  OBVIOUS
<1> HIDE DEF n, new, W, N
<1>6. Shows(f, v, 0, nulls, <<>>)
  <2>1. v.items \in Seq(ValueEntry) /\ Len(v.items) \in Nat
    BY ValueType, LenProperties
  <2>2. f.class = v.class /\ f.todo = v.items /\ f.index = 0 /\ f.inner = <<>>
    OBVIOUS
  <2>3. Number(v, 0 + 1, nulls) = 0
    BY NumberType
  <2>4. First(Parts(v, nulls), 0) = <<>>
    BY FirstNone
  <2>5. <<>> \o <<>> = <<>>
    OBVIOUS
  <2>6. \A i \in 1 .. Len(v.items) : v.items[i] = v.items[0 + i]
    OBVIOUS
  <2> QED
    BY <2>1, <2>2, <2>3, <2>4, <2>5, <2>6 DEF Shows
<1>7. ASSUME NEW k \in 1 .. n + 1
      PROVE  Shows(new[k], W[k], N[k], nulls,
                   IF k < n + 1 THEN Encoding[nulls][W[k + 1]].bytes ELSE <<>>)
  <2>1. CASE k = n + 1
    BY <1>2, <1>4, <1>5, <1>6, <2>1
  <2>2. CASE k # n + 1
    <3>1. k \in 1 .. n /\ k < n + 1
      BY <1>2, <2>2
    <3>2. W[k + 1] = IF k < n THEN V[k + 1] ELSE v
      <4>1. CASE k < n
        <5>1. k + 1 \in 1 .. n
          BY <1>2, <3>1, <4>1
        <5> QED
          BY <1>5, <4>1, <5>1
      <4>2. CASE ~(k < n)
        <5>1. k = n
          BY <1>2, <3>1, <4>2
        <5> QED
          BY <1>5, <4>2, <5>1
      <4> QED
        BY <4>1, <4>2
    <3>3. Encoding[nulls][W[k + 1]].bytes =
            IF k < n THEN Encoding[nulls][V[k + 1]].bytes ELSE Encoding[nulls][v].bytes
      BY <3>2, Zenon
    <3> QED
      BY <1>3, <1>4, <1>5, <3>1, <3>3
  <2> QED
    BY <2>1, <2>2
<1>8. Shown(new, W, N, nulls, <<>>)
  BY <1>4, <1>5, <1>7 DEF Shown
<1>9. Encoding[nulls][W[1]].bytes = doc
  <2>1. CASE n = 0
    BY <1>5, <1>s, <2>1
  <2>2. CASE n # 0
    <3>1. 1 \in 1 .. n
      BY <1>2, <2>2
    <3> QED
      BY <1>1, <1>5, <1>s, <2>2, <3>1
  <2> QED
    BY <2>1, <2>2
<1> QED
  BY <1>8, <1>9 DEF Encoded, new

(* An item visited is one to write, if it is kept. *)
LEMMA VisitEncoded ==
  ASSUME NEW nulls \in BOOLEAN, NEW doc, NEW stk \in Seq(Frame), stk # <<>>,
         NEW f, f = stk[Len(stk)], f.todo # <<>>,
         NEW e, e = Head(f.todo), NEW kept \in BOOLEAN,
         kept <=> (nulls \/ ~EntryValue(e).null),
         NEW key, key = IF f.class = "Collection" THEN IndexKey(f.index) ELSE e.key,
         Encoded(stk, nulls, doc, <<>>)
  PROVE  Encoded(NextTodo(stk, IF kept THEN 1 ELSE 0), nulls, doc,
                 IF kept THEN ElementBytes(key, Encoding[nulls][EntryValue(e)]) ELSE <<>>)
<1> DEFINE n    == Len(stk)
           step == IF kept THEN 1 ELSE 0
           new  == NextTodo(stk, step)
           rest == IF kept THEN ElementBytes(key, Encoding[nulls][EntryValue(e)]) ELSE <<>>
<1>1. PICK V, M : /\ Shown(stk, V, M, nulls, <<>>)
                  /\ Encoding[nulls][V[1]].bytes = doc
  BY DEF Encoded
<1> DEFINE v == V[n]
           m == M[n]
           N == [M EXCEPT ![n] = m + 1]
<1>2. n \in Nat \ {0} /\ n \in 1 .. n
  BY LenProperties
<1>3. /\ f \in Frame /\ f.inner \in Seq(BsonByte) /\ f.todo \in Seq(ValueEntry)
      /\ f.index \in Nat /\ step \in Nat
  <2>1. f \in Frame
    BY <1>2
  <2> QED
    BY <2>1 DEF Frame
<1>4. /\ Len(new) = n /\ \A k \in 1 .. n : k # n => new[k] = stk[k]
      /\ new[n].class = f.class /\ new[n].todo = Tail(f.todo)
      /\ new[n].index = f.index + step /\ new[n].inner = f.inner
  <2> DEFINE g == [f EXCEPT !.todo = Tail(f.todo), !.index = f.index + step]
  <2>1. new = [stk EXCEPT ![n] = g]
    BY <1>2, <1>3 DEF NextTodo, Frame
  <2>2. /\ g.class = f.class /\ g.todo = Tail(f.todo) /\ g.index = f.index + step
        /\ g.inner = f.inner
    BY <1>3 DEF Frame
  <2>n. n = Len(stk)
    OBVIOUS
  <2> HIDE DEF g, n, new, step
  <2>3. /\ Len(new) = n /\ \A k \in 1 .. n : k # n => new[k] = stk[k]
        /\ new[n] = g
    BY <1>2, <2>1, <2>n
  <2> QED
    BY <2>2, <2>3
<1>5. /\ V \in [1 .. n -> Values] /\ M \in [1 .. n -> Nat]
      /\ \A k \in 1 .. n :
           Shows(stk[k], V[k], M[k], nulls,
                 IF k < n THEN Encoding[nulls][V[k + 1]].bytes ELSE <<>>)
  BY <1>1 DEF Shown
<1>6. v \in Values /\ m \in Nat /\ Shows(f, v, m, nulls, <<>>)
  <2>1. Shows(stk[n], V[n], M[n], nulls, <<>>)
    BY <1>2, <1>5
  <2> QED
    BY <1>2, <1>5, <2>1
<1>7. N \in [1 .. n -> Nat] /\ N[n] = m + 1 /\ \A k \in 1 .. n : k # n => N[k] = M[k]
  <2>1. m + 1 \in Nat
    BY <1>6
  <2> HIDE DEF m, n
  <2> QED
    BY <1>2, <1>5, <2>1
<1>f. f = stk[n]
  OBVIOUS
<1>v. v = V[n]
  OBVIOUS
<1> HIDE DEF n, new, step, rest, v, m, N
<1>8. /\ v.class = f.class /\ v.class \in Compound /\ ~v.null
      /\ m <= Len(v.items) /\ Len(f.todo) = Len(v.items) - m
      /\ \A i \in 1 .. Len(f.todo) : f.todo[i] = v.items[m + i]
      /\ f.index = Number(v, m + 1, nulls)
      /\ f.inner \o <<>> = First(Parts(v, nulls), m)
  BY <1>6 DEF Shows
<1>9. v.items \in Seq(ValueEntry) /\ Len(v.items) \in Nat
  BY <1>6, ValueType, LenProperties
<1>10. /\ Len(f.todo) >= 1 /\ f.todo[1] = e /\ Len(Tail(f.todo)) = Len(f.todo) - 1
       /\ \A i \in 1 .. Len(f.todo) - 1 : Tail(f.todo)[i] = f.todo[i + 1]
  BY <1>3
<1>11. m + 1 \in 1 .. Len(v.items) /\ v.items[m + 1] = e
  <2>1. m + 1 <= Len(v.items)
    BY <1>6, <1>8, <1>9, <1>10
  <2>2. 1 \in 1 .. Len(f.todo)
    BY <1>6, <1>8, <1>9, <1>10
  <2>3. f.todo[1] = v.items[m + 1]
    BY <1>8, <2>2
  <2> QED
    BY <1>6, <1>10, <2>1, <2>3
<1>12. Kept(v, m + 1, nulls) <=> kept
  BY <1>11 DEF Kept
<1>13. Number(v, (m + 1) + 1, nulls) = f.index + step
  <2>1. m + 1 \in Nat \ {0}
    BY <1>6
  <2>2. Number(v, (m + 1) + 1, nulls) =
          Number(v, m + 1, nulls) + (IF Kept(v, m + 1, nulls) THEN 1 ELSE 0)
    BY <2>1, NumberType, Zenon
  <2> QED
    BY <1>8, <1>12, <2>2 DEF step
<1>14. KeyOf(v, m + 1, nulls) = key
  BY <1>8, <1>11 DEF KeyOf
<1>15. rest = Parts(v, nulls)[m + 1] /\ rest \in Seq(BsonByte)
  <2>1. /\ Parts(v, nulls)[m + 1] =
              IF Kept(v, m + 1, nulls)
              THEN ElementBytes(KeyOf(v, m + 1, nulls),
                                Encoding[nulls][EntryValue(v.items[m + 1])])
              ELSE <<>>
        /\ Parts(v, nulls)[m + 1] \in Seq(BsonByte)
    BY <1>6, <1>11, PartType, Zenon
  <2>2. rest = Parts(v, nulls)[m + 1]
    BY <1>11, <1>12, <1>14, <2>1, Zenon DEF rest
  <2> QED
    BY <2>1, <2>2, Zenon
<1>16. f.inner \o rest = First(Parts(v, nulls), m + 1)
  <2>1. Parts(v, nulls) \in Seq(Seq(BsonByte)) /\ Len(Parts(v, nulls)) = Len(v.items)
    BY <1>6, PartsType
  <2> DEFINE s == Parts(v, nulls)
             k == m + 1
  <2>2. s \in Seq(Seq(BsonByte)) /\ k \in 1 .. Len(s) /\ k - 1 = m
    BY <1>6, <1>11, <2>1
  <2> HIDE DEF s, k
  <2>3. First(s, k) = First(s, k - 1) \o s[k]
    BY <2>2, FirstNext
  <2>4. f.inner \o <<>> = f.inner
    BY <1>3
  <2> QED
    BY <1>8, <1>15, <2>2, <2>3, <2>4, Zenon DEF s, k
<1>17. Shows(new[n], v, m + 1, nulls, rest)
  <2>1. Len(new[n].todo) = Len(v.items) - (m + 1)
    BY <1>4, <1>6, <1>8, <1>9, <1>10
  <2>2. ASSUME NEW i \in 1 .. Len(new[n].todo)
        PROVE  new[n].todo[i] = v.items[(m + 1) + i]
    <3>1. i \in 1 .. Len(f.todo) - 1 /\ i + 1 \in 1 .. Len(f.todo)
      BY <1>4, <1>6, <1>8, <1>9, <1>10
    <3>2. new[n].todo[i] = f.todo[i + 1]
      BY <1>4, <1>10, <3>1
    <3>3. f.todo[i + 1] = v.items[m + (i + 1)]
      BY <1>8, <3>1
    <3>4. m + (i + 1) = (m + 1) + i
      BY <1>6
    <3> QED
      BY <3>2, <3>3, <3>4
  <2>3. m + 1 <= Len(v.items)
    BY <1>11
  <2>4. f.class = new[n].class /\ f.inner = new[n].inner /\ new[n].index = f.index + step
    BY <1>4
  <2> QED
    BY <1>8, <1>13, <1>16, <2>1, <2>2, <2>3, <2>4 DEF Shows
<1>18. Shown(new, V, N, nulls, rest)
  <2>1. ASSUME NEW k \in 1 .. n
        PROVE  Shows(new[k], V[k], N[k], nulls,
                     IF k < n THEN Encoding[nulls][V[k + 1]].bytes ELSE rest)
    <3>1. CASE k = n
      BY <1>2, <1>7, <1>17, <1>v, <3>1
    <3>2. CASE k # n
      <4>1. k < n
        BY <1>2, <3>2
      <4> QED
        BY <1>4, <1>5, <1>7, <3>2, <4>1
    <3> QED
      BY <3>1, <3>2
  <2> QED
    BY <1>4, <1>5, <1>7, <2>1 DEF Shown
<1> QED
  BY <1>1, <1>18 DEF Encoded, new, rest, step

(* A compound without items left to visit is written: what is put around   *)
(* its elements is its encoding, which the frame below has to write. *)
LEMMA PopEncoded ==
  ASSUME NEW nulls \in BOOLEAN, NEW doc, NEW stk \in Seq(Frame), stk # <<>>,
         NEW f, f = stk[Len(stk)], f.todo = <<>>,
         Encoded(stk, nulls, doc, <<>>)
  PROVE  /\ Encoded(Below(stk), nulls, doc, DocumentBytes(f.inner))
         /\ Below(stk) = <<>> => DocumentBytes(f.inner) = doc
<1> DEFINE n     == Len(stk)
           below == Below(stk)
           bytes == DocumentBytes(f.inner)
<1>1. PICK V, M : /\ Shown(stk, V, M, nulls, <<>>)
                  /\ Encoding[nulls][V[1]].bytes = doc
  BY DEF Encoded
<1> DEFINE v == V[n]
           m == M[n]
           W == [k \in 1 .. n - 1 |-> V[k]]
           N == [k \in 1 .. n - 1 |-> M[k]]
<1>2. n \in Nat \ {0} /\ n \in 1 .. n
  BY LenProperties
<1>3. f \in Frame /\ f.inner \in Seq(BsonByte)
  <2>1. f \in Frame
    BY <1>2
  <2> QED
    BY <2>1 DEF Frame
<1>4. /\ Len(below) = n - 1 /\ \A k \in 1 .. n - 1 : below[k] = stk[k]
  <2> DEFINE l == n - 1
  <2>1. l \in 0 .. Len(stk)
    BY <1>2
  <2> HIDE DEF l
  <2>2. Len(SubSeq(stk, 1, l)) = l /\ \A k \in 1 .. l : SubSeq(stk, 1, l)[k] = stk[k]
    BY <2>1, SubSeqFirst
  <2> QED
    BY <2>2, Zenon DEF Below, l
<1>b. below = <<>> => n = 1
  BY <1>2, <1>4
<1>5. /\ V \in [1 .. n -> Values] /\ M \in [1 .. n -> Nat]
      /\ \A k \in 1 .. n :
           Shows(stk[k], V[k], M[k], nulls,
                 IF k < n THEN Encoding[nulls][V[k + 1]].bytes ELSE <<>>)
  BY <1>1 DEF Shown
<1>6. v \in Values /\ m \in Nat /\ Shows(f, v, m, nulls, <<>>)
  <2>1. Shows(stk[n], V[n], M[n], nulls, <<>>)
    BY <1>2, <1>5
  <2> QED
    BY <1>2, <1>5, <2>1
<1>7. /\ W \in [1 .. n - 1 -> Values] /\ N \in [1 .. n - 1 -> Nat]
      /\ \A k \in 1 .. n - 1 : W[k] = V[k] /\ N[k] = M[k]
  BY <1>2, <1>5
<1>v. v = V[n]
  OBVIOUS
<1> HIDE DEF n, below, bytes, v, m, W, N
<1>8. /\ v.class \in Compound /\ ~v.null
      /\ m <= Len(v.items) /\ Len(f.todo) = Len(v.items) - m
      /\ f.inner \o <<>> = First(Parts(v, nulls), m)
  BY <1>6 DEF Shows
<1>9. Encoding[nulls][v].bytes = bytes
  <2>1. Len(v.items) \in Nat
    BY <1>6, ValueType, LenProperties
  <2>2. m = Len(v.items)
    <3>1. Len(f.todo) = 0
      OBVIOUS
    <3> QED
      BY <1>6, <1>8, <2>1, <3>1
  <2>3. /\ Parts(v, nulls) \in Seq(Seq(BsonByte))
        /\ Len(Parts(v, nulls)) = Len(v.items)
    BY <1>6, PartsType
  <2>4. First(Parts(v, nulls), Len(v.items)) = FlattenSeq(Parts(v, nulls))
    BY <2>3, FirstAll
  <2>5. f.inner \o <<>> = f.inner
    BY <1>3
  <2>6. f.inner = FlattenSeq(Parts(v, nulls))
    BY <1>8, <2>2, <2>4, <2>5, Zenon
  <2>7. ~StandsForItem(v) /\ v.class \notin ScalarClass /\ v.class \notin Inline
    BY <1>8 DEF StandsForItem, Compound, Wrapper, Inline, ScalarClass, ScalarCode
  <2>8. Encoding[nulls][v] = StandsFor(v, nulls)
    BY <1>6, <1>8, EncodingAssumption
  <2>9. Encoding[nulls][v].bytes = DocumentBytes(FlattenSeq(Parts(v, nulls)))
    BY <1>8, <2>7, <2>8 DEF StandsFor, Element
  <2> QED
    BY <2>6, <2>9, Zenon DEF bytes
<1>10. Shown(below, W, N, nulls, bytes)
  <2>1. ASSUME NEW k \in 1 .. n - 1
        PROVE  Shows(below[k], W[k], N[k], nulls,
                     IF k < n - 1 THEN Encoding[nulls][W[k + 1]].bytes ELSE bytes)
    <3>1. k \in 1 .. n /\ k < n
      BY <1>2
    <3>2. Shows(stk[k], V[k], M[k], nulls, Encoding[nulls][V[k + 1]].bytes)
      BY <1>5, <3>1
    <3>3. Encoding[nulls][V[k + 1]].bytes =
            IF k < n - 1 THEN Encoding[nulls][W[k + 1]].bytes ELSE bytes
      <4>1. CASE k < n - 1
        <5>1. k + 1 \in 1 .. n - 1
          BY <1>2, <4>1
        <5>2. W[k + 1] = V[k + 1]
          BY <1>7, <5>1
        <5> QED
          BY <4>1, <5>2, Zenon
      <4>2. CASE ~(k < n - 1)
        <5>1. k + 1 = n
          BY <1>2, <4>2
        <5> QED
          BY <1>9, <1>v, <4>2, <5>1, Zenon
      <4> QED
        BY <4>1, <4>2
    <3> QED
      BY <1>4, <1>7, <3>2, <3>3
  <2> QED
    BY <1>4, <1>7, <2>1 DEF Shown
<1>11. below # <<>> => Encoding[nulls][W[1]].bytes = doc
  <2>1. CASE n = 1
    <3>1. below = <<>>
      BY <1>4, <2>1 DEF below, Below
    <3> QED
      BY <3>1
  <2>2. CASE n # 1
    <3>1. 1 \in 1 .. n - 1
      BY <1>2, <2>2
    <3> QED
      BY <1>1, <1>7, <3>1
  <2> QED
    BY <2>1, <2>2
<1>12. below = <<>> => bytes = doc
  BY <1>1, <1>9, <1>b, <1>v
<1> QED
  BY <1>10, <1>11, <1>12 DEF Encoded, below, bytes

-----------------------------------------------------------------------------
(* What the frames write, with what the pending call will, is the document *)
(* that stands for the root. *)

Nulls == config.includeNullFields
Document == Encoding[Nulls][root].bytes

Pending ==
  IF pc = "call" THEN ElementBytes(call.key, Encoding[Nulls][call.value]) ELSE <<>>

Encodes ==
  /\ pc \in {"call", "iterate"} => Encoded(stack, Nulls, Document, Pending)
  /\ pc = "call" /\ stack = <<>> => Encoding[Nulls][call.value].bytes = Document
  /\ EncodesValue

EInv == IInv /\ Encodes

LEMMA CallEncoding ==
  ASSUME IInv
  PROVE  /\ Nulls \in BOOLEAN /\ call.value \in Values /\ call.key \in Key
         /\ root \in Values /\ stack \in Seq(Frame)
         /\ call.value.class \in UNION {ScalarClass, Inline, Compound, Wrapper} =>
              Encoding[Nulls][call.value] = StandsFor(call.value, Nulls)
<1>1. /\ Nulls \in BOOLEAN /\ call.value \in Values /\ call.key \in Key
      /\ root \in Values /\ stack \in Seq(Frame)
  BY ValuesAssumption DEF IInv, TypeOK, Config, Nulls
<1> QED
  BY <1>1, EncodingAssumption

LEMMA EncodesInit == Init => Encodes
<1> SUFFICES ASSUME Init PROVE Encodes
  OBVIOUS
<1> DEFINE V == [k \in {} |-> root]
           M == [k \in {} |-> 0]
<1>1. stack = <<>> /\ pc = "call" /\ call.value = root
  BY DEF Init
<1>2. Shown(<<>>, V, M, Nulls, Pending)
  <2>1. Len(<<>>) = 0 /\ 1 .. 0 = {}
    OBVIOUS
  <2>2. V \in [{} -> Values] /\ M \in [{} -> Nat]
    OBVIOUS
  <2> HIDE DEF V, M
  <2> QED
    BY <2>1, <2>2 DEF Shown
<1> HIDE DEF V, M
<1>3. Encoded(<<>>, Nulls, Document, Pending)
  BY <1>2 DEF Encoded
<1> QED
  BY <1>1, <1>3 DEF Encodes, EncodesValue, Document

(* A method that writes the element of its value. *)
LEMMA WriteEncodes ==
  ASSUME EInv, pc = "call", NEW bytes,
         bytes = ElementBytes(call.key, Encoding[Nulls][call.value]), Write(bytes)
  PROVE  Encodes'
<1>1. /\ Nulls \in BOOLEAN /\ call.value \in Values /\ call.key \in Key
      /\ stack \in Seq(Frame)
  BY CallEncoding DEF EInv
<1>2. bytes \in Seq(BsonByte)
  BY <1>1, ElementBytesType
<1>3. /\ Nulls' = Nulls /\ Document' = Document
      /\ stack' = PutOn(stack, bytes) /\ stream' = PutOut(stack, bytes)
      /\ pc' = IF stack = <<>> THEN "done" ELSE "iterate"
  BY DEF Write, Return, Nulls, Document
<1>4. CASE stack = <<>>
  <2>1. call.key = NullKey
    BY <1>4 DEF EInv, IInv, RootKey
  <2>2. bytes = Encoding[Nulls][call.value].bytes
    <3> DEFINE x == Encoding[Nulls][call.value].bytes
    <3>1. x \in Seq(BsonByte)
      BY <1>1, EncodingType
    <3>2. bytes = <<>> \o x
      BY <2>1 DEF ElementBytes, KeyBytes
    <3> HIDE DEF x
    <3>3. <<>> \o x = x
      BY <3>1
    <3> QED
      BY <3>2, <3>3 DEF x
  <2>3. bytes = Document
    BY <1>4, <2>2 DEF EInv, Encodes
  <2>4. stream' = Prefix \o bytes
    BY <1>3, <1>4 DEF EInv, IInv, AtomicWrite, PutOut
  <2>5. EncodesValue'
    BY <1>3, <2>3, <2>4 DEF EncodesValue, Document, Nulls
  <2> QED
    BY <1>3, <1>4, <2>5 DEF Encodes
<1>5. CASE stack # <<>>
  <2>1. Encoded(stack, Nulls, Document, bytes)
    BY DEF EInv, Encodes, Pending
  <2>2. bytes \o <<>> = bytes /\ <<>> \in Seq(BsonByte)
    BY <1>2
  <2>3. Encoded(PutOn(stack, bytes), Nulls, Document, <<>>)
    BY <1>1, <1>2, <1>5, <2>1, <2>2, PutEncoded
  <2>4. Pending' = <<>> /\ pc' = "iterate"
    BY <1>3, <1>5 DEF Pending
  <2> QED
    BY <1>3, <2>3, <2>4 DEF Encodes, EncodesValue
<1> QED
  BY <1>4, <1>5

(* An exception leaves nothing to be written. *)
LEMMA ThrowEncodes ==
  ASSUME NEW failure \in Failures, Throw(failure)
  PROVE  Encodes'
BY DEF Throw, Failures, Encodes, EncodesValue

(* Whoever stands for its item has the item's encoding. *)
LEMMA DelegateEncodes ==
  ASSUME EInv, pc = "call", StandsForItem(call.value),
         Delegate(call.value.items[1].value)
  PROVE  Encodes'
<1> DEFINE item == call.value.items[1].value
<1>1. /\ call' = [call EXCEPT !.value = item] /\ UNCHANGED <<config, root, stream, stack, pc>>
  BY DEF Delegate
<1>2. Encoding[Nulls][call.value] = Encoding[Nulls][item]
  <2>1. call.value.class \in UNION {ScalarClass, Inline, Compound, Wrapper}
    BY DEF StandsForItem, Wrapper
  <2>2. Encoding[Nulls][call.value] = StandsFor(call.value, Nulls)
    BY <2>1, CallEncoding DEF EInv
  <2>3. StandsFor(call.value, Nulls) = Encoding[Nulls][item]
    BY StandsForIs, Zenon
  <2> QED
    BY <2>2, <2>3, Zenon
<1>3. call'.value = item /\ call'.key = call.key
  BY <1>1 DEF EInv, IInv, TypeOK
<1>4. /\ Encoding[Nulls][call'.value] = Encoding[Nulls][call.value]
      /\ Nulls' = Nulls /\ Document' = Document
  BY <1>1, <1>2, <1>3, Zenon DEF Nulls, Document
<1>5. Pending' = Pending
  BY <1>1, <1>3, <1>4 DEF Pending
<1> QED
  BY <1>1, <1>4, <1>5 DEF EInv, Encodes, EncodesValue, Document

(* All methods write a null alike, but an interpreted type's. *)
LEMMA NullEncodes ==
  ASSUME EInv, pc = "call", call.value.null, call.value.class # "Interpreted",
         call.value.class \in UNION {ScalarClass, Inline, Compound, Wrapper}, WriteNull
  PROVE  Encodes'
<1> DEFINE bytes == KeyBytes(NULL_VALUE, call.key)
<1>1. Encoding[Nulls][call.value] = Element(NULL_VALUE, <<>>)
  BY CallEncoding DEF StandsFor, StandsForItem, EInv
<1>2. bytes \in Seq(BsonByte)
  BY CallEncoding, KeyBytesType DEF BsonByte, NULL_VALUE, EInv
<1>3. ElementBytes(call.key, Encoding[Nulls][call.value]) = bytes \o <<>>
  BY <1>1 DEF ElementBytes, Element
<1>w. Write(bytes)
  BY DEF WriteNull
<1> HIDE DEF bytes
<1>4. bytes \o <<>> = bytes
  BY <1>2
<1> QED
  BY <1>3, <1>4, <1>w, WriteEncodes

LEMMA SerializeNullEncodes ==
  ASSUME EInv, NEW classes, "Interpreted" \notin classes,
         classes \subseteq UNION {ScalarClass, Inline, Compound, Wrapper},
         SerializeNull(classes)
  PROVE  Encodes'
<1>1. /\ pc = "call" /\ call.value.null /\ call.value.class # "Interpreted"
      /\ call.value.class \in UNION {ScalarClass, Inline, Compound, Wrapper}
  BY DEF SerializeNull, Calling
<1>2. CASE call.key # NullKey
  BY <1>1, <1>2, NullEncodes DEF SerializeNull
<1>3. CASE call.key = NullKey
  <2>1. Throw("null object with null key")
    BY <1>3 DEF SerializeNull
  <2> QED
    BY <2>1, ThrowEncodes DEF Failures
<1> QED
  BY <1>2, <1>3

LEMMA ScalarEncodes == EInv /\ SerializeScalar => Encodes'
<1> SUFFICES ASSUME EInv, SerializeScalar PROVE Encodes'
  OBVIOUS
<1> DEFINE v == call.value
<1>1. /\ pc = "call" /\ v.class \in ScalarClass /\ v.class # "Interpreted"
      /\ v.class \notin Wrapper
  BY DEF SerializeScalar, Calling, ScalarClass, ScalarCode, Wrapper
<1>2. CASE call.key = NullKey
  BY <1>2, ThrowEncodes DEF SerializeScalar, Failures
<1>3. CASE call.key # NullKey /\ v.null
  BY <1>1, <1>3, NullEncodes DEF SerializeScalar
<1>4. CASE call.key # NullKey /\ ~v.null
  <2>1. Encoding[Nulls][v] = StandsFor(v, Nulls) /\ ~StandsForItem(v)
    BY <1>1, CallEncoding DEF EInv, StandsForItem
  <2>2. StandsFor(v, Nulls) = Element(ScalarCode[v.class], ScalarBytes(v))
    BY <1>1, <1>4, StandsForScalar, Zenon
  <2>3. ElementBytes(call.key, Encoding[Nulls][v]) =
          KeyBytes(ScalarCode[v.class], call.key) \o ScalarBytes(v)
    BY <2>1, <2>2, ElementBytesIs, Zenon
  <2>4. Write(KeyBytes(ScalarCode[v.class], call.key) \o ScalarBytes(v))
    BY <1>1, <1>4 DEF SerializeScalar
  <2> QED
    BY <1>1, <2>3, <2>4, WriteEncodes
<1> QED
  BY <1>2, <1>3, <1>4

LEMMA InlineEncodes == EInv /\ SerializeInlineDocs => Encodes'
<1> SUFFICES ASSUME EInv, SerializeInlineDocs PROVE Encodes'
  OBVIOUS
<1> DEFINE v == call.value
<1>1. CASE SerializeNull(Inline)
  BY <1>1, SerializeNullEncodes DEF Inline
<1>2. CASE ~SerializeNull(Inline)
  <2>1. pc = "call" /\ v.class \in Inline /\ ~v.null
    BY <1>2 DEF SerializeInlineDocs, Calling
  <2>2. CASE ~InlineIsValid(v.bytes)
    <3>1. Throw("invalid inline object")
      BY <1>2, <2>2 DEF SerializeInlineDocs
    <3> QED
      BY <3>1, ThrowEncodes DEF Failures
  <2>3. CASE InlineIsValid(v.bytes)
    <3>1. Write(KeyBytes(InlineCode(v.class), call.key) \o v.bytes)
      BY <1>2, <2>3 DEF SerializeInlineDocs
    <3>2. Encoding[Nulls][v] = StandsFor(v, Nulls)
      BY <2>1, CallEncoding DEF EInv
    <3>3. StandsFor(v, Nulls) = Element(InlineCode(v.class), v.bytes)
      BY <2>1, StandsForInline, Zenon
    <3>4. ElementBytes(call.key, Encoding[Nulls][v]) =
            KeyBytes(InlineCode(v.class), call.key) \o v.bytes
      BY <3>2, <3>3, ElementBytesIs, Zenon
    <3> QED
      BY <2>1, <3>1, <3>4, WriteEncodes
  <2> QED
    BY <2>2, <2>3
<1> QED
  BY <1>1, <1>2

LEMMA AnyEncodes == EInv /\ SerializeAny => Encodes'
<1> SUFFICES ASSUME EInv, SerializeAny PROVE Encodes'
  OBVIOUS
<1>1. CASE SerializeNull({"Any"})
  BY <1>1, SerializeNullEncodes DEF Wrapper
<1>2. CASE ~SerializeNull({"Any"})
  <2>1. pc = "call" /\ call.value.class = "Any" /\ ~call.value.null
        /\ Delegate(call.value.items[1].value)
    BY <1>2 DEF SerializeAny, Calling
  <2> QED
    BY <2>1, DelegateEncodes DEF StandsForItem, Wrapper
<1> QED
  BY <1>1, <1>2

(* An Enum's interpretation is a scalar that is not null, and writes what  *)
(* the scalar would. *)
LEMMA EnumEncodes == EInv /\ SerializeEnum => Encodes'
<1> SUFFICES ASSUME EInv, SerializeEnum PROVE Encodes'
  OBVIOUS
<1> DEFINE v == call.value
           i == v.items[1].value
<1>1. pc = "call" /\ v.class \in {"Enum", "NotNullEnum"} /\ v \in Values
      /\ v.class \in Wrapper
  BY CallType DEF SerializeEnum, Calling, EInv, Wrapper
<1>2. CASE call.key = NullKey
  BY <1>1, <1>2, ThrowEncodes DEF SerializeEnum, Failures
<1>3. CASE call.key # NullKey /\ v.null
  <2>1. CASE v.class = "NotNullEnum"
    BY <1>3, <2>1, ThrowEncodes DEF SerializeEnum, Failures
  <2>2. CASE v.class # "NotNullEnum"
    BY <1>1, <1>3, <2>2, NullEncodes DEF SerializeEnum
  <2> QED
    BY <2>1, <2>2
<1>4. CASE call.key # NullKey /\ ~v.null
  <2>1. i \in Values /\ i.class \in ScalarClass /\ ~i.null
    BY <1>1, <1>4, HeldType, HeldAssumption
  <2>2. Encoding[Nulls][v] = Encoding[Nulls][i]
    <3>1. Encoding[Nulls][v] = StandsFor(v, Nulls)
      BY <1>1, CallEncoding DEF EInv
    <3>2. StandsForItem(v)
      BY <1>1, <1>4 DEF StandsForItem
    <3>3. StandsFor(v, Nulls) = Encoding[Nulls][i]
      BY <3>2, StandsForIs, Zenon
    <3> QED
      BY <3>1, <3>3, Zenon
  <2>3. Encoding[Nulls][i] = Element(ScalarCode[i.class], ScalarBytes(i))
    <3>1. Encoding[Nulls][i] = StandsFor(i, Nulls)
      BY <2>1, CallEncoding, EncodingAssumption DEF EInv
    <3>2. StandsFor(i, Nulls) = Element(ScalarCode[i.class], ScalarBytes(i))
      BY <2>1, StandsForScalar, Zenon
    <3> QED
      BY <3>1, <3>2, Zenon
  <2>4. Write(KeyBytes(ScalarCode[i.class], call.key) \o ScalarBytes(i))
    BY <1>1, <1>4 DEF SerializeEnum
  <2>5. ElementBytes(call.key, Encoding[Nulls][v]) =
          KeyBytes(ScalarCode[i.class], call.key) \o ScalarBytes(i)
    BY <2>2, <2>3, ElementBytesIs, Zenon
  <2> QED
    BY <1>1, <2>4, <2>5, WriteEncodes
<1> QED
  BY <1>2, <1>3, <1>4

LEMMA InterpretedEncodes == EInv /\ SerializeInterpreted => Encodes'
<1> SUFFICES ASSUME EInv, SerializeInterpreted PROVE Encodes'
  OBVIOUS
<1>1. pc = "call" /\ call.value.class = "Interpreted"
      /\ Delegate(call.value.items[1].value)
  BY DEF SerializeInterpreted, Calling
<1> QED
  BY <1>1, DelegateEncodes DEF StandsForItem

LEMMA OpenEncodes == EInv /\ OpenCompound => Encodes'
<1> SUFFICES ASSUME EInv, OpenCompound PROVE Encodes'
  OBVIOUS
<1>1. CASE SerializeNull(Compound)
  BY <1>1, SerializeNullEncodes DEF Compound
<1>2. CASE ~SerializeNull(Compound)
  <2> DEFINE v     == call.value
             bytes == KeyBytes(CompoundCode(v.class), call.key)
             frame == [class |-> v.class, todo |-> v.items, index |-> 0,
                       inner |-> <<>>]
             whole == Encoding[Nulls][v].bytes
  <2>1. /\ pc = "call" /\ v.class \in Compound /\ ~v.null
        /\ stack' = Append(PutOn(stack, bytes), frame)
        /\ pc' = "iterate"
        /\ UNCHANGED <<config, root, call>>
    BY <1>2 DEF OpenCompound, Calling
  <2>2. /\ Nulls \in BOOLEAN /\ v \in Values /\ call.key \in Key
        /\ stack \in Seq(Frame)
    BY CallEncoding DEF EInv
  <2>3. bytes \in Seq(BsonByte) /\ whole \in Seq(BsonByte)
    <3>1. CompoundCode(v.class) \in BsonByte
      BY DEF CompoundCode, BsonByte, DOCUMENT_EMBEDDED, DOCUMENT_ARRAY
    <3> QED
      BY <2>2, <3>1, KeyBytesType, EncodingType
  <2>4. Pending = bytes \o whole
    <3>1. Encoding[Nulls][v] = StandsFor(v, Nulls)
      BY <2>1, CallEncoding DEF EInv
    <3>2. ~StandsForItem(v) /\ v.class \notin ScalarClass /\ v.class \notin Inline
      BY <2>1 DEF StandsForItem, Compound, Wrapper, ScalarClass, ScalarCode, Inline
    <3>3. Encoding[Nulls][v].code = CompoundCode(v.class)
      BY <2>1, <3>1, <3>2 DEF StandsFor, Element, CompoundCode
    <3> QED
      BY <2>1, <3>3 DEF Pending, ElementBytes
  <2>5. Encoded(stack, Nulls, Document, bytes \o whole)
    BY <2>1, <2>4 DEF EInv, Encodes
  <2>6. stack = <<>> => whole = Document
    BY <2>1 DEF EInv, Encodes
  <2>7. Nulls' = Nulls /\ Document' = Document /\ Pending' = <<>>
    BY <2>1 DEF Nulls, Document, Pending
  <2> HIDE DEF bytes, frame, whole, v
  <2>8. /\ PutOn(stack, bytes) \in Seq(Frame)
        /\ PutOn(stack, bytes) = <<>> <=> stack = <<>>
    BY <2>2, <2>3, PutOnType
  <2>9. Encoded(PutOn(stack, bytes), Nulls, Document, whole)
    <3>1. CASE stack # <<>>
      BY <2>2, <2>3, <2>5, <3>1, PutEncoded
    <3>2. CASE stack = <<>>
      <4>1. PutOn(stack, bytes) = <<>>
        BY <2>8, <3>2
      <4> DEFINE V == [k \in {} |-> root]
                 M == [k \in {} |-> 0]
      <4>2. Shown(<<>>, V, M, Nulls, whole)
        <5>1. Len(<<>>) = 0 /\ 1 .. 0 = {}
          OBVIOUS
        <5>2. V \in [{} -> Values] /\ M \in [{} -> Nat]
          OBVIOUS
        <5> HIDE DEF V, M
        <5> QED
          BY <5>1, <5>2 DEF Shown
      <4> HIDE DEF V, M
      <4> QED
        BY <4>1, <4>2 DEF Encoded
    <3> QED
      BY <3>1, <3>2
  <2>10. Encoded(Append(PutOn(stack, bytes), frame), Nulls, Document, <<>>)
    BY <2>1, <2>2, <2>6, <2>8, <2>9, PushEncoded DEF frame, whole
  <2> QED
    BY <2>1, <2>7, <2>10 DEF Encodes, EncodesValue
<1> QED
  BY <1>1, <1>2

(* An item is skipped if and only if it is not kept. *)
LEMMA Visit ==
  ASSUME EInv, Iterating, NEW e, e = Head(Top.todo)
  PROVE  /\ stack \in Seq(Frame) /\ stack # <<>> /\ Top = stack[Len(stack)]
         /\ Top.todo # <<>> /\ Nulls \in BOOLEAN
         /\ e \in ValueEntry /\ Seen(e) \in Values
         /\ Encoding[Nulls][Seen(e)] = Encoding[Nulls][EntryValue(e)]
         /\ ~Skipped(Seen(e)) <=> (Nulls \/ ~EntryValue(e).null)
         /\ Encoded(stack, Nulls, Document, <<>>)
<1>1. /\ pc = "iterate" /\ stack \in Seq(Frame) /\ stack # <<>>
      /\ Top = stack[Len(stack)] /\ Top.todo # <<>> /\ e \in ValueEntry
  BY HeadType DEF EInv
<1>2. Nulls \in BOOLEAN
  BY CallEncoding DEF EInv
<1>3. /\ Encoding[Nulls][Seen(e)] = Encoding[Nulls][EntryValue(e)]
      /\ Seen(e).null = EntryValue(e).null /\ Seen(e) \in Values
  BY <1>1, <1>2, SeenEncoding, SeenType
<1>4. Seen(e).null \in BOOLEAN
  BY <1>3, ValueType
<1>5. ~Skipped(Seen(e)) <=> (Nulls \/ ~EntryValue(e).null)
  BY <1>2, <1>3, <1>4 DEF Skipped, Nulls
<1>6. Encoded(stack, Nulls, Document, <<>>)
  BY <1>1 DEF EInv, Encodes, Pending
<1> QED
  BY <1>1, <1>2, <1>3, <1>5, <1>6

LEMMA SkipEncodes == EInv /\ SkipEntry => Encodes'
<1> SUFFICES ASSUME EInv, SkipEntry PROVE Encodes'
  OBVIOUS
<1> DEFINE e == Head(Top.todo)
           f == Top
           key == IF f.class = "Collection" THEN IndexKey(f.index) ELSE e.key
<1>1. Iterating /\ Skipped(Seen(e)) /\ stack' = NextTodo(stack, 0)
      /\ UNCHANGED <<config, root, stream, call, pc>> /\ pc = "iterate"
  BY DEF SkipEntry, Iterating
<1>e. e = Head(f.todo) /\ f = Top
  OBVIOUS
<1> HIDE DEF e, f
<1>2. /\ stack \in Seq(Frame) /\ stack # <<>> /\ f = stack[Len(stack)]
      /\ f.todo # <<>> /\ Nulls \in BOOLEAN
      /\ FALSE <=> (Nulls \/ ~EntryValue(e).null)
      /\ Encoded(stack, Nulls, Document, <<>>)
  BY <1>1, <1>e, Visit
<1>k. key = IF f.class = "Collection" THEN IndexKey(f.index) ELSE e.key
  OBVIOUS
<1> HIDE DEF key
<1>3. Encoded(NextTodo(stack, IF FALSE THEN 1 ELSE 0), Nulls, Document,
              IF FALSE THEN ElementBytes(key, Encoding[Nulls][EntryValue(e)]) ELSE <<>>)
  BY <1>2, <1>e, <1>k, VisitEncoded, Zenon
<1>4. Encoded(NextTodo(stack, 0), Nulls, Document, <<>>)
  BY <1>3
<1>5. Nulls' = Nulls /\ Document' = Document /\ Pending' = <<>> /\ pc' = "iterate"
  BY <1>1 DEF Nulls, Document, Pending
<1> QED
  BY <1>1, <1>4, <1>5 DEF Encodes, EncodesValue

LEMMA EntryEncodes == EInv /\ WriteEntry => Encodes'
<1> SUFFICES ASSUME EInv, WriteEntry PROVE Encodes'
  OBVIOUS
<1> DEFINE e == Head(Top.todo)
           f == Top
           key == IF f.class = "Collection" THEN IndexKey(f.index) ELSE e.key
<1>1. /\ Iterating /\ ~Skipped(Seen(e)) /\ stack' = NextTodo(stack, 1)
      /\ call' = [key |-> key, value |-> Seen(e)] /\ pc' = "call"
      /\ UNCHANGED <<config, root, stream>>
  BY DEF WriteEntry
<1>e. e = Head(f.todo) /\ f = Top
  OBVIOUS
<1> HIDE DEF e, f
<1>2. /\ stack \in Seq(Frame) /\ stack # <<>> /\ f = stack[Len(stack)]
      /\ f.todo # <<>> /\ Nulls \in BOOLEAN
      /\ TRUE <=> (Nulls \/ ~EntryValue(e).null)
      /\ Encoding[Nulls][Seen(e)] = Encoding[Nulls][EntryValue(e)]
      /\ Encoded(stack, Nulls, Document, <<>>)
  BY <1>1, <1>e, Visit
<1>k. key = IF f.class = "Collection" THEN IndexKey(f.index) ELSE e.key
  OBVIOUS
<1> HIDE DEF key
<1>3. Encoded(NextTodo(stack, IF TRUE THEN 1 ELSE 0), Nulls, Document,
              IF TRUE THEN ElementBytes(key, Encoding[Nulls][EntryValue(e)]) ELSE <<>>)
  BY <1>2, <1>e, <1>k, VisitEncoded, Zenon
<1>4. Encoded(NextTodo(stack, 1), Nulls, Document,
              ElementBytes(key, Encoding[Nulls][EntryValue(e)]))
  BY <1>3
<1>5. Nulls' = Nulls /\ Document' = Document
  BY <1>1 DEF Nulls, Document
<1>6. call'.key = key /\ call'.value = Seen(e)
  BY <1>1
<1>7. Pending' = ElementBytes(key, Encoding[Nulls][EntryValue(e)])
  BY <1>1, <1>2, <1>5, <1>6, Zenon DEF Pending
<1>8. stack' # <<>>
  BY <1>1, <1>2, NextTodoType, HeadType DEF EInv
<1> QED
  BY <1>1, <1>4, <1>5, <1>7, <1>8 DEF Encodes, EncodesValue

LEMMA CloseEncodes == EInv /\ CloseCompound => Encodes'
<1> SUFFICES ASSUME EInv, CloseCompound PROVE Encodes'
  OBVIOUS
<1> DEFINE bytes == DocumentBytes(Top.inner)
           below == Below(stack)
<1>1. /\ pc = "iterate" /\ Top.todo = <<>> /\ stream' = PutOut(below, bytes)
      /\ stack' = PutOn(below, bytes)
      /\ pc' = IF below = <<>> THEN "done" ELSE "iterate"
      /\ UNCHANGED <<config, root, call>>
  BY DEF CloseCompound, Return
<1>2. /\ stack \in Seq(Frame) /\ stack # <<>> /\ Top = stack[Len(stack)]
      /\ Nulls \in BOOLEAN
  BY <1>1, CallEncoding DEF EInv, IInv, TypeOK, Top
<1>3. bytes \in Seq(BsonByte) /\ below \in Seq(Frame)
  <2>1. Top \in Frame
    BY <1>2
  <2> QED
    BY <1>2, <2>1, DocumentBytesType, BelowType DEF Frame
<1>4. Encoded(stack, Nulls, Document, <<>>)
  BY <1>1 DEF EInv, Encodes, Pending
<1>5. Encoded(below, Nulls, Document, bytes) /\ (below = <<>> => bytes = Document)
  BY <1>1, <1>2, <1>4, PopEncoded
<1>6. Nulls' = Nulls /\ Document' = Document /\ Pending' = <<>>
  BY <1>1 DEF Nulls, Document, Pending
<1> HIDE DEF bytes, below
<1>7. CASE below = <<>>
  <2>1. stream' = Prefix \o bytes
    BY <1>1, <1>7 DEF EInv, IInv, AtomicWrite, PutOut
  <2>2. EncodesValue'
    BY <1>5, <1>6, <1>7, <2>1 DEF EncodesValue, Document, Nulls
  <2> QED
    BY <1>1, <1>7, <2>2 DEF Encodes
<1>8. CASE below # <<>>
  <2>1. bytes \o <<>> = bytes /\ <<>> \in Seq(BsonByte)
    BY <1>3
  <2>2. Encoded(PutOn(below, bytes), Nulls, Document, <<>>)
    BY <1>2, <1>3, <1>5, <1>8, <2>1, PutEncoded
  <2> QED
    BY <1>1, <1>6, <1>8, <2>2 DEF Encodes, EncodesValue
<1> QED
  BY <1>7, <1>8

LEMMA EncodesNext == EInv /\ [Next]_vars => EInv'
<1> SUFFICES ASSUME EInv, [Next]_vars PROVE EInv'
  OBVIOUS
<1>1. IInv'
  BY NextInv DEF EInv
<1>2. CASE Step
  <2>1. ASSUME SerializeUnknown \/ RetrieveFails PROVE Encodes'
    BY <2>1, ThrowEncodes DEF SerializeUnknown, RetrieveFails, Failures
  <2>2. Encodes'
    BY <1>2, <2>1, ScalarEncodes, InlineEncodes, AnyEncodes, EnumEncodes,
       InterpretedEncodes, OpenEncodes, SkipEncodes, EntryEncodes, CloseEncodes
       DEF Step
  <2> QED
    BY <1>1, <2>2 DEF EInv
<1>3. CASE UNCHANGED vars
  <2>1. Encodes'
    BY <1>3 DEF EInv, Encodes, EncodesValue, Pending, Document, Nulls, vars
  <2> QED
    BY <1>1, <2>1 DEF EInv
<1> QED
  BY <1>2, <1>3 DEF Next, Finished

(* A normal return has written the document that stands for the value, of  *)
(* any depth and with any number of items, after what was there before.    *)
THEOREM DocumentWritten == Spec => []EncodesValue
<1>1. Init => EInv
  BY InitInv, EncodesInit DEF EInv
<1>2. EInv => EncodesValue
  BY DEF EInv, Encodes
<1> QED
  BY <1>1, <1>2, EncodesNext, PTL DEF Spec

-----------------------------------------------------------------------------
(***************************************************************************)
(* What is written is a BSON document.  The stream of an open document     *)
(* holds the beginning of one: whatever follows, if a walk does not go     *)
(* astray behind what is there, it does not go astray from the start.      *)
(* The proof needs no induction over values; a document is joined to the   *)
(* one around it when its loop ends.                                       *)
(***************************************************************************)

(* The walk: its recursive function exists, and a walk of one more step is *)
(* one step more of the walk.                                              *)
Stepping(p, n, f) ==
  f = [i \in 0 .. n |-> IF i = 0 THEN {p} ELSE UNION { Leads(x) : x \in f[i - 1] }]

Further(n, f) ==
  \A i \in Nat : i + 1 <= n => f[i + 1] = UNION { Leads(x) : x \in f[i] }

LEMMA SteppingIs ==
  ASSUME NEW p, NEW n \in Nat, NEW f, Stepping(p, n, f)
  PROVE  f[0] = {p} /\ Further(n, f)
<1>1. f = [i \in 0 .. n |-> IF i = 0 THEN {p} ELSE UNION { Leads(x) : x \in f[i - 1] }]
  BY DEF Stepping
<1>2. f[0] = {p}
  BY <1>1
<1>3. ASSUME NEW i \in Nat, i + 1 <= n
      PROVE  f[i + 1] = UNION { Leads(x) : x \in f[i] }
  <2>1. i + 1 \in 0 .. n /\ i + 1 # 0 /\ (i + 1) - 1 = i
    BY <1>3
  <2> QED
    BY <1>1, <2>1
<1> QED
  BY <1>2, <1>3 DEF Further

LEMMA SteppingExists ==
  ASSUME NEW p, NEW m \in Nat
  PROVE  \E f : Stepping(p, m, f)
<1> DEFINE L(f, i) == IF i = 0 THEN {p} ELSE UNION { Leads(x) : x \in f[i - 1] }
           T == { n \in Nat : \E f : Stepping(p, n, f) }
<1>1. 0 \in T
  <2> DEFINE f == [i \in 0 .. 0 |-> {p}]
  <2>1. f = [i \in 0 .. 0 |-> L(f, i)]
    OBVIOUS
  <2>2. Stepping(p, 0, f)
    BY <2>1 DEF Stepping
  <2> QED
    BY <2>2
<1>2. ASSUME NEW n \in T
      PROVE  n + 1 \in T
  <2>1. PICK f : Stepping(p, n, f)
    OBVIOUS
  <2> DEFINE g == [i \in 0 .. n + 1 |-> IF i = n + 1 THEN L(f, i) ELSE f[i]]
  <2>2. \A i \in 0 .. n : f[i] = L(f, i)
    BY <2>1 DEF Stepping
  <2>3. \A i \in 0 .. n : i \in 0 .. n + 1 /\ i # n + 1
    OBVIOUS
  <2>4. \A i \in 0 .. n : g[i] = f[i]
    BY <2>3
  <2>5. ASSUME NEW i \in 0 .. n + 1
        PROVE  g[i] = L(f, i)
    <3>1. i = n + 1 \/ i \in 0 .. n
      OBVIOUS
    <3> HIDE DEF L
    <3> QED
      BY <2>2, <3>1
  <2>6. ASSUME NEW i \in 0 .. n + 1
        PROVE  L(g, i) = L(f, i)
    <3>1. i = 0 \/ i - 1 \in 0 .. n
      OBVIOUS
    <3>2. CASE i = 0
      BY <3>2
    <3>3. CASE i - 1 \in 0 .. n
      <4>1. g[i - 1] = f[i - 1]
        BY <2>4, <3>3
      <4> HIDE DEF g
      <4> QED
        BY <4>1
    <3> QED
      BY <3>1, <3>2, <3>3
  <2>7. g = [i \in 0 .. n + 1 |-> L(g, i)]
    <3>1. \A i \in 0 .. n + 1 : g[i] = L(g, i)
      BY <2>5, <2>6
    <3>2. g = [i \in 0 .. n + 1 |-> g[i]]
      OBVIOUS
    <3> HIDE DEF g, L
    <3> QED
      BY <3>1, <3>2
  <2> HIDE DEF g
  <2>8. Stepping(p, n + 1, g)
    BY <2>7 DEF Stepping
  <2> QED
    BY <2>8
<1> HIDE DEF T
<1>3. T = Nat
  BY <1>1, <1>2, AllNaturals DEF T
<1> QED
  BY <1>3 DEF T

LEMMA WalkIs ==
  ASSUME NEW p, NEW n \in Nat
  PROVE  \E f : Stepping(p, n, f) /\ Walk(p, n) = f[n]
<1> DEFINE f == CHOOSE g : g = [i \in 0 .. n |->
                  IF i = 0 THEN {p} ELSE UNION { Leads(x) : x \in g[i - 1] }]
<1>1. Walk(p, n) = f[n]
  BY DEF Walk
<1>2. \E g : g = [i \in 0 .. n |-> IF i = 0 THEN {p} ELSE UNION { Leads(x) : x \in g[i - 1] }]
  <2>1. PICK g : Stepping(p, n, g)
    BY SteppingExists
  <2> QED
    BY <2>1 DEF Stepping
<1>3. f = [i \in 0 .. n |-> IF i = 0 THEN {p} ELSE UNION { Leads(x) : x \in f[i - 1] }]
  BY <1>2
<1>4. Stepping(p, n, f)
  BY <1>3 DEF Stepping
<1> HIDE DEF f
<1> QED
  BY <1>1, <1>4

LEMMA WalkNone ==
  ASSUME NEW p
  PROVE  Walk(p, 0) = {p}
<1>1. PICK f : Stepping(p, 0, f) /\ Walk(p, 0) = f[0]
  BY WalkIs
<1> QED
  BY <1>1, SteppingIs

LEMMA WalkNext ==
  ASSUME NEW p, NEW n \in Nat
  PROVE  Walk(p, n + 1) = UNION { Leads(x) : x \in Walk(p, n) }
<1>1. n + 1 \in Nat
  OBVIOUS
<1>2. PICK f : Stepping(p, n, f) /\ Walk(p, n) = f[n]
  BY WalkIs
<1>3. PICK g : Stepping(p, n + 1, g) /\ Walk(p, n + 1) = g[n + 1]
  BY <1>1, WalkIs
<1>4. f[0] = {p} /\ Further(n, f)
  BY <1>2, SteppingIs
<1>5. g[0] = {p} /\ Further(n + 1, g)
  BY <1>1, <1>3, SteppingIs
<1> DEFINE T == { i \in Nat : i <= n => f[i] = g[i] }
<1>6. 0 \in T
  BY <1>4, <1>5
<1>7. ASSUME NEW i \in T
      PROVE  i + 1 \in T
  <2> SUFFICES ASSUME i + 1 <= n PROVE f[i + 1] = g[i + 1]
    OBVIOUS
  <2>1. i \in Nat /\ f[i] = g[i] /\ i + 1 <= n + 1
    OBVIOUS
  <2>2. f[i + 1] = UNION { Leads(x) : x \in f[i] }
    BY <1>4, <2>1 DEF Further
  <2>3. g[i + 1] = UNION { Leads(x) : x \in g[i] }
    BY <1>5, <2>1 DEF Further
  <2> QED
    BY <2>1, <2>2, <2>3
<1> HIDE DEF T
<1>8. T = Nat
  BY <1>6, <1>7, AllNaturals DEF T
<1>9. f[n] = g[n]
  BY <1>8 DEF T
<1>10. n + 1 <= n + 1
  OBVIOUS
<1>11. g[n + 1] = UNION { Leads(x) : x \in g[n] }
  BY <1>5, <1>10 DEF Further
<1> QED
  BY <1>2, <1>3, <1>9, <1>11

(* A walk begins at one of the places that its place leads to. *)
LEMMA WalkBegins ==
  ASSUME NEW p, NEW n \in Nat
  PROVE  \A y \in Walk(p, n + 1) : \E x \in Leads(p) : y \in Walk(x, n)
<1> DEFINE T == { m \in Nat : \A y \in Walk(p, m + 1) : \E x \in Leads(p) : y \in Walk(x, m) }
<1>1. 0 \in T
  <2>1. Walk(p, 0 + 1) = UNION { Leads(x) : x \in Walk(p, 0) }
    BY WalkNext
  <2>2. Walk(p, 0 + 1) = Leads(p)
    BY <2>1, WalkNone
  <2>3. \A x : x \in Walk(x, 0)
    BY WalkNone
  <2> QED
    BY <2>2, <2>3
<1>2. ASSUME NEW m \in T
      PROVE  m + 1 \in T
  <2> SUFFICES ASSUME NEW y \in Walk(p, (m + 1) + 1)
               PROVE  \E x \in Leads(p) : y \in Walk(x, m + 1)
    OBVIOUS
  <2>1. m \in Nat /\ m + 1 \in Nat
    OBVIOUS
  <2>2. Walk(p, (m + 1) + 1) = UNION { Leads(x) : x \in Walk(p, m + 1) }
    BY <2>1, WalkNext
  <2>3. PICK z \in Walk(p, m + 1) : y \in Leads(z)
    BY <2>2
  <2>4. PICK x \in Leads(p) : z \in Walk(x, m)
    BY <2>3
  <2>5. Walk(x, m + 1) = UNION { Leads(w) : w \in Walk(x, m) }
    BY <2>1, WalkNext
  <2> QED
    BY <2>3, <2>4, <2>5
<1> HIDE DEF T
<1>3. T = Nat
  BY <1>1, <1>2, AllNaturals DEF T
<1> QED
  BY <1>3 DEF T

(* Places from which no walk goes astray. *)
Framed(p) == Astray \notin Walk(p, Steps)

(* A place is framed if those that it leads to are. *)
LEMMA Joined ==
  ASSUME NEW p, p # Astray, \A x \in Leads(p) : Framed(x)
  PROVE  Framed(p)
<1>1. CASE Steps = 0
  BY <1>1, WalkNone DEF Framed
<1>2. CASE Steps # 0
  <2>1. Steps - 1 \in Nat /\ (Steps - 1) + 1 = Steps
    BY <1>2, ScalarAssumption
  <2> DEFINE m == Steps - 1
  <2>2. m \in Nat /\ Steps = m + 1
    BY <2>1
  <2> HIDE DEF m
  <2>3. ASSUME Astray \in Walk(p, Steps)
        PROVE  FALSE
    <3>1. PICK x \in Leads(p) : Astray \in Walk(x, m)
      BY <2>2, <2>3, WalkBegins
    <3>2. Walk(x, m + 1) = UNION { Leads(y) : y \in Walk(x, m) }
      BY <2>2, WalkNext
    <3>3. Leads(Astray) = {Astray}
      BY DEF Leads, Astray, ElementAt
    <3>4. Astray \in Walk(x, m + 1)
      <4> HIDE DEF Astray
      <4> QED
        BY <3>1, <3>2, <3>3
    <3> QED
      BY <2>2, <3>4 DEF Framed
  <2> QED
    BY <2>3 DEF Framed
<1> QED
  BY <1>1, <1>2

-----------------------------------------------------------------------------
(* Bytes that lie somewhere in others. *)

Holds(b, at, s) ==
  at + Len(s) <= Len(b) /\ \A j \in 1 .. Len(s) : b[at + j] = s[j]

LEMMA HoldsBoth ==
  ASSUME NEW b \in Seq(BsonByte), NEW at \in Nat,
         NEW s \in Seq(BsonByte), NEW t \in Seq(BsonByte), Holds(b, at, s \o t)
  PROVE  Holds(b, at, s) /\ Holds(b, at + Len(s), t)
<1>1. /\ Len(s \o t) = Len(s) + Len(t)
      /\ \A i \in 1 .. Len(s) : (s \o t)[i] = s[i]
      /\ \A i \in 1 .. Len(t) : (s \o t)[Len(s) + i] = t[i]
  BY ConcatAt, Zenon
<1> DEFINE w == s \o t
           m == Len(s)
           n == Len(t)
           l == Len(b)
<1>2. /\ Len(w) = m + n /\ m \in Nat /\ n \in Nat /\ l \in Nat
      /\ \A i \in 1 .. m : w[i] = s[i]
      /\ \A i \in 1 .. n : w[m + i] = t[i]
      /\ at + Len(w) <= l /\ \A j \in 1 .. Len(w) : b[at + j] = w[j]
  BY <1>1 DEF Holds
<1> HIDE DEF w
<1>3. ASSUME NEW j \in 1 .. n
      PROVE  b[(at + m) + j] = t[j]
  <2>1. m + j \in 1 .. Len(w) /\ at + (m + j) = (at + m) + j
    BY <1>2
  <2> QED
    BY <1>2, <2>1
<1>4. ASSUME NEW j \in 1 .. m
      PROVE  b[at + j] = s[j]
  <2>1. j \in 1 .. Len(w)
    BY <1>2
  <2> QED
    BY <1>2, <2>1
<1>5. at + m <= l /\ (at + m) + n <= l
  BY <1>2
<1> QED
  BY <1>3, <1>4, <1>5 DEF Holds

(* The next NUL. *)
LEMMA AfterNulIs ==
  ASSUME NEW b \in Seq(BsonByte), NEW i \in Nat, NEW k \in Nat,
         i + k + 1 <= Len(b), b[i + k + 1] = 0, \A j \in 1 .. k : b[i + j] # 0
  PROVE  AfterNul(b, i) = i + k + 1
<1> DEFINE hits == { j \in i + 1 .. Len(b) : b[j] = 0 }
           z == i + k + 1
<1>1. AfterNul(b, i) = IF hits = {} THEN 0 ELSE CHOOSE j \in hits : \A y \in hits : j <= y
  BY DEF AfterNul
<1>2. z \in hits
  OBVIOUS
<1>3. ASSUME NEW y \in hits
      PROVE  z <= y
  <2>1. y \in i + 1 .. Len(b) /\ b[y] = 0
    OBVIOUS
  <2>2. y - i \in 1 .. k => b[i + (y - i)] # 0
    OBVIOUS
  <2>3. i + (y - i) = y
    BY <2>1
  <2>4. y - i \notin 1 .. k
    BY <2>1, <2>2, <2>3
  <2> QED
    BY <2>1, <2>4
<1>4. hits \subseteq Int /\ z \in Int
  OBVIOUS
<1> HIDE DEF hits, z
<1>5. \A j \in hits : (\A y \in hits : j <= y) => j = z
  BY <1>2, <1>3, <1>4
<1>6. (CHOOSE j \in hits : \A y \in hits : j <= y) = z
  BY <1>2, <1>3, <1>5
<1> QED
  BY <1>1, <1>2, <1>6 DEF z

(* Size fields. *)
LEMMA SizeAtIs ==
  ASSUME NEW b \in Seq(BsonByte), NEW i \in Nat, i + 4 <= Len(b),
         NEW c, c = Inc(Caret(b), i)
  PROVE  /\ SizeAt(b, i) = Int32At(c)
         /\ \A j \in 1 .. 4 : CurrBytes(c, 4)[j] = b[i + j]
<1>1. Within(Caret(b)) /\ Caret(b).data = b /\ Caret(b).pos = 0
  BY DEF Within, CaretType, Caret, DataSize
<1>2. Left(Caret(b)) = Len(b)
  BY <1>1 DEF Left, DataSize
<1> DEFINE k == Caret(b)
           l == Len(b)
<1>3. Within(k) /\ k.data = b /\ k.pos = 0 /\ Left(k) = l /\ l \in Nat /\ i <= l /\ l - i >= 4
  BY <1>1, <1>2
<1> HIDE DEF k, l
<1>4. /\ Within(Inc(k, i)) /\ Left(Inc(k, i)) = Left(k) - i
      /\ Inc(k, i).data = k.data /\ Inc(k, i).pos = k.pos + i
  BY <1>3, IncType
<1>5. c = Inc(k, i)
  BY DEF k
<1>6. Within(c) /\ Left(c) = l - i /\ c.data = b /\ c.pos = i
  BY <1>3, <1>4, <1>5
<1>7. 4 \in Nat /\ 4 <= Left(c)
  BY <1>3, <1>6
<1>8. \A j \in 1 .. 4 : CurrBytes(c, 4)[j] = c.data[c.pos + j]
  BY <1>6, <1>7, CurrBytesType
<1>9. SizeAt(b, i) = ReadInt32(c).value
  BY DEF SizeAt
<1>10. ~(Left(c) < 4)
  BY <1>3, <1>6
<1>11. ReadInt32(c).value = Int32At(c)
  BY <1>10 DEF ReadInt32
<1> QED
  BY <1>6, <1>8, <1>9, <1>11

LEMMA SizeAtWritten ==
  ASSUME NEW b \in Seq(BsonByte), NEW i \in Nat, i + 4 <= Len(b),
         NEW n \in Nat, n <= MaxInt32, \A j \in 1 .. 4 : b[i + j] = Int32Bytes(n)[j]
  PROVE  SizeAt(b, i) = n
<1> DEFINE c == Inc(Caret(b), i)
<1>1. /\ SizeAt(b, i) = Int32At(c)
      /\ \A j \in 1 .. 4 : CurrBytes(c, 4)[j] = b[i + j]
  BY SizeAtIs
<1> HIDE DEF c
<1>2. n \in Int /\ -MaxInt32 - 1 <= n
  BY SMT DEF MaxInt32
<1>3. \A j \in 1 .. 4 : CurrBytes(c, 4)[j] = Int32Bytes(n)[j]
  BY <1>1
<1> QED
  BY <1>1, <1>2, <1>3, Int32RoundTrip

LEMMA SizeAtMoved ==
  ASSUME NEW b \in Seq(BsonByte), NEW i \in Nat, i + 4 <= Len(b),
         NEW d \in Seq(BsonByte), NEW k \in Nat, k + 4 <= Len(d),
         \A j \in 1 .. 4 : b[i + j] = d[k + j]
  PROVE  SizeAt(b, i) = SizeAt(d, k)
<1> DEFINE c == Inc(Caret(b), i)
           e == Inc(Caret(d), k)
<1>1. /\ SizeAt(b, i) = Int32At(c)
      /\ \A j \in 1 .. 4 : CurrBytes(c, 4)[j] = b[i + j]
  BY SizeAtIs
<1>2. /\ SizeAt(d, k) = Int32At(e)
      /\ \A j \in 1 .. 4 : CurrBytes(e, 4)[j] = d[k + j]
  BY SizeAtIs
<1> HIDE DEF c, e
<1>3. \A j \in 1 .. 4 : CurrBytes(c, 4)[j] = CurrBytes(e, 4)[j]
  BY <1>1, <1>2
<1>4. Int32At(c) = Int32At(e)
  BY <1>3, SMT DEF Int32At
<1> QED
  BY <1>1, <1>2, <1>4

-----------------------------------------------------------------------------
(* An element is framed if its key is good and its payload is framed.      *)

LEMMA ElementPlace ==
  ASSUME NEW data, NEW at, NEW index, NEW p, p = ElementAt(data, at, index)
  PROVE  /\ p # Astray /\ Leads(p) = FromElement(p)
         /\ p.data = data /\ p.at = at /\ p.index = index
BY DEF ElementAt, Astray, Leads

LEMMA PayloadPlace ==
  ASSUME NEW data, NEW at, NEW code, NEW index, NEW p, p = PayloadAt(data, at, code, index)
  PROVE  /\ p # Astray /\ Leads(p) = FromPayload(p)
         /\ p.data = data /\ p.at = at /\ p.code = code /\ p.index = index
BY DEF PayloadAt, ElementAt, Astray, Leads

LEMMA ElementFramed ==
  ASSUME NEW b \in Seq(BsonByte), NEW at \in Nat, NEW code, NEW index,
         NEW key \in Seq(BsonByte), GoodKey(key), KeyFits(key, index),
         NEW k, k = Len(key), at + k + 2 <= Len(b),
         b[at + 1] = code, \A j \in 1 .. k : b[(at + 1) + j] = key[j], b[at + k + 2] = 0,
         Framed(PayloadAt(b, at + k + 2, code, NextIndex(index)))
  PROVE  Framed(ElementAt(b, at, index))
<1> DEFINE p     == ElementAt(b, at, index)
           n     == Len(b)
           start == AfterNul(b, at + 1)
<1>1. /\ p # Astray /\ Leads(p) = FromElement(p)
      /\ p.data = b /\ p.at = at /\ p.index = index
  BY ElementPlace
<1> HIDE DEF p
<1>2. k \in Nat /\ n \in Nat /\ at + k + 2 <= n
  OBVIOUS
<1>3. start = at + k + 2
  <2>1. at + 1 \in Nat /\ (at + 1) + k + 1 = at + k + 2
    BY <1>2
  <2>2. ASSUME NEW j \in 1 .. k
        PROVE  b[(at + 1) + j] # 0
    BY DEF GoodKey
  <2>3. (at + 1) + k + 1 <= Len(b) /\ b[(at + 1) + k + 1] = 0
    BY <2>1
  <2>4. AfterNul(b, at + 1) = (at + 1) + k + 1
    BY <1>2, <2>1, <2>2, <2>3, AfterNulIs
  <2> QED
    BY <2>1, <2>4
<1>4. SubSeq(b, at + 2, start - 1) = key
  <2> DEFINE s == SubSeq(b, at + 2, at + k + 1)
  <2>1. start - 1 = at + k + 1
    BY <1>2, <1>3
  <2>2. at + 2 \in Int /\ at + k + 1 \in Int /\ (at + k + 1) - (at + 2) + 1 = k
    BY <1>2
  <2>3. Len(s) = k /\ DOMAIN s = 1 .. k
    BY <1>2, <2>2
  <2>4. ASSUME NEW j \in 1 .. k
        PROVE  s[j] = key[j]
    <3>1. (at + 2) + j - 1 = (at + 1) + j
      BY <1>2
    <3>2. s[j] = b[(at + 2) + j - 1]
      BY <1>2, <2>2
    <3> QED
      BY <3>1, <3>2
  <2>5. s \in Seq(BsonByte)
    <3>1. \A j \in 1 .. k : key[j] \in BsonByte
      OBVIOUS
    <3>2. s = [j \in 1 .. k |-> b[(at + 2) + j - 1]]
      BY <2>2
    <3> QED
      BY <2>3, <2>4, <3>1, <3>2
  <2> HIDE DEF s
  <2>6. s = key
    BY <2>3, <2>4, <2>5
  <2> QED
    BY <2>1, <2>6 DEF s
<1> HIDE DEF start, n
<1>5. /\ p.at # n - 1 /\ p.at \in 0 .. n - 1 /\ start # 0
  BY <1>1, <1>2, <1>3
<1>6. KeyFits(SubSeq(p.data, p.at + 2, start - 1), p.index)
  BY <1>1, <1>4
<1>7. FromElement(p) = {PayloadAt(p.data, start, p.data[p.at + 1], NextIndex(p.index))}
  <2>1. n = Len(p.data) /\ start = AfterNul(p.data, p.at + 1)
    BY <1>1 DEF n, start
  <2> QED
    BY <1>5, <1>6, <2>1 DEF FromElement
<1>8. Leads(p) = {PayloadAt(b, at + k + 2, code, NextIndex(index))}
  BY <1>1, <1>3, <1>7
<1>9. \A x \in Leads(p) : Framed(x)
  BY <1>8
<1> QED
  BY <1>1, <1>9, Joined DEF p

(* A payload is framed if what follows it is and, in a document's, what is *)
(* in the document. *)
LEMMA PayloadFramed ==
  ASSUME NEW b, NEW at, NEW code, NEW index,
         NEW end, end = PayloadEnd(b, at, code), end # 0, IsPayload(b, at, end, code),
         Framed(ElementAt(b, end, index)),
         code \in {DOCUMENT_EMBEDDED, DOCUMENT_ARRAY} => Framed(ContentsAt(b, at, end, code))
  PROVE  Framed(PayloadAt(b, at, code, index))
<1> DEFINE p == PayloadAt(b, at, code, index)
<1>1. /\ p # Astray /\ Leads(p) = FromPayload(p)
      /\ p.data = b /\ p.at = at /\ p.code = code /\ p.index = index
  BY PayloadPlace
<1> HIDE DEF p
<1>2. FromPayload(p) =
        {ElementAt(b, end, index)}
        \cup (IF code \in {DOCUMENT_EMBEDDED, DOCUMENT_ARRAY}
              THEN {ContentsAt(b, at, end, code)} ELSE {})
  BY <1>1 DEF FromPayload
<1>3. \A x \in Leads(p) : Framed(x)
  BY <1>1, <1>2
<1> QED
  BY <1>1, <1>3, Joined DEF p

(* After the last element stands the terminator. *)
LEMMA TerminatorFramed ==
  ASSUME NEW b, NEW at, NEW index, at = Len(b) - 1, b[Len(b)] = 0
  PROVE  Framed(ElementAt(b, at, index))
<1> DEFINE p == ElementAt(b, at, index)
<1>1. /\ p # Astray /\ Leads(p) = FromElement(p)
      /\ p.data = b /\ p.at = at /\ p.index = index
  BY ElementPlace
<1> HIDE DEF p
<1>2. FromElement(p) = {}
  BY <1>1 DEF FromElement
<1>3. \A x \in Leads(p) : Framed(x)
  BY <1>1, <1>2
<1> QED
  BY <1>1, <1>3, Joined DEF p

-----------------------------------------------------------------------------
(* Bytes that are a payload with a code wherever they lie.                 *)

Fits(code, bytes) ==
  \A b \in Seq(BsonByte), at \in Nat \ {0} : \A index :
    /\ Holds(b, at, bytes) /\ Len(b) <= MaxInt32
    /\ Framed(ElementAt(b, at + Len(bytes), index))
    => Framed(PayloadAt(b, at, code, index))

(* PayloadEnd of what the serializer writes. *)
FixedCodes == {ScalarCode[c] : c \in ScalarClass \ {"String"}}

LEMMA FixedCodesAre ==
  FixedCodes \subseteq {DOUBLE, OBJECT_ID, BOOLEAN_CODE, DATE_TIME, INT_32, TIMESTAMP, INT_64}
<1>1. \A c \in ScalarClass : c # "String" =>
        ScalarCode[c] \in {DOUBLE, OBJECT_ID, BOOLEAN_CODE, DATE_TIME,
                           INT_32, TIMESTAMP, INT_64}
  BY DEF ScalarClass, ScalarCode
<1> QED
  BY <1>1 DEF FixedCodes

(* The codes the serializer writes, told apart from those of other kinds.  *)
Empty   == {NULL_VALUE, UNDEFINED, MIN_KEY, MAX_KEY}
Strings == {STRING_CODE, JAVASCRIPT_CODE, SYMBOL}
Nesting == {DOCUMENT_EMBEDDED, DOCUMENT_ARRAY, JAVASCRIPT_CODE_WS}
Others  == {BINARY, BD_POINTER, DECIMAL_128, REGEXP}

LEMMA KindsDiffer ==
  /\ NULL_VALUE \notin UNION {Strings, Nesting, Others, FixedCodes}
  /\ STRING_CODE \notin UNION {Empty, Nesting, Others, FixedCodes}
  /\ DOCUMENT_EMBEDDED \notin UNION {Empty, Strings, Others, FixedCodes}
  /\ DOCUMENT_ARRAY \notin UNION {Empty, Strings, Others, FixedCodes}
  /\ \A code \in FixedCodes : code \notin UNION {Empty, Strings, Nesting, Others}
<1>1. \A code \in {DOUBLE, OBJECT_ID, BOOLEAN_CODE, DATE_TIME, INT_32, TIMESTAMP, INT_64} :
        code \notin UNION {Empty, Strings, Nesting, Others}
  BY DEF Empty, Strings, Nesting, Others, DOUBLE, OBJECT_ID, BOOLEAN_CODE, DATE_TIME,
     INT_32, TIMESTAMP, INT_64, NULL_VALUE, UNDEFINED, MIN_KEY, MAX_KEY, STRING_CODE,
     JAVASCRIPT_CODE, SYMBOL, DOCUMENT_EMBEDDED, DOCUMENT_ARRAY, JAVASCRIPT_CODE_WS,
     BINARY, BD_POINTER, DECIMAL_128, REGEXP
<1>2. \A code \in FixedCodes : code \notin UNION {Empty, Strings, Nesting, Others}
  <2> HIDE DEF FixedCodes, Empty, Strings, Nesting, Others
  <2> QED
    BY <1>1, FixedCodesAre
<1>3. \A code \in FixedCodes :
        code \notin {NULL_VALUE, STRING_CODE, DOCUMENT_EMBEDDED, DOCUMENT_ARRAY}
  BY <1>2 DEF Empty, Strings, Nesting
<1>4. /\ NULL_VALUE \notin UNION {Strings, Nesting, Others}
      /\ STRING_CODE \notin UNION {Empty, Nesting, Others}
      /\ DOCUMENT_EMBEDDED \notin UNION {Empty, Strings, Others}
      /\ DOCUMENT_ARRAY \notin UNION {Empty, Strings, Others}
  BY DEF Empty, Strings, Nesting, Others, NULL_VALUE, UNDEFINED, MIN_KEY, MAX_KEY, STRING_CODE,
     JAVASCRIPT_CODE, SYMBOL, DOCUMENT_EMBEDDED, DOCUMENT_ARRAY, JAVASCRIPT_CODE_WS,
     BINARY, BD_POINTER, DECIMAL_128, REGEXP
<1> HIDE DEF Empty, Strings, Nesting, Others, FixedCodes
<1> QED
  BY <1>2, <1>3, <1>4

LEMMA EndOfKinds ==
  ASSUME NEW b, NEW i, NEW code
  PROVE  EndOf(b, i, code) =
           LET sized(more) == IF SizeAt(b, i) + more < 0 THEN 0 ELSE i + 4 + SizeAt(b, i) + more
           IN CASE code \in Empty        -> i
                [] code \in Strings      -> sized(0)
                [] code \in Nesting      -> sized(-4)
                [] code = BINARY         -> sized(1)
                [] code = BD_POINTER     -> sized(12)
                [] code = DECIMAL_128    -> i + 16
                [] code = REGEXP         ->
                     (IF AfterNul(b, i) = 0 THEN 0 ELSE AfterNul(b, AfterNul(b, i)))
                [] code \in FixedCodes   -> i + ScalarWidth(code)
                [] OTHER                 -> 0
BY Zenon DEF EndOf, Empty, Strings, Nesting, FixedCodes

LEMMA NullEnd ==
  ASSUME NEW b, NEW i
  PROVE  EndOf(b, i, NULL_VALUE) = i
<1>1. /\ NULL_VALUE \in Empty /\ NULL_VALUE \notin Strings /\ NULL_VALUE \notin Nesting
      /\ NULL_VALUE \notin Others /\ NULL_VALUE \notin FixedCodes
  <2>1. NULL_VALUE \in Empty
    BY DEF Empty
  <2> QED
    BY <2>1, KindsDiffer
<1> QED
  BY <1>1, EndOfKinds DEF Others

LEMMA StringEnd ==
  ASSUME NEW b, NEW i, SizeAt(b, i) \in Nat
  PROVE  EndOf(b, i, STRING_CODE) = i + 4 + SizeAt(b, i) + 0
<1>1. /\ STRING_CODE \in Strings /\ STRING_CODE \notin Empty /\ STRING_CODE \notin Nesting
      /\ STRING_CODE \notin Others /\ STRING_CODE \notin FixedCodes
  <2>1. STRING_CODE \in Strings
    BY DEF Strings
  <2> QED
    BY <2>1, KindsDiffer
<1>2. ~(SizeAt(b, i) + 0 < 0)
  OBVIOUS
<1> QED
  BY <1>1, <1>2, EndOfKinds DEF Others

LEMMA DocumentEnd ==
  ASSUME NEW b, NEW i, SizeAt(b, i) \in Nat, SizeAt(b, i) >= 4,
         NEW code \in {DOCUMENT_EMBEDDED, DOCUMENT_ARRAY}
  PROVE  EndOf(b, i, code) = i + 4 + SizeAt(b, i) + -4
<1>1. /\ code \in Nesting /\ code \notin Empty /\ code \notin Strings
      /\ code \notin Others /\ code \notin FixedCodes
  <2>1. code \in Nesting
    BY DEF Nesting
  <2> QED
    BY <2>1, KindsDiffer
<1>2. ~(SizeAt(b, i) + -4 < 0)
  OBVIOUS
<1> QED
  BY <1>1, <1>2, EndOfKinds DEF Others

LEMMA FixedEnd ==
  ASSUME NEW b, NEW i, NEW code \in FixedCodes
  PROVE  EndOf(b, i, code) = i + ScalarWidth(code)
<1>1. /\ code \notin Nesting /\ code \notin Empty /\ code \notin Strings
      /\ code \notin Others
  BY KindsDiffer
<1> QED
  BY <1>1, EndOfKinds DEF Others

LEMMA EndWithin ==
  ASSUME NEW b \in Seq(BsonByte), NEW i, NEW code, NEW end \in Nat,
         EndOf(b, i, code) = end, end <= Len(b)
  PROVE  PayloadEnd(b, i, code) = end
<1>1. PayloadEnd(b, i, code) = Fitting(b, end)
  BY EndFits
<1> QED
  BY <1>1 DEF Fitting

LEMMA NullFits == Fits(NULL_VALUE, <<>>)
<1>1. SUFFICES ASSUME NEW b \in Seq(BsonByte), NEW at \in Nat \ {0}, NEW index,
                      Holds(b, at, <<>>), Framed(ElementAt(b, at + Len(<<>>), index))
               PROVE  Framed(PayloadAt(b, at, NULL_VALUE, index))
  BY DEF Fits
<1>2. at + Len(<<>>) = at /\ at <= Len(b)
  BY <1>1 DEF Holds
<1>3. PayloadEnd(b, at, NULL_VALUE) = at
  BY <1>2, NullEnd, EndWithin
<1>4. NULL_VALUE \notin {STRING_CODE, BOOLEAN_CODE, DOCUMENT_EMBEDDED, DOCUMENT_ARRAY}
  BY DEF NULL_VALUE, STRING_CODE, BOOLEAN_CODE, DOCUMENT_EMBEDDED, DOCUMENT_ARRAY
<1>5. IsPayload(b, at, at, NULL_VALUE)
  BY <1>4 DEF IsPayload
<1> QED
  BY <1>1, <1>2, <1>3, <1>4, <1>5, PayloadFramed

LEMMA ScalarWidthIs ==
  ASSUME NEW code
  PROVE  ScalarWidth(code) \in Nat
<1>1. /\ INT_32 # BOOLEAN_CODE /\ INT_32 # OBJECT_ID /\ BOOLEAN_CODE # OBJECT_ID
  BY DEF BOOLEAN_CODE, INT_32, OBJECT_ID
<1> QED
  BY <1>1 DEF ScalarWidth

(* Numbers, object identifiers and dates. *)
LEMMA FixedFits ==
  ASSUME NEW class \in ScalarClass \ {"String"}, NEW bytes \in Seq(BsonByte),
         Len(bytes) = ScalarWidth(ScalarCode[class]),
         class = "Boolean" => bytes[1] \in {0, 1}
  PROVE  Fits(ScalarCode[class], bytes)
<1> DEFINE code == ScalarCode[class]
<1>1. code \in FixedCodes
  BY DEF FixedCodes
<1>2. code = BOOLEAN_CODE => class = "Boolean"
  BY DEF ScalarClass, ScalarCode, DOUBLE, OBJECT_ID, BOOLEAN_CODE, DATE_TIME, INT_32,
     TIMESTAMP, INT_64, STRING_CODE
<1>3. code \notin {STRING_CODE, DOCUMENT_EMBEDDED, DOCUMENT_ARRAY}
  BY <1>1, KindsDiffer DEF Strings, Nesting
<1>4. ScalarWidth(BOOLEAN_CODE) = 1 /\ ScalarWidth(code) \in Nat
  <2>1. BOOLEAN_CODE # INT_32 /\ BOOLEAN_CODE # OBJECT_ID
    BY DEF BOOLEAN_CODE, INT_32, OBJECT_ID
  <2>2. ScalarWidth(BOOLEAN_CODE) = 1
    BY <2>1 DEF ScalarWidth
  <2> QED
    BY <2>2, ScalarWidthIs
<1> HIDE DEF code
<1>5. SUFFICES ASSUME NEW b \in Seq(BsonByte), NEW at \in Nat \ {0}, NEW index,
                      Holds(b, at, bytes), Framed(ElementAt(b, at + Len(bytes), index))
               PROVE  Framed(PayloadAt(b, at, code, index))
  BY DEF Fits, code
<1> DEFINE n   == Len(bytes)
           end == at + n
<1>6. /\ n = ScalarWidth(code) /\ n \in Nat /\ end \in Nat /\ end # 0 /\ end <= Len(b)
      /\ \A j \in 1 .. n : b[at + j] = bytes[j]
  BY <1>5 DEF Holds, code
<1>7. Framed(ElementAt(b, end, index))
  BY <1>5
<1>8. EndOf(b, at, code) = end
  BY <1>1, <1>6, FixedEnd
<1> HIDE DEF n
<1>9. code = BOOLEAN_CODE => b[end] \in {0, 1}
  <2> SUFFICES ASSUME code = BOOLEAN_CODE PROVE b[end] \in {0, 1}
    OBVIOUS
  <2>1. n = 1
    BY <1>4, <1>6
  <2>2. b[at + 1] = bytes[1] /\ end = at + 1
    BY <1>6, <2>1
  <2> QED
    BY <1>2, <2>2
<1> HIDE DEF end
<1>10. PayloadEnd(b, at, code) = end
  BY <1>6, <1>8, EndWithin
<1>11. IsPayload(b, at, end, code)
  BY <1>3, <1>9 DEF IsPayload
<1> QED
  BY <1>3, <1>6, <1>7, <1>10, <1>11, PayloadFramed

(* A string with its size and its terminator. *)
LEMMA StringFits ==
  ASSUME NEW chars \in Seq(BsonByte)
  PROVE  Fits(STRING_CODE, Int32Bytes(Len(chars) + 1) \o chars \o <<0>>)
<1> DEFINE m     == Len(chars)
           head  == Int32Bytes(m + 1)
           bytes == head \o chars \o <<0>>
<1>1. head \in Seq(BsonByte) /\ Len(head) = 4 /\ <<0>> \in Seq(BsonByte) /\ m \in Nat
      /\ head \o chars \in Seq(BsonByte) /\ Len(head \o chars) = m + 4
  <2>1. m + 1 \in Int /\ m \in Nat
    OBVIOUS
  <2>2. head \in Seq(BsonByte) /\ Len(head) = 4
    BY <2>1, Int32BytesType
  <2>3. <<0>> \in Seq(BsonByte)
    BY DEF BsonByte
  <2> HIDE DEF head
  <2>4. head \o chars \in Seq(BsonByte) /\ Len(head \o chars) = Len(head) + Len(chars)
    BY <2>2, ConcatType, Zenon
  <2> QED
    BY <2>1, <2>2, <2>3, <2>4
<1>2. SUFFICES ASSUME NEW b \in Seq(BsonByte), NEW at \in Nat \ {0}, NEW index,
                      Holds(b, at, bytes), Len(b) <= MaxInt32,
                      Framed(ElementAt(b, at + Len(bytes), index))
               PROVE  Framed(PayloadAt(b, at, STRING_CODE, index))
  BY DEF Fits
<1> HIDE DEF head
<1>3. Len(bytes) = m + 5
  <2>1. Len(bytes) = Len(head \o chars) + Len(<<0>>)
    BY <1>1, ConcatType, Zenon
  <2>2. Len(<<0>>) = 1
    OBVIOUS
  <2> HIDE DEF m, bytes
  <2> QED
    BY <1>1, <2>1, <2>2
<1>4. Holds(b, at, head \o chars) /\ Holds(b, at + Len(head \o chars), <<0>>)
  BY <1>1, <1>2, HoldsBoth
<1>5. Holds(b, at, head)
  BY <1>1, <1>4, HoldsBoth
<1> DEFINE end == at + m + 5
           l   == Len(b)
<1>6. at + (m + 4) + 1 <= l /\ b[at + (m + 4) + 1] = 0 /\ l \in Nat
  <2> DEFINE k == at + Len(head \o chars)
  <2>1. k + Len(<<0>>) <= l /\ \A j \in 1 .. Len(<<0>>) : b[k + j] = <<0>>[j]
    BY <1>4 DEF Holds
  <2>2. Len(<<0>>) = 1 /\ <<0>>[1] = 0 /\ k = at + (m + 4)
    BY <1>1
  <2> HIDE DEF k
  <2> QED
    BY <2>1, <2>2
<1>7. \A j \in 1 .. 4 : b[at + j] = head[j]
  BY <1>1, <1>5 DEF Holds
<1> HIDE DEF m, l
<1>8. end \in Nat /\ end # 0 /\ end <= l /\ b[end] = 0 /\ end - at >= 5 /\ at + 4 <= l
  <2>1. at + (m + 4) + 1 = end
    BY <1>1
  <2> QED
    BY <1>1, <1>6, <2>1
<1>9. SizeAt(b, at) = m + 1
  <2>1. m + 1 \in Nat /\ m + 1 <= MaxInt32
    <3>1. l <= MaxInt32 /\ MaxInt32 \in Int
      BY <1>2 DEF l, MaxInt32
    <3> QED
      BY <1>1, <1>6, <3>1
  <2>2. \A j \in 1 .. 4 : b[at + j] = Int32Bytes(m + 1)[j]
    BY <1>7 DEF head
  <2> QED
    BY <1>8, <2>1, <2>2, SizeAtWritten DEF l
<1>10. EndOf(b, at, STRING_CODE) = end
  <2>1. SizeAt(b, at) \in Nat
    BY <1>1, <1>9
  <2>2. EndOf(b, at, STRING_CODE) = at + 4 + SizeAt(b, at) + 0
    BY <2>1, StringEnd
  <2> QED
    BY <1>1, <1>9, <2>2
<1>11. PayloadEnd(b, at, STRING_CODE) = end
  BY <1>8, <1>10, EndWithin DEF l
<1>12. /\ STRING_CODE \notin {DOCUMENT_EMBEDDED, DOCUMENT_ARRAY}
       /\ STRING_CODE # BOOLEAN_CODE
  BY DEF STRING_CODE, BOOLEAN_CODE, DOCUMENT_EMBEDDED, DOCUMENT_ARRAY
<1>13. IsPayload(b, at, end, STRING_CODE)
  BY <1>8, <1>12 DEF IsPayload
<1>14. Framed(ElementAt(b, end, index))
  <2> HIDE DEF bytes
  <2>1. at + Len(bytes) = end
    BY <1>1, <1>3
  <2> HIDE DEF end
  <2> QED
    BY <1>2, <2>1
<1> QED
  BY <1>8, <1>11, <1>12, <1>13, <1>14, PayloadFramed

(* A document inside another. *)
LEMMA DocumentFits ==
  ASSUME NEW code \in {DOCUMENT_EMBEDDED, DOCUMENT_ARRAY}, NEW doc \in Seq(BsonByte),
         IsDocument(doc, code, Steps)
  PROVE  Fits(code, doc)
<1>1. SUFFICES ASSUME NEW b \in Seq(BsonByte), NEW at \in Nat \ {0}, NEW index,
                      Holds(b, at, doc), Framed(ElementAt(b, at + Len(doc), index))
               PROVE  Framed(PayloadAt(b, at, code, index))
  BY DEF Fits
<1> DEFINE n   == Len(doc)
           end == at + n
<1>2. /\ n \in Nat /\ n >= 5 /\ SizeAt(doc, 0) = n
      /\ Framed(ContentsAt(doc, 0, n, code))
  BY DEF IsDocument, Framed
<1>3. end \in Nat /\ end # 0 /\ end <= Len(b) /\ \A j \in 1 .. n : b[at + j] = doc[j]
  BY <1>1, <1>2 DEF Holds
<1> HIDE DEF n
<1>4. SizeAt(b, at) = n
  <2>1. at + 4 <= Len(b) /\ 0 + 4 <= Len(doc) /\ 0 \in Nat
    BY <1>2, <1>3 DEF n
  <2>2. ASSUME NEW j \in 1 .. 4
        PROVE  b[at + j] = doc[0 + j]
    <3>1. j \in 1 .. n /\ 0 + j = j
      BY <1>2
    <3> QED
      BY <1>3, <3>1
  <2>3. SizeAt(b, at) = SizeAt(doc, 0)
    BY <2>1, <2>2, SizeAtMoved
  <2> QED
    BY <1>2, <2>3
<1>5. EndOf(b, at, code) = end
  <2>1. SizeAt(b, at) \in Nat /\ SizeAt(b, at) >= 4
    BY <1>2, <1>4
  <2>2. EndOf(b, at, code) = at + 4 + SizeAt(b, at) + -4
    BY <2>1, DocumentEnd
  <2> QED
    BY <1>2, <1>4, <2>2
<1>6. PayloadEnd(b, at, code) = end
  BY <1>3, <1>5, EndWithin
<1>7. code # STRING_CODE /\ code # BOOLEAN_CODE
  BY DEF STRING_CODE, BOOLEAN_CODE, DOCUMENT_EMBEDDED, DOCUMENT_ARRAY
<1>8. IsPayload(b, at, end, code)
  <2>1. end - at >= 5
    BY <1>2
  <2> HIDE DEF end
  <2> QED
    BY <1>7, <2>1 DEF IsPayload
<1>9. ContentsAt(b, at, end, code) = ContentsAt(doc, 0, n, code)
  <2> DEFINE s == SubSeq(b, at + 5, end)
             t == SubSeq(doc, 0 + 5, n)
  <2>1. Len(s) = n - 4 /\ Len(t) = n - 4
    BY <1>2, <1>3 DEF n
  <2>2. s \in Seq(BsonByte) /\ t \in Seq(BsonByte)
    <3>1. at + 5 \in Int /\ 1 <= at + 5 /\ end <= Len(b)
      BY <1>2, <1>3
    <3>2. 0 + 5 \in Int /\ 1 <= 0 + 5 /\ n <= Len(doc)
      BY <1>2 DEF n
    <3>3. \A i \in (at + 5) .. end : b[i] \in BsonByte
      BY <1>2, <1>3
    <3>4. \A i \in (0 + 5) .. n : doc[i] \in BsonByte
      BY <1>2 DEF n
    <3>5. s \in Seq(BsonByte)
      BY <1>3, <3>1, <3>3
    <3>6. t \in Seq(BsonByte)
      BY <1>2, <3>2, <3>4
    <3> QED
      BY <3>5, <3>6
  <2>3. ASSUME NEW i \in 1 .. n - 4
        PROVE  s[i] = t[i]
    <3>1. s[i] = b[(at + 5) + i - 1] /\ t[i] = doc[(0 + 5) + i - 1]
      BY <1>2, <1>3
    <3>2. 4 + i \in 1 .. n /\ (at + 5) + i - 1 = at + (4 + i) /\ (0 + 5) + i - 1 = 4 + i
      BY <1>2
    <3>3. b[at + (4 + i)] = doc[4 + i]
      BY <1>3, <3>2
    <3> QED
      BY <3>1, <3>2, <3>3
  <2> HIDE DEF s, t
  <2>4. s = t
    BY <1>2, <2>1, <2>2, <2>3
  <2> QED
    BY <2>4 DEF ContentsAt, s, t
<1>10. Framed(ElementAt(b, end, index))
  BY <1>1 DEF n
<1> HIDE DEF end
<1> QED
  BY <1>2, <1>3, <1>6, <1>8, <1>9, <1>10, PayloadFramed

-----------------------------------------------------------------------------
(* What the stream of an open document holds is the beginning of one: if   *)
(* what comes after it is framed, so is the document.  What comes next is  *)
(* an element, or the payload of the element of which it holds the key.    *)

Ready(inner, first, index) ==
  \A b \in Seq(BsonByte) :
    /\ Holds(b, 0, inner) /\ Len(b) <= MaxInt32
    /\ Framed(ElementAt(b, Len(inner), index))
    => Framed(ElementAt(b, 0, first))

Awaiting(inner, first, code, index) ==
  /\ inner # <<>>
  /\ \A b \in Seq(BsonByte) :
       /\ Holds(b, 0, inner) /\ Len(b) <= MaxInt32
       /\ Framed(PayloadAt(b, Len(inner), code, index))
       => Framed(ElementAt(b, 0, first))

LEMMA EmptyReady ==
  ASSUME NEW first
  PROVE  Ready(<<>>, first, first)
<1>1. Len(<<>>) = 0
  OBVIOUS
<1> QED
  BY <1>1 DEF Ready

(* Code and key of an element. *)
LEMMA KeyAwaits ==
  ASSUME NEW inner \in Seq(BsonByte), NEW first, NEW index, Ready(inner, first, index),
         NEW code \in BsonByte, NEW key \in Seq(BsonByte), GoodKey(key), KeyFits(key, index)
  PROVE  Awaiting(inner \o KeyBytes(code, key), first, code, NextIndex(index))
<1> DEFINE head == KeyBytes(code, key)
           k    == Len(key)
           m    == Len(inner)
<1>1. /\ <<code>> \in Seq(BsonByte) /\ Len(<<code>>) = 1 /\ <<code>>[1] = code
      /\ <<0>> \in Seq(BsonByte) /\ Len(<<0>>) = 1 /\ <<0>>[1] = 0
  BY DEF BsonByte
<1>2. head = <<code>> \o key \o <<0>>
  BY DEF KeyBytes, GoodKey
<1> DEFINE front == <<code>> \o key
<1>3. front \in Seq(BsonByte) /\ Len(front) = Len(<<code>>) + Len(key)
  BY <1>1, ConcatType, Zenon
<1> HIDE DEF front
<1>4. head = front \o <<0>>
  BY <1>2 DEF front
<1> HIDE DEF head
<1>5. head \in Seq(BsonByte) /\ Len(head) = Len(front) + Len(<<0>>)
  BY <1>1, <1>3, <1>4, ConcatType, Zenon
<1>6. k \in Nat /\ m \in Nat /\ Len(front) = k + 1 /\ Len(head) = k + 2
  BY <1>1, <1>3, <1>5
<1>7. /\ inner \o head \in Seq(BsonByte) /\ Len(inner \o head) = m + Len(head)
  BY <1>5, ConcatType, Zenon
<1>8. Len(inner \o head) = m + k + 2
  BY <1>6, <1>7
<1>9. inner \o head # <<>>
  <2>1. Len(inner \o head) # Len(<<>>)
    BY <1>6, <1>8
  <2> QED
    BY <2>1
<1>10. ASSUME NEW b \in Seq(BsonByte), Holds(b, 0, inner \o head), Len(b) <= MaxInt32,
              Framed(PayloadAt(b, Len(inner \o head), code, NextIndex(index)))
       PROVE  Framed(ElementAt(b, 0, first))
  <2>1. Holds(b, 0, inner) /\ Holds(b, 0 + Len(inner), head)
    <3>1. 0 \in Nat
      OBVIOUS
    <3> QED
      BY <1>5, <1>10, <3>1, HoldsBoth
  <2>2. 0 + Len(inner) = m /\ m \in Nat
    OBVIOUS
  <2>3. Holds(b, m, front \o <<0>>)
    BY <1>4, <2>1, <2>2
  <2>4. Holds(b, m, front) /\ Holds(b, m + Len(front), <<0>>)
    BY <1>1, <1>3, <2>2, <2>3, HoldsBoth
  <2>5. Holds(b, m, <<code>>) /\ Holds(b, m + Len(<<code>>), key)
    BY <1>1, <2>2, <2>4, HoldsBoth DEF front
  <2>6. b[m + 1] = code
    BY <1>1, <2>5 DEF Holds
  <2>7. \A j \in 1 .. k : b[(m + 1) + j] = key[j]
    BY <1>1, <2>5 DEF Holds
  <2>8. m + k + 2 <= Len(b) /\ b[m + k + 2] = 0
    <3> DEFINE z == m + Len(front)
    <3>1. z + Len(<<0>>) <= Len(b) /\ \A j \in 1 .. Len(<<0>>) : b[z + j] = <<0>>[j]
      BY <2>4 DEF Holds
    <3>2. z + 1 = m + k + 2 /\ z \in Nat
      BY <1>6
    <3> HIDE DEF z
    <3>3. z + 1 <= Len(b) /\ b[z + 1] = 0
      BY <1>1, <3>1
    <3> QED
      BY <3>2, <3>3
  <2>9. Framed(PayloadAt(b, m + k + 2, code, NextIndex(index)))
    BY <1>8, <1>10
  <2> HIDE DEF m, k
  <2>10. Framed(ElementAt(b, m, index))
    BY <2>2, <2>6, <2>7, <2>8, <2>9, ElementFramed DEF k
  <2> QED
    BY <1>10, <2>1, <2>10 DEF Ready, m
<1> QED
  BY <1>9, <1>10 DEF Awaiting, head

LEMMA PayloadReady ==
  ASSUME NEW inner \in Seq(BsonByte), NEW first, NEW code, NEW index,
         Awaiting(inner, first, code, index), NEW bytes \in Seq(BsonByte), Fits(code, bytes)
  PROVE  Ready(inner \o bytes, first, index)
<1> DEFINE m == Len(inner)
<1>1. m \in Nat \ {0}
  BY DEF Awaiting
<1>2. Len(inner \o bytes) = m + Len(bytes)
  BY ConcatType, Zenon
<1>3. ASSUME NEW b \in Seq(BsonByte), Holds(b, 0, inner \o bytes), Len(b) <= MaxInt32,
             Framed(ElementAt(b, Len(inner \o bytes), index))
      PROVE  Framed(ElementAt(b, 0, first))
  <2>1. Holds(b, 0, inner) /\ Holds(b, 0 + Len(inner), bytes)
    <3>1. 0 \in Nat
      OBVIOUS
    <3> QED
      BY <1>3, <3>1, HoldsBoth
  <2>2. 0 + Len(inner) = m
    OBVIOUS
  <2>3. Holds(b, m, bytes)
    BY <2>1, <2>2
  <2>4. Framed(ElementAt(b, m + Len(bytes), index))
    BY <1>2, <1>3
  <2> HIDE DEF m
  <2>5. Framed(PayloadAt(b, m, code, index))
    BY <1>1, <1>3, <2>3, <2>4 DEF Fits
  <2> QED
    BY <1>3, <2>1, <2>5 DEF Awaiting, m
<1> QED
  BY <1>3 DEF Ready

(* An element with its payload. *)
LEMMA ElementReady ==
  ASSUME NEW inner \in Seq(BsonByte), NEW first, NEW index, Ready(inner, first, index),
         NEW code \in BsonByte, NEW key \in Seq(BsonByte), GoodKey(key), KeyFits(key, index),
         NEW bytes \in Seq(BsonByte), Fits(code, bytes)
  PROVE  Ready(inner \o (KeyBytes(code, key) \o bytes), first, NextIndex(index))
<1> DEFINE head == KeyBytes(code, key)
<1>1. Awaiting(inner \o head, first, code, NextIndex(index))
  BY KeyAwaits
<1>2. head \in Seq(BsonByte)
  BY KeyBytesType DEF Key
<1> HIDE DEF head
<1>3. inner \o head \in Seq(BsonByte)
  BY <1>2, ConcatType, Zenon
<1>4. Ready((inner \o head) \o bytes, first, NextIndex(index))
  BY <1>1, <1>3, PayloadReady
<1>5. (inner \o head) \o bytes = inner \o (head \o bytes)
  BY <1>2
<1> QED
  BY <1>4, <1>5 DEF head

(* A loop that has ended. *)
LEMMA DocumentDone ==
  ASSUME NEW inner \in Seq(BsonByte), NEW code, NEW index,
         Ready(inner, FirstIndex(code), index), Len(DocumentBytes(inner)) <= MaxInt32
  PROVE  IsDocument(DocumentBytes(inner), code, Steps)
<1> DEFINE doc == DocumentBytes(inner)
           h   == Int32Bytes(Len(inner) + 5)
           b   == inner \o <<0>>
           m   == Len(inner)
<1>1. /\ doc \in Seq(BsonByte) /\ Len(doc) = m + 5 /\ m \in Nat
      /\ \A i \in 1 .. 4 : doc[i] = Int32Bytes(m + 5)[i]
  BY DocumentBytesType
<1>2. doc = h \o inner \o <<0>>
  BY DEF DocumentBytes
<1>3. h \in Seq(BsonByte) /\ Len(h) = 4 /\ <<0>> \in Seq(BsonByte) /\ Len(<<0>>) = 1
  <2>1. Len(inner) + 5 \in Int
    OBVIOUS
  <2> QED
    BY <2>1, Int32BytesType DEF BsonByte
<1>x. Len(doc) <= MaxInt32
  OBVIOUS
<1> HIDE DEF h, doc
<1>4. doc = h \o b
  BY <1>2, <1>3
<1>5. b \in Seq(BsonByte) /\ Len(b) = m + 1 /\ b[m + 1] = 0 /\ Holds(b, 0, inner)
  <2>1. /\ b \in Seq(BsonByte) /\ Len(b) = m + Len(<<0>>)
        /\ \A i \in 1 .. m : b[i] = inner[i]
        /\ \A i \in 1 .. Len(<<0>>) : b[m + i] = <<0>>[i]
    BY <1>3, ConcatAt, Zenon
  <2>2. Len(b) = m + 1 /\ b[m + 1] = 0
    <3>1. <<0>>[1] = 0
      OBVIOUS
    <3> HIDE DEF b
    <3> QED
      BY <1>3, <2>1, <3>1
  <2> HIDE DEF b
  <2>3. 0 + Len(inner) <= Len(b)
    BY <2>2
  <2>4. \A j \in 1 .. Len(inner) : b[0 + j] = inner[j]
    BY <2>1
  <2> QED
    BY <2>1, <2>2, <2>3, <2>4 DEF Holds
<1> HIDE DEF b
<1>6. Framed(ElementAt(b, m, index))
  <2>1. m = Len(b) - 1 /\ b[Len(b)] = 0
    BY <1>1, <1>5
  <2> QED
    BY <2>1, TerminatorFramed
<1>7. Len(b) <= MaxInt32
  <2>1. MaxInt32 \in Int
    BY DEF MaxInt32
  <2> QED
    BY <1>1, <1>5, <1>x, <2>1
<1>8. Framed(ElementAt(b, 0, FirstIndex(code)))
  BY <1>5, <1>6, <1>7 DEF Ready
<1>9. SubSeq(doc, 0 + 5, Len(doc)) = b
  <2>0. \A i \in 1 .. Len(b) : (h \o b)[Len(h) + i] = b[i]
    BY <1>3, <1>5, ConcatAt, Zenon
  <2>1. \A i \in 1 .. Len(b) : (h \o b)[4 + i] = b[i]
    BY <1>3, <2>0, Zenon
  <2> DEFINE s == SubSeq(doc, 0 + 5, Len(doc))
             n == m + 5
  <2>2. n = Len(doc) /\ n \in Nat /\ n >= 5 /\ \A i \in 1 .. n : doc[i] \in BsonByte
    BY <1>1
  <2>3. s \in Seq(BsonByte) /\ Len(s) = m + 1
    <3>1. 0 + 5 \in Int /\ 1 <= 0 + 5 /\ \A i \in (0 + 5) .. n : doc[i] \in BsonByte
      BY <2>2
    <3> QED
      BY <1>1, <2>2, <3>1
  <2>4. ASSUME NEW i \in 1 .. m + 1
        PROVE  s[i] = b[i]
    <3>1. s[i] = doc[(0 + 5) + i - 1]
      BY <1>1, <2>2
    <3>2. (0 + 5) + i - 1 = 4 + i
      OBVIOUS
    <3>3. doc[4 + i] = b[i]
      BY <1>4, <1>5, <2>1
    <3> QED
      BY <3>1, <3>2, <3>3
  <2> HIDE DEF s
  <2>5. s = b
    BY <1>5, <2>3, <2>4
  <2> QED
    BY <2>5 DEF s
<1>10. Framed(ContentsAt(doc, 0, Len(doc), code))
  BY <1>8, <1>9 DEF ContentsAt
<1>11. SizeAt(doc, 0) = Len(doc)
  <2>1. 0 \in Nat /\ 0 + 4 <= Len(doc) /\ Len(doc) \in Nat
    BY <1>1
  <2>2. ASSUME NEW j \in 1 .. 4
        PROVE  doc[0 + j] = Int32Bytes(Len(doc))[j]
    <3>1. 0 + j = j
      OBVIOUS
    <3> QED
      BY <1>1, <3>1
  <2> QED
    BY <1>1, <1>x, <2>1, <2>2, SizeAtWritten
<1>12. Len(doc) >= 5
  BY <1>1
<1> QED
  BY <1>10, <1>11, <1>12 DEF IsDocument, Framed, doc

LEMMA DocumentBytesFit ==
  ASSUME NEW inner \in Seq(BsonByte), NEW code \in {DOCUMENT_EMBEDDED, DOCUMENT_ARRAY},
         NEW index, Ready(inner, FirstIndex(code), index)
  PROVE  Fits(code, DocumentBytes(inner))
<1> DEFINE doc == DocumentBytes(inner)
<1>1. doc \in Seq(BsonByte)
  BY DocumentBytesType
<1>2. Len(doc) <= MaxInt32 => Fits(code, doc)
  BY <1>1, DocumentDone, DocumentFits
<1> HIDE DEF doc
<1>3. CASE ~(Len(doc) <= MaxInt32)
  <2>1. ASSUME NEW b \in Seq(BsonByte), NEW at \in Nat \ {0}, Holds(b, at, doc)
        PROVE  ~(Len(b) <= MaxInt32)
    <3>1. at + Len(doc) <= Len(b)
      BY <2>1 DEF Holds
    <3>2. MaxInt32 \in Int /\ Len(doc) \in Nat /\ Len(b) \in Nat
      BY <1>1 DEF MaxInt32
    <3> QED
      BY <1>3, <3>1, <3>2
  <2>2. Fits(code, doc)
    BY <2>1 DEF Fits
  <2> QED
    BY <2>2 DEF doc
<1> QED
  BY <1>2, <1>3 DEF doc

-----------------------------------------------------------------------------
(* The stack.  Each frame but the innermost waits for the document of the  *)
(* frame above it.                                                         *)

IndexIn(f, i) == IF f.class = "Collection" THEN i ELSE NoIndex

FirstOf(f) == FirstIndex(CompoundCode(f.class))

Grown(f, i) == Ready(f.inner, FirstOf(f), IndexIn(f, i))

Waits(f, code) == Awaiting(f.inner, FirstOf(f), code, IndexIn(f, f.index))

KeysGood(f) ==
  f.class # "Collection" => \A j \in DOMAIN f.todo : GoodKey(f.todo[j].key)

Layers(stk) ==
  /\ \A k \in 1 .. Len(stk) : KeysGood(stk[k])
  /\ \A k \in 1 .. Len(stk) - 1 : Waits(stk[k], CompoundCode(stk[k + 1].class))

LEMMA IndexInIs ==
  ASSUME NEW f, f.class \in Compound, NEW i \in Nat
  PROVE  FirstOf(f) = IndexIn(f, 0) /\ NextIndex(IndexIn(f, i)) = IndexIn(f, i + 1)
<1>1. DOCUMENT_ARRAY # DOCUMENT_EMBEDDED
  BY DEF DOCUMENT_ARRAY, DOCUMENT_EMBEDDED
<1>2. i # NoIndex
  BY DEF NoIndex
<1> QED
  BY <1>1, <1>2 DEF FirstOf, IndexIn, FirstIndex, NextIndex, CompoundCode

LEMMA LayersSame ==
  ASSUME NEW stk, NEW new, NEW n \in Nat, n = Len(stk), Len(new) = n, Layers(stk),
         \A k \in 1 .. n : k # n => new[k] = stk[k],
         new[n].class = stk[n].class, KeysGood(new[n])
  PROVE  Layers(new)
<1>1. ASSUME NEW k \in 1 .. n
      PROVE  KeysGood(new[k])
  BY DEF Layers
<1>2. ASSUME NEW k \in 1 .. n - 1
      PROVE  Waits(new[k], CompoundCode(new[k + 1].class))
  <2>1. k \in 1 .. n /\ k # n /\ k + 1 \in 1 .. n
    OBVIOUS
  <2>2. new[k] = stk[k] /\ new[k + 1].class = stk[k + 1].class
    BY <2>1
  <2> QED
    BY <2>2 DEF Layers
<1> QED
  BY <1>1, <1>2 DEF Layers

LEMMA PutOnIs ==
  ASSUME NEW stk \in Seq(Frame), stk # <<>>, NEW bytes \in Seq(BsonByte),
         NEW n, n = Len(stk), NEW new, new = PutOn(stk, bytes)
  PROVE  /\ n \in Nat \ {0} /\ n \in 1 .. n /\ stk[n] \in Frame
         /\ Len(new) = n /\ \A k \in 1 .. n : k # n => new[k] = stk[k]
         /\ new[n].class = stk[n].class /\ new[n].todo = stk[n].todo
         /\ new[n].index = stk[n].index /\ new[n].inner = stk[n].inner \o bytes
<1>1. n \in Nat \ {0} /\ n \in 1 .. n
  BY LenProperties
<1>2. stk[n] \in Frame
  BY <1>1
<1> DEFINE g == [stk[n] EXCEPT !.inner = stk[n].inner \o bytes]
<1>3. new = [stk EXCEPT ![n] = g]
  BY <1>1 DEF PutOn
<1>4. /\ g.class = stk[n].class /\ g.todo = stk[n].todo
      /\ g.index = stk[n].index /\ g.inner = stk[n].inner \o bytes
  BY <1>2 DEF Frame
<1> HIDE DEF g
<1>5. /\ Len(new) = n /\ \A k \in 1 .. n : k # n => new[k] = stk[k]
      /\ new[n] = g
  BY <1>1, <1>3
<1> QED
  BY <1>1, <1>2, <1>4, <1>5

LEMMA LayersPut ==
  ASSUME NEW stk \in Seq(Frame), stk # <<>>, NEW bytes \in Seq(BsonByte), Layers(stk)
  PROVE  Layers(PutOn(stk, bytes))
<1> DEFINE n   == Len(stk)
           new == PutOn(stk, bytes)
<1>1. /\ n \in Nat \ {0} /\ n \in 1 .. n /\ stk[n] \in Frame
      /\ Len(new) = n /\ \A k \in 1 .. n : k # n => new[k] = stk[k]
      /\ new[n].class = stk[n].class /\ new[n].todo = stk[n].todo
      /\ new[n].index = stk[n].index /\ new[n].inner = stk[n].inner \o bytes
  BY PutOnIs
<1> HIDE DEF n, new
<1>2. KeysGood(stk[n])
  BY <1>1 DEF Layers, n
<1>3. KeysGood(new[n])
  BY <1>1, <1>2 DEF KeysGood
<1>4. n \in Nat /\ n = Len(stk)
  BY <1>1 DEF n
<1> QED
  BY <1>1, <1>3, <1>4, LayersSame DEF new

LEMMA NextTodoIs ==
  ASSUME NEW stk \in Seq(Frame), stk # <<>>, NEW step \in Nat,
         NEW n, n = Len(stk), NEW new, new = NextTodo(stk, step)
  PROVE  /\ n \in Nat \ {0} /\ n \in 1 .. n /\ stk[n] \in Frame
         /\ Len(new) = n /\ \A k \in 1 .. n : k # n => new[k] = stk[k]
         /\ new[n].class = stk[n].class /\ new[n].todo = Tail(stk[n].todo)
         /\ new[n].index = stk[n].index + step /\ new[n].inner = stk[n].inner
<1>1. n \in Nat \ {0} /\ n \in 1 .. n
  BY LenProperties
<1>2. stk[n] \in Frame
  BY <1>1
<1> DEFINE g == [stk[n] EXCEPT !.todo = Tail(stk[n].todo), !.index = stk[n].index + step]
<1>3. new = [stk EXCEPT ![n] = g]
  BY <1>1, <1>2 DEF NextTodo, Frame
<1>4. /\ g.class = stk[n].class /\ g.todo = Tail(stk[n].todo)
      /\ g.index = stk[n].index + step /\ g.inner = stk[n].inner
  BY <1>2 DEF Frame
<1> HIDE DEF g
<1>5. /\ Len(new) = n /\ \A k \in 1 .. n : k # n => new[k] = stk[k]
      /\ new[n] = g
  BY <1>1, <1>3
<1> QED
  BY <1>1, <1>2, <1>4, <1>5

LEMMA LayersTodo ==
  ASSUME NEW stk \in Seq(Frame), stk # <<>>, NEW step \in Nat, Layers(stk),
         stk[Len(stk)].todo # <<>>
  PROVE  Layers(NextTodo(stk, step))
<1> DEFINE n   == Len(stk)
           new == NextTodo(stk, step)
<1>1. /\ n \in Nat \ {0} /\ n \in 1 .. n /\ stk[n] \in Frame
      /\ Len(new) = n /\ \A k \in 1 .. n : k # n => new[k] = stk[k]
      /\ new[n].class = stk[n].class /\ new[n].todo = Tail(stk[n].todo)
      /\ new[n].index = stk[n].index + step /\ new[n].inner = stk[n].inner
  BY NextTodoIs
<1>t. stk[n].todo # <<>>
  OBVIOUS
<1> HIDE DEF n, new
<1>2. KeysGood(stk[n])
  BY <1>1 DEF Layers, n
<1> DEFINE todo == stk[n].todo
<1>3. todo \in Seq(ValueEntry) /\ todo # <<>>
  BY <1>1, <1>t DEF Frame
<1>4. ASSUME NEW j \in DOMAIN Tail(todo)
      PROVE  j + 1 \in DOMAIN todo /\ Tail(todo)[j] = todo[j + 1]
  <2> HIDE DEF todo
  <2> QED
    BY <1>3
<1>5. KeysGood(new[n])
  BY <1>1, <1>2, <1>4 DEF KeysGood
<1>6. n \in Nat /\ n = Len(stk)
  BY <1>1 DEF n
<1> QED
  BY <1>1, <1>5, <1>6, LayersSame DEF new

LEMMA LayersPush ==
  ASSUME NEW stk \in Seq(Frame), NEW f, Layers(stk), KeysGood(f),
         stk # <<>> => Waits(stk[Len(stk)], CompoundCode(f.class))
  PROVE  /\ Layers(Append(stk, f))
         /\ Len(Append(stk, f)) = Len(stk) + 1 /\ Append(stk, f)[Len(stk) + 1] = f
<1> DEFINE n   == Len(stk)
           new == Append(stk, f)
<1>1. /\ n \in Nat /\ Len(new) = n + 1 /\ new[n + 1] = f
      /\ \A k \in 1 .. n : new[k] = stk[k]
      /\ stk = <<>> <=> n = 0
  OBVIOUS
<1>w. n # 0 => Waits(stk[n], CompoundCode(f.class))
  BY <1>1
<1>l. /\ \A k \in 1 .. n : KeysGood(stk[k])
      /\ \A k \in 1 .. n - 1 : Waits(stk[k], CompoundCode(stk[k + 1].class))
  BY DEF Layers
<1> HIDE DEF n, new
<1>2. ASSUME NEW k \in 1 .. n + 1
      PROVE  KeysGood(new[k])
  <2>1. k = n + 1 \/ k \in 1 .. n
    BY <1>1
  <2> QED
    BY <1>1, <1>l, <2>1
<1>3. ASSUME NEW k \in 1 .. (n + 1) - 1
      PROVE  Waits(new[k], CompoundCode(new[k + 1].class))
  <2>1. CASE k = n
    <3>1. n # 0 /\ n \in 1 .. n
      BY <1>1, <2>1
    <3> QED
      BY <1>1, <1>w, <2>1, <3>1
  <2>2. CASE k # n
    <3>1. k \in 1 .. n /\ k + 1 \in 1 .. n /\ k \in 1 .. n - 1
      BY <1>1, <2>2
    <3> QED
      BY <1>1, <1>l, <3>1
  <2> QED
    BY <2>1, <2>2
<1>4. Layers(new)
  BY <1>1, <1>2, <1>3 DEF Layers
<1> QED
  BY <1>1, <1>4 DEF n, new

LEMMA LayersBelow ==
  ASSUME NEW stk \in Seq(Frame), stk # <<>>, Layers(stk),
         NEW n, n = Len(stk), NEW below, below = Below(stk)
  PROVE  /\ Layers(below) /\ below \in Seq(Frame) /\ Len(below) = n - 1
         /\ below # <<>> => /\ Waits(below[n - 1], CompoundCode(stk[n].class))
<1>1. n \in Nat \ {0} /\ n \in 1 .. n
  BY LenProperties
<1>2. /\ Len(below) = n - 1 /\ \A k \in 1 .. n - 1 : below[k] = stk[k]
  <2> DEFINE l == n - 1
  <2>1. l \in 0 .. Len(stk)
    BY <1>1
  <2> HIDE DEF l
  <2>2. Len(SubSeq(stk, 1, l)) = l /\ \A k \in 1 .. l : SubSeq(stk, 1, l)[k] = stk[k]
    BY <2>1, SubSeqFirst
  <2> QED
    BY <2>2, Zenon DEF Below, l
<1>3. /\ \A k \in 1 .. n : KeysGood(stk[k])
      /\ \A k \in 1 .. n - 1 : Waits(stk[k], CompoundCode(stk[k + 1].class))
  BY DEF Layers
<1>4. below \in Seq(Frame)
  BY BelowType
<1>5. \A k \in 1 .. n - 1 : KeysGood(below[k])
  BY <1>1, <1>2, <1>3
<1>6. ASSUME NEW k \in 1 .. (n - 1) - 1
      PROVE  Waits(below[k], CompoundCode(below[k + 1].class))
  <2>1. k \in 1 .. n - 1 /\ k + 1 \in 1 .. n - 1
    BY <1>1
  <2> QED
    BY <1>2, <1>3, <2>1
<1>7. ASSUME below # <<>>
      PROVE  Waits(below[n - 1], CompoundCode(stk[n].class))
  <2>1. n - 1 # 0
    BY <1>2, <1>4, <1>7
  <2>2. n - 1 \in 1 .. n - 1 /\ (n - 1) + 1 = n
    BY <1>1, <2>1
  <2> QED
    BY <1>2, <1>3, <2>2
<1> QED
  BY <1>2, <1>4, <1>5, <1>6, <1>7 DEF Layers

-----------------------------------------------------------------------------
(* The invariant. *)

IsWritten(bytes) ==
  Len(bytes) <= MaxInt32 =>
    \E code \in {DOCUMENT_EMBEDDED, DOCUMENT_ARRAY} : IsDocument(bytes, code, Steps)

(* The call has been given the key of the element that comes next. *)
Called(f, key) ==
  /\ f.index >= 1 /\ Grown(f, f.index - 1)
  /\ GoodKey(key) /\ KeyFits(key, IndexIn(f, f.index - 1))

Growing ==
  /\ Layers(stack)
  /\ pc = "iterate" => Grown(Top, Top.index)
  /\ pc = "call" /\ stack # <<>> => Called(Top, call.key)
  /\ pc = "done" => \E bytes \in Seq(BsonByte) : stream = Prefix \o bytes /\ IsWritten(bytes)

LEMMA NoLayers == Layers(<<>>)
<1>1. Len(<<>>) = 0 /\ 1 .. 0 = {} /\ 1 .. 0 - 1 = {}
  OBVIOUS
<1> QED
  BY <1>1 DEF Layers

LEMMA GrowingInit == Init => Growing
<1> SUFFICES ASSUME Init PROVE Growing
  OBVIOUS
<1>1. stack = <<>> /\ pc = "call"
  BY DEF Init
<1> QED
  BY <1>1, NoLayers DEF Growing

LEMMA ThrowGrows ==
  ASSUME NEW failure \in Failures, Throw(failure)
  PROVE  Growing'
<1>1. stack' = <<>> /\ pc' \notin {"call", "iterate", "done"}
  BY DEF Throw, Failures
<1>2. Layers(stack')
  BY <1>1, NoLayers
<1> QED
  BY <1>1, <1>2 DEF Growing

LEMMA DelegateGrows ==
  ASSUME IInv, Growing, NEW value, Delegate(value)
  PROVE  Growing'
<1>1. UNCHANGED <<stream, stack, pc>> /\ call' = [call EXCEPT !.value = value]
  BY DEF Delegate
<1>2. call'.key = call.key
  BY <1>1 DEF IInv, TypeOK
<1> QED
  BY <1>1, <1>2 DEF Growing, Top

(* What a method writes with the key it was given. *)
LEMMA WriteGrows ==
  ASSUME IInv, Growing, pc = "call", stack # <<>>, NEW code \in BsonByte,
         NEW bytes \in Seq(BsonByte), Fits(code, bytes),
         Write(KeyBytes(code, call.key) \o bytes)
  PROVE  Growing'
<1> DEFINE w   == KeyBytes(code, call.key) \o bytes
           n   == Len(stack)
           new == PutOn(stack, w)
           f   == stack[n]
<1>1. /\ stack' = new /\ pc' = "iterate"
  BY DEF Write, Return
<1>2. stack \in Seq(Frame) /\ call.key \in Key
  BY CallType DEF IInv, TypeOK
<1>3. Called(f, call.key)
  BY DEF Growing, Top
<1>4. call.key \in Seq(BsonByte)
  BY <1>2, <1>3 DEF Called, GoodKey, Key
<1>5. w \in Seq(BsonByte)
  <2>1. KeyBytes(code, call.key) \in Seq(BsonByte)
    BY <1>2, KeyBytesType
  <2> QED
    BY <2>1, ConcatType, Zenon
<1> HIDE DEF w
<1>6. /\ n \in Nat \ {0} /\ n \in 1 .. n /\ f \in Frame
      /\ Len(new) = n /\ \A k \in 1 .. n : k # n => new[k] = stack[k]
      /\ new[n].class = f.class /\ new[n].todo = f.todo
      /\ new[n].index = f.index /\ new[n].inner = f.inner \o w
  BY <1>2, <1>5, PutOnIs
<1>7. Layers(new)
  BY <1>2, <1>5, LayersPut DEF Growing
<1> HIDE DEF n, new, f
<1>8. Grown(new[n], new[n].index)
  <2> DEFINE i == f.index - 1
  <2>1. f.inner \in Seq(BsonByte) /\ f.index \in Nat /\ f.class \in Compound
    BY <1>6 DEF Frame
  <2>2. i \in Nat /\ i + 1 = f.index
    BY <1>3, <2>1 DEF Called
  <2> HIDE DEF i
  <2>3. /\ Ready(f.inner, FirstOf(f), IndexIn(f, i))
        /\ GoodKey(call.key) /\ KeyFits(call.key, IndexIn(f, i))
    BY <1>3 DEF Called, Grown, i
  <2>4. Ready(f.inner \o (KeyBytes(code, call.key) \o bytes), FirstOf(f), NextIndex(IndexIn(f, i)))
    BY <1>4, <2>1, <2>3, ElementReady
  <2>5. NextIndex(IndexIn(f, i)) = IndexIn(f, f.index)
    BY <2>1, <2>2, IndexInIs
  <2>6. Ready(new[n].inner, FirstOf(f), IndexIn(f, f.index))
    BY <1>6, <2>4, <2>5 DEF w
  <2>7. FirstOf(new[n]) = FirstOf(f) /\ IndexIn(new[n], new[n].index) = IndexIn(f, f.index)
    BY <1>6 DEF FirstOf, IndexIn
  <2> QED
    BY <2>6, <2>7 DEF Grown
<1>9. Top' = new[n]
  BY <1>1, <1>6 DEF Top
<1> QED
  BY <1>1, <1>7, <1>8, <1>9 DEF Growing

LEMMA NullGrows ==
  ASSUME IInv, Growing, pc = "call", call.key # NullKey, WriteNull
  PROVE  Growing'
<1> DEFINE head == KeyBytes(NULL_VALUE, call.key)
<1>1. NULL_VALUE \in BsonByte
  BY DEF NULL_VALUE, BsonByte
<1>2. head \in Seq(BsonByte)
  BY <1>1, CallType, KeyBytesType
<1>3. Write(head)
  BY DEF WriteNull
<1> HIDE DEF head
<1>4. head \o <<>> = head /\ <<>> \in Seq(BsonByte)
  BY <1>2
<1>5. Write(KeyBytes(NULL_VALUE, call.key) \o <<>>)
  BY <1>3, <1>4 DEF head
<1>6. stack # <<>>
  BY DEF IInv, RootKey
<1> QED
  BY <1>1, <1>4, <1>5, <1>6, NullFits, WriteGrows

LEMMA SerializeNullGrows ==
  ASSUME IInv, Growing, NEW classes, SerializeNull(classes)
  PROVE  Growing'
<1>1. pc = "call"
  BY DEF SerializeNull, Calling
<1>2. CASE call.key # NullKey
  BY <1>1, <1>2, NullGrows DEF SerializeNull
<1>3. CASE call.key = NullKey
  <2>1. Throw("null object with null key")
    BY <1>3 DEF SerializeNull
  <2> QED
    BY <2>1, ThrowGrows DEF Failures
<1> QED
  BY <1>2, <1>3

(* A scalar, or the one that an Enum stands for. *)
LEMMA KeyedGrows ==
  ASSUME IInv, Growing, pc = "call", call.key # NullKey,
         NEW v \in Values, v.class \in ScalarClass, ~v.null,
         Write(KeyBytes(ScalarCode[v.class], call.key) \o ScalarBytes(v))
  PROVE  Growing'
<1>1. ScalarCode[v.class] \in BsonByte
  BY SMT DEF ScalarClass, ScalarCode, BsonByte, STRING_CODE, INT_32, INT_64,
     TIMESTAMP, DOUBLE, BOOLEAN_CODE, OBJECT_ID, DATE_TIME
<1>2. v.bytes \in Seq(BsonByte)
  BY ValueType
<1>3. ScalarBytes(v) \in Seq(BsonByte)
  BY <1>2, ScalarBytesType
<1>4. Fits(ScalarCode[v.class], ScalarBytes(v))
  <2>1. CASE v.class = "String"
    <3>1. ScalarCode[v.class] = STRING_CODE
      BY <2>1 DEF ScalarCode
    <3>2. ScalarBytes(v) = Int32Bytes(Len(v.bytes) + 1) \o v.bytes \o <<0>>
      BY <2>1 DEF ScalarBytes
    <3> QED
      BY <1>2, <3>1, <3>2, StringFits
  <2>2. CASE v.class # "String"
    <3>1. ScalarBytes(v) = v.bytes
      BY <2>2 DEF ScalarBytes
    <3>2. /\ Len(v.bytes) = ScalarWidth(ScalarCode[v.class])
          /\ v.class = "Boolean" => v.bytes[1] \in {0, 1}
      BY <2>2, ScalarAssumption
    <3> QED
      BY <1>2, <2>2, <3>1, <3>2, FixedFits
  <2> QED
    BY <2>1, <2>2
<1>5. stack # <<>>
  BY DEF IInv, RootKey
<1> HIDE DEF Fits
<1> QED
  BY <1>1, <1>3, <1>4, <1>5, WriteGrows

LEMMA ScalarGrows == IInv /\ Growing /\ SerializeScalar => Growing'
<1> SUFFICES ASSUME IInv, Growing, SerializeScalar PROVE Growing'
  OBVIOUS
<1>1. pc = "call" /\ call.value.class \in ScalarClass /\ call.value \in Values
  BY CallType DEF SerializeScalar, Calling
<1>2. CASE call.key = NullKey
  BY <1>2, ThrowGrows DEF SerializeScalar, Failures
<1>3. CASE call.key # NullKey /\ call.value.null
  BY <1>1, <1>3, NullGrows DEF SerializeScalar
<1>4. CASE call.key # NullKey /\ ~call.value.null
  BY <1>1, <1>4, KeyedGrows DEF SerializeScalar
<1> QED
  BY <1>2, <1>3, <1>4

LEMMA EnumGrows == IInv /\ Growing /\ SerializeEnum => Growing'
<1> SUFFICES ASSUME IInv, Growing, SerializeEnum PROVE Growing'
  OBVIOUS
<1> DEFINE v == call.value
<1>1. pc = "call" /\ v.class \in {"Enum", "NotNullEnum"} /\ v \in Values
  BY CallType DEF SerializeEnum, Calling
<1>2. CASE call.key = NullKey
  BY <1>1, <1>2, ThrowGrows DEF SerializeEnum, Failures
<1>3. CASE call.key # NullKey /\ v.null
  BY <1>1, <1>3, ThrowGrows, NullGrows DEF SerializeEnum, Failures
<1>4. CASE call.key # NullKey /\ ~v.null
  <2>1. /\ v.items[1].value \in Values /\ v.items[1].value.class \in ScalarClass
        /\ ~v.items[1].value.null
    BY <1>1, <1>4, HeldType, HeldAssumption DEF Wrapper
  <2> QED
    BY <1>1, <1>4, <2>1, KeyedGrows DEF SerializeEnum
<1> QED
  BY <1>2, <1>3, <1>4

LEMMA AnyGrows == IInv /\ Growing /\ SerializeAny => Growing'
BY SerializeNullGrows, DelegateGrows DEF SerializeAny

LEMMA InterpretedGrows == IInv /\ Growing /\ SerializeInterpreted => Growing'
BY DelegateGrows DEF SerializeInterpreted

LEMMA UnknownGrows == SerializeUnknown => Growing'
BY ThrowGrows DEF SerializeUnknown, Failures

LEMMA RetrieveGrows == RetrieveFails => Growing'
BY ThrowGrows DEF RetrieveFails, Failures

LEMMA IndexKeyGood ==
  ASSUME NEW i \in Nat
  PROVE  GoodKey(IndexKey(i))
<1>1. IndexKey(i) \in Seq(BsonByte) /\ \A k \in DOMAIN IndexKey(i) : IndexKey(i)[k] # 0
  BY IndexKeyIs
<1>2. NullKey \notin Seq(BsonByte)
  <2>1. NullKey[1] = -1 /\ Len(NullKey) = 1
    BY DEF NullKey
  <2>2. -1 \notin BsonByte
    BY DEF BsonByte
  <2> HIDE DEF NullKey
  <2> QED
    BY <2>1, <2>2
<1> QED
  BY <1>1, <1>2 DEF GoodKey

-----------------------------------------------------------------------------
(* A buffer that passed the check, or a compound. *)

LEMMA InlineGrows == IInv /\ Growing /\ Writable /\ SerializeInlineDocs => Growing'
<1> SUFFICES ASSUME IInv, Growing, Writable, SerializeInlineDocs PROVE Growing'
  OBVIOUS
<1>1. CASE SerializeNull(Inline)
  BY <1>1, SerializeNullGrows
<1>2. CASE ~SerializeNull(Inline)
  <2> DEFINE v    == call.value
             code == InlineCode(v.class)
  <2>1. pc = "call" /\ v.class \in Inline /\ ~v.null /\ v \in Values
    BY <1>2, CallType DEF SerializeInlineDocs, Calling
  <2>2. CASE ~InlineIsValid(v.bytes)
    <3>1. Throw("invalid inline object")
      BY <1>2, <2>2 DEF SerializeInlineDocs
    <3> QED
      BY <3>1, ThrowGrows DEF Failures
  <2>3. CASE InlineIsValid(v.bytes)
    <3>1. Write(KeyBytes(code, call.key) \o v.bytes)
      BY <1>2, <2>3 DEF SerializeInlineDocs
    <3>2. code \in BsonByte /\ code \in {DOCUMENT_EMBEDDED, DOCUMENT_ARRAY}
      BY DEF InlineCode, BsonByte, DOCUMENT_EMBEDDED, DOCUMENT_ARRAY
    <3>3. v.bytes \in Seq(BsonByte)
      BY <2>1, ValueType
    <3>4. IsDocument(v.bytes, code, Steps)
      BY <2>1, <2>3 DEF Writable
    <3> HIDE DEF code, v
    <3>5. CASE stack # <<>>
      <4>1. Fits(code, v.bytes)
        BY <3>2, <3>3, <3>4, DocumentFits
      <4> HIDE DEF Fits
      <4> QED
        BY <2>1, <3>1, <3>2, <3>3, <3>5, <4>1, WriteGrows
    <3>6. CASE stack = <<>>
      <4>1. call.key = NullKey
        BY <2>1, <3>6 DEF IInv, RootKey
      <4>2. KeyBytes(code, call.key) \o v.bytes = v.bytes
        <5>1. KeyBytes(code, call.key) = <<>>
          BY <4>1 DEF KeyBytes
        <5> QED
          BY <3>3, <5>1
      <4>3. stream' = stream \o v.bytes /\ stack' = <<>> /\ pc' = "done"
        BY <3>1, <3>6, <4>2 DEF Write, PutOut, PutOn, Return
      <4>4. stream = Prefix
        BY <2>1 DEF IInv, AtomicWrite
      <4>5. IsWritten(v.bytes)
        BY <3>2, <3>4 DEF IsWritten
      <4> QED
        BY <3>3, <4>3, <4>4, <4>5, NoLayers DEF Growing
    <3> QED
      BY <3>5, <3>6
  <2> QED
    BY <2>2, <2>3
<1> QED
  BY <1>1, <1>2

LEMMA OpenGrows == IInv /\ Growing /\ Writable /\ OpenCompound => Growing'
<1> SUFFICES ASSUME IInv, Growing, Writable, OpenCompound PROVE Growing'
  OBVIOUS
<1>1. CASE SerializeNull(Compound)
  BY <1>1, SerializeNullGrows
<1>2. CASE ~SerializeNull(Compound)
  <2> DEFINE v    == call.value
             code == CompoundCode(v.class)
             head == KeyBytes(code, call.key)
             f    == [class |-> v.class, todo |-> v.items, index |-> 0, inner |-> <<>>]
             n    == Len(stack)
             stk  == PutOn(stack, head)
  <2>1. /\ pc = "call" /\ v.class \in Compound /\ v \in Values
        /\ stack' = Append(stk, f) /\ pc' = "iterate"
    BY <1>2, CallType DEF OpenCompound, Calling
  <2>2. code \in BsonByte
    BY DEF CompoundCode, BsonByte, DOCUMENT_EMBEDDED, DOCUMENT_ARRAY
  <2>3. stack \in Seq(Frame) /\ head \in Seq(BsonByte) /\ call.key \in Key
    BY <2>2, CallType, KeyBytesType DEF IInv, TypeOK
  <2>4. /\ f.class = v.class /\ f.todo = v.items /\ f.index = 0 /\ f.inner = <<>>
    OBVIOUS
  <2> HIDE DEF v, head, f
  <2>5. stk \in Seq(Frame) /\ (stk = <<>> <=> stack = <<>>)
    BY <2>3, PutOnType
  <2>6. Layers(stk)
    <3>1. CASE stack = <<>>
      BY <2>5, <3>1, NoLayers
    <3>2. CASE stack # <<>>
      BY <2>3, <3>2, LayersPut DEF Growing
    <3> QED
      BY <3>1, <3>2
  <2>7. KeysGood(f)
    <3>1. f.class # "Collection" => v.class \in {"Map", "Object"}
      BY <2>1, <2>4 DEF Compound
    <3> QED
      BY <2>1, <2>4, <3>1 DEF Writable, KeysGood
  <2>8. ASSUME stack # <<>>
        PROVE  Waits(stk[Len(stk)], code)
    <3> DEFINE g == stack[n]
               h == stk[n]
               i == g.index - 1
    <3>1. /\ n \in Nat \ {0} /\ n \in 1 .. n /\ g \in Frame
          /\ Len(stk) = n /\ \A k \in 1 .. n : k # n => stk[k] = stack[k]
          /\ h.class = g.class /\ h.todo = g.todo
          /\ h.index = g.index /\ h.inner = g.inner \o head
      BY <2>3, <2>8, PutOnIs
    <3>2. Called(g, call.key)
      BY <2>1, <2>8 DEF Growing, Top
    <3> HIDE DEF g, h, n, stk
    <3>3. g.inner \in Seq(BsonByte) /\ g.index \in Nat /\ g.class \in Compound
      BY <3>1 DEF Frame
    <3>4. i \in Nat /\ i + 1 = g.index
      BY <3>2, <3>3 DEF Called
    <3>5. /\ Ready(g.inner, FirstOf(g), IndexIn(g, i))
          /\ GoodKey(call.key) /\ KeyFits(call.key, IndexIn(g, i))
      BY <3>2 DEF Called, Grown
    <3> HIDE DEF i
    <3>6. call.key \in Seq(BsonByte)
      BY <2>3, <3>5 DEF GoodKey, Key
    <3>7. Awaiting(g.inner \o KeyBytes(code, call.key), FirstOf(g), code, NextIndex(IndexIn(g, i)))
      BY <2>2, <3>3, <3>5, <3>6, KeyAwaits
    <3>8. NextIndex(IndexIn(g, i)) = IndexIn(g, g.index)
      BY <3>3, <3>4, IndexInIs
    <3>9. Awaiting(h.inner, FirstOf(g), code, IndexIn(g, g.index))
      BY <3>1, <3>7, <3>8 DEF head
    <3>10. FirstOf(h) = FirstOf(g) /\ IndexIn(h, h.index) = IndexIn(g, g.index)
      BY <3>1 DEF FirstOf, IndexIn
    <3> QED
      BY <3>1, <3>9, <3>10 DEF Waits, h
  <2> HIDE DEF stk
  <2>9. /\ Layers(Append(stk, f))
        /\ Len(Append(stk, f)) = Len(stk) + 1 /\ Append(stk, f)[Len(stk) + 1] = f
    <3>1. stk # <<>> => Waits(stk[Len(stk)], CompoundCode(f.class))
      BY <2>4, <2>5, <2>8
    <3> QED
      BY <2>5, <2>6, <2>7, <3>1, LayersPush
  <2>10. Grown(f, f.index)
    <3>1. FirstOf(f) = IndexIn(f, 0)
      <4>1. 0 \in Nat /\ f.class \in Compound
        BY <2>1, <2>4
      <4> QED
        BY <4>1, IndexInIs
    <3> QED
      BY <2>4, <3>1, EmptyReady DEF Grown
  <2>11. Top' = f
    <3>1. Top' = stack'[Len(stack')]
      BY DEF Top
    <3> QED
      BY <2>1, <2>9, <3>1
  <2> QED
    BY <2>1, <2>9, <2>10, <2>11 DEF Growing
<1> QED
  BY <1>1, <1>2

LEMMA SkipGrows == IInv /\ Growing /\ SkipEntry => Growing'
<1> SUFFICES ASSUME IInv, Growing, SkipEntry PROVE Growing'
  OBVIOUS
<1> DEFINE n   == Len(stack)
           f   == stack[n]
           new == NextTodo(stack, 0)
<1>1. stack' = new /\ pc' = "iterate" /\ pc = "iterate" /\ Iterating
  BY DEF SkipEntry, Iterating
<1>2. stack \in Seq(Frame) /\ stack # <<>> /\ stack[Len(stack)].todo # <<>>
  BY <1>1, HeadType
<1>3. /\ n \in Nat \ {0} /\ n \in 1 .. n /\ f \in Frame
      /\ Len(new) = n /\ \A k \in 1 .. n : k # n => new[k] = stack[k]
      /\ new[n].class = f.class /\ new[n].todo = Tail(f.todo)
      /\ new[n].index = f.index + 0 /\ new[n].inner = f.inner
  BY <1>2, NextTodoIs
<1>4. Layers(new)
  BY <1>2, LayersTodo DEF Growing
<1>5. Grown(f, f.index)
  BY <1>1 DEF Growing, Top
<1> HIDE DEF n, f, new
<1>6. Grown(new[n], new[n].index)
  <2>1. f.index \in Nat
    BY <1>3 DEF Frame
  <2>2. new[n].index = f.index
    BY <1>3, <2>1
  <2> QED
    BY <1>3, <1>5, <2>2 DEF Grown, FirstOf, IndexIn
<1>7. Top' = new[n]
  BY <1>1, <1>3 DEF Top
<1> QED
  BY <1>1, <1>4, <1>6, <1>7 DEF Growing

LEMMA EntryGrows == IInv /\ Growing /\ WriteEntry => Growing'
<1> SUFFICES ASSUME IInv, Growing, WriteEntry PROVE Growing'
  OBVIOUS
<1> DEFINE n   == Len(stack)
           f   == stack[n]
           new == NextTodo(stack, 1)
           e   == Head(f.todo)
           key == IF f.class = "Collection" THEN IndexKey(f.index) ELSE e.key
<1>1. stack' = new /\ pc' = "call" /\ pc = "iterate" /\ Iterating /\ call'.key = key
  BY DEF WriteEntry, Iterating, Top
<1>2. stack \in Seq(Frame) /\ stack # <<>> /\ stack[Len(stack)].todo # <<>>
  BY <1>1, HeadType
<1>3. /\ n \in Nat \ {0} /\ n \in 1 .. n /\ f \in Frame
      /\ Len(new) = n /\ \A k \in 1 .. n : k # n => new[k] = stack[k]
      /\ new[n].class = f.class /\ new[n].todo = Tail(f.todo)
      /\ new[n].index = f.index + 1 /\ new[n].inner = f.inner
  BY <1>2, NextTodoIs
<1>4. Layers(new)
  BY <1>2, LayersTodo DEF Growing
<1>5. Grown(f, f.index)
  BY <1>1 DEF Growing, Top
<1>6. KeysGood(f)
  BY <1>3 DEF Growing, Layers
<1>t. f.todo # <<>>
  BY <1>2
<1> HIDE DEF n, f, new
<1>7. f.index \in Nat /\ f.todo \in Seq(ValueEntry) /\ f.class \in Compound
  BY <1>3 DEF Frame
<1>8. GoodKey(key)
  <2>1. CASE f.class = "Collection"
    BY <1>7, <2>1, IndexKeyGood
  <2>2. CASE f.class # "Collection"
    <3>1. 1 \in DOMAIN f.todo /\ e = f.todo[1]
      BY <1>7, <1>t
    <3> QED
      BY <1>6, <2>2, <3>1 DEF KeysGood
  <2> QED
    BY <2>1, <2>2
<1>9. KeyFits(key, IndexIn(f, f.index))
  BY DEF KeyFits, IndexIn
<1> HIDE DEF key
<1>10. Called(new[n], key)
  <2>1. new[n].index >= 1 /\ new[n].index - 1 = f.index
    BY <1>3, <1>7
  <2> QED
    BY <1>3, <1>5, <1>8, <1>9, <2>1 DEF Called, Grown, FirstOf, IndexIn
<1>11. Top' = new[n]
  BY <1>1, <1>3 DEF Top
<1> QED
  BY <1>1, <1>4, <1>10, <1>11 DEF Growing

LEMMA CloseGrows == IInv /\ Growing /\ CloseCompound => Growing'
<1> SUFFICES ASSUME IInv, Growing, CloseCompound PROVE Growing'
  OBVIOUS
<1> DEFINE n     == Len(stack)
           f     == stack[n]
           doc   == DocumentBytes(f.inner)
           below == Below(stack)
           code  == CompoundCode(f.class)
<1>1. /\ pc = "iterate" /\ stack \in Seq(Frame) /\ stack # <<>>
      /\ stream' = PutOut(below, doc) /\ stack' = PutOn(below, doc)
      /\ pc' = IF below = <<>> THEN "done" ELSE "iterate"
  BY DEF IInv, TypeOK, CloseCompound, Return, Top
<1>2. n \in Nat \ {0} /\ n \in 1 .. n /\ f \in Frame
  <2>1. n \in Nat \ {0} /\ n \in 1 .. n
    BY <1>1, LenProperties
  <2> QED
    BY <1>1, <2>1
<1>3. f.inner \in Seq(BsonByte)
  BY <1>2 DEF Frame
<1>4. doc \in Seq(BsonByte)
  BY <1>3, DocumentBytesType
<1>5. /\ Layers(below) /\ below \in Seq(Frame) /\ Len(below) = n - 1
      /\ below # <<>> => Waits(below[n - 1], code)
  BY <1>1, LayersBelow DEF Growing
<1>6. Ready(f.inner, FirstIndex(code), IndexIn(f, f.index))
  BY <1>1 DEF Growing, Grown, FirstOf, Top
<1>7. code \in {DOCUMENT_EMBEDDED, DOCUMENT_ARRAY}
  BY DEF CompoundCode
<1> HIDE DEF n, f, below, code
<1>8. CASE below = <<>>
  <2>1. IsWritten(doc)
    <3>1. Len(doc) <= MaxInt32 => IsDocument(doc, code, Steps)
      BY <1>3, <1>6, DocumentDone
    <3> HIDE DEF doc
    <3> QED
      BY <1>7, <3>1 DEF IsWritten
  <2> HIDE DEF doc
  <2>2. stream' = Prefix \o doc /\ stack' = <<>> /\ pc' = "done"
    BY <1>1, <1>8 DEF PutOut, PutOn, IInv, AtomicWrite
  <2> QED
    BY <1>4, <2>1, <2>2, NoLayers DEF Growing
<1>9. CASE below # <<>>
  <2>1. Fits(code, doc)
    BY <1>3, <1>6, <1>7, DocumentBytesFit
  <2> HIDE DEF doc, Fits
  <2> DEFINE m   == Len(below)
             g   == below[m]
             new == PutOn(below, doc)
  <2>2. m = n - 1
    BY <1>5
  <2>3. /\ m \in Nat \ {0} /\ m \in 1 .. m /\ g \in Frame
        /\ Len(new) = m /\ \A k \in 1 .. m : k # m => new[k] = below[k]
        /\ new[m].class = g.class /\ new[m].todo = g.todo
        /\ new[m].index = g.index /\ new[m].inner = g.inner \o doc
    <3>1. below \in Seq(Frame) /\ below # <<>> /\ doc \in Seq(BsonByte)
      BY <1>4, <1>5, <1>9
    <3> QED
      BY <3>1, PutOnIs
  <2> HIDE DEF m, g, new
  <2>4. Layers(new)
    BY <1>4, <1>5, <1>9, LayersPut DEF new
  <2>5. Waits(g, code)
    BY <1>5, <1>9, <2>2 DEF code, g
  <2>6. stack' = new /\ pc' = "iterate"
    BY <1>1, <1>9 DEF new
  <2>7. g.inner \in Seq(BsonByte)
    BY <2>3 DEF Frame
  <2>8. Ready(g.inner \o doc, FirstOf(g), IndexIn(g, g.index))
    BY <1>4, <2>1, <2>5, <2>7, PayloadReady DEF Waits
  <2>9. Grown(new[m], new[m].index)
    BY <2>3, <2>8 DEF Grown, FirstOf, IndexIn
  <2>10. Top' = new[m]
    BY <2>3, <2>6 DEF Top
  <2> QED
    BY <2>4, <2>6, <2>9, <2>10 DEF Growing
<1> QED
  BY <1>8, <1>9

-----------------------------------------------------------------------------
WInv == IInv /\ (Writable => Growing)

LEMMA GrowsNext == WInv /\ [Next]_vars => WInv'
<1> SUFFICES ASSUME WInv, [Next]_vars PROVE WInv'
  OBVIOUS
<1>1. IInv'
  BY NextInv DEF WInv
<1>2. Writable' = Writable
  OBVIOUS
<1>3. ASSUME Writable
      PROVE  Growing'
  <2>1. IInv /\ Growing
    BY <1>3 DEF WInv
  <2>2. CASE Step
    BY <1>3, <2>1, <2>2, ScalarGrows, InlineGrows, AnyGrows, EnumGrows, InterpretedGrows,
       UnknownGrows, OpenGrows, SkipGrows, EntryGrows, RetrieveGrows, CloseGrows DEF Step
  <2>3. CASE UNCHANGED vars
    BY <2>1, <2>3 DEF vars, Growing, Top
  <2> QED
    BY <2>2, <2>3 DEF Next, Finished
<1> QED
  BY <1>1, <1>2, <1>3 DEF WInv

(* What serialize appends on a normal return is a BSON document at every   *)
(* level, for values of any depth and with any number of items, if it fits *)
(* an int32 and what is up to the caller is sound.                         *)
THEOREM WellFormedWritten == Spec => []WellFormedOutput
<1>1. Init => WInv
  BY InitInv, GrowingInit DEF WInv
<1>2. WInv => WellFormedOutput
  <2> SUFFICES ASSUME WInv, Writable, pc = "done", Len(Written) <= MaxInt32
               PROVE  \E code \in {DOCUMENT_EMBEDDED, DOCUMENT_ARRAY} :
                        IsDocument(Written, code, Steps)
    BY DEF WellFormedOutput
  <2>1. PICK bytes \in Seq(BsonByte) : stream = Prefix \o bytes /\ IsWritten(bytes)
    BY DEF WInv, Growing
  <2>2. Written = bytes
    <3>1. Prefix \in Seq(BsonByte)
      BY ValuesAssumption
    <3>2. SubSeq(Prefix \o bytes, Len(Prefix) + 1, Len(Prefix \o bytes)) = bytes
      BY <3>1
    <3> QED
      BY <2>1, <3>2 DEF Written
  <2> QED
    BY <2>1, <2>2 DEF IsWritten
<1> QED
  BY <1>1, <1>2, GrowsNext, PTL DEF Spec
=============================================================================
