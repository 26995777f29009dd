--------------------------- MODULE ByteOrderProofs ---------------------------
(***************************************************************************)
(* Proofs about ByteOrder, for every set of hosts and all numbers.         *)
(***************************************************************************)
EXTENDS ByteOrder, SequenceTheorems, TLAPS

-----------------------------------------------------------------------------
(* Numbers in memory. *)

NumberOf(n) == { v \in Seq(BsonByte) : Len(v) = n }

LEMMA IsNumber ==
  ASSUME NEW n \in Nat, NEW v \in [1 .. n -> BsonByte]
  PROVE  v \in NumberOf(n)
<1>1. v \in Seq(BsonByte) /\ Len(v) = n
  BY SeqDef, LenProperties
<1> QED
  BY <1>1 DEF NumberOf

LEMMA ByteOf ==
  ASSUME NEW n \in Nat, NEW v \in NumberOf(n), NEW i \in 1 .. n
  PROVE  v[i] \in BsonByte
BY ElementOfSeq DEF NumberOf

LEMMA SameNumber ==
  ASSUME NEW n \in Nat, NEW v \in NumberOf(n), NEW w \in NumberOf(n),
         \A i \in 1 .. n : v[i] = w[i]
  PROVE  v = w
BY SeqEqual DEF NumberOf

LEMMA BackwardsTwice ==
  ASSUME NEW n \in Nat, NEW v \in NumberOf(n)
  PROVE  /\ Backwards(v) \in NumberOf(n)
         /\ \A i \in 1 .. n : Backwards(v)[i] = v[n + 1 - i]
         /\ Backwards(Backwards(v)) = v
<1>1. ASSUME NEW w \in NumberOf(n)
      PROVE  /\ Backwards(w) \in NumberOf(n)
             /\ \A i \in 1 .. n : Backwards(w)[i] = w[n + 1 - i]
  <2>1. Backwards(w) = [i \in 1 .. n |-> w[n + 1 - i]]
    BY DEF Backwards, NumberOf
  <2>2. \A i \in 1 .. n : n + 1 - i \in 1 .. n
    OBVIOUS
  <2>3. \A i \in 1 .. n : w[n + 1 - i] \in BsonByte
    BY <2>2, ByteOf
  <2> QED
    BY <2>1, <2>3, IsNumber
<1>2. \A i \in 1 .. n : Backwards(Backwards(v))[i] = v[i]
  <2> TAKE i \in 1 .. n
  <2>1. n + 1 - i \in 1 .. n /\ n + 1 - (n + 1 - i) = i
    OBVIOUS
  <2> QED
    BY <1>1, <2>1
<1> QED
  BY <1>1, <1>2, SameNumber

(* The halves of a number of 2 * m bytes exchanged. *)
Exchanged(m, v) == [i \in 1 .. 2 * m |-> IF i <= m THEN v[i + m] ELSE v[i - m]]

LEMMA MemoryMixed ==
  ASSUME NEW m \in Nat, NEW v \in NumberOf(2 * m)
  PROVE  Memory("mixed", v) = Exchanged(m, v)
<1>1. Len(v) = 2 * m /\ (2 * m) \div 2 = m
  BY DEF NumberOf
<1>2. \A i \in 1 .. 2 * m : 2 * i <= 2 * m <=> i <= m
  OBVIOUS
<1> QED
  BY <1>1, <1>2 DEF Memory, Exchanged

-----------------------------------------------------------------------------
(* What the library finds out about its host. *)

LEMMA IntOrderFound ==
  ASSUME NEW h \in Host
  PROVE  /\ DetectIntBO(h) \in {UNKNOWN, LITTLE, NETWORK}
         /\ DetectIntBO(h) = LITTLE <=> h.int = "little"
<1> DEFINE v == <<255, 0, 0, 0, 0, 0, 0, 0>>
           bytes == Memory(h.int, v)
<1>1. Len(v) = 8 /\ v \in NumberOf(8) /\ h.int \in Order
  BY DEF NumberOf, BsonByte, Host
<1>2. CASE h.int = "little"
  <2>1. bytes = v
    BY <1>2 DEF Memory
  <2> QED
    BY <1>2, <2>1 DEF DetectIntBO
<1>3. CASE h.int = "big"
  <2>1. bytes = Backwards(v)
    BY <1>3 DEF Memory
  <2>2. bytes[1] = 0
    BY <1>1, <2>1, BackwardsTwice
  <2> QED
    BY <1>3, <2>2 DEF DetectIntBO, LITTLE, NETWORK, UNKNOWN
<1>4. CASE h.int = "mixed"
  <2>1. bytes = Exchanged(4, v)
    <3>1. v \in NumberOf(2 * 4)
      BY <1>1
    <3> QED
      BY <1>4, <3>1, MemoryMixed
  <2>2. bytes[1] = 0
    BY <2>1 DEF Exchanged
  <2> QED
    BY <1>4, <2>2 DEF DetectIntBO, LITTLE, NETWORK, UNKNOWN
<1> QED
  BY <1>1, <1>2, <1>3, <1>4 DEF Order

LEMMA FloatOrderFound ==
  ASSUME NEW h \in Host
  PROVE  /\ DetectFloatBO(h) \in {UNKNOWN, LITTLE, NETWORK}
         /\ DetectFloatBO(h) = LITTLE <=> h.float = "little"
         /\ DetectFloatBO(h) = NETWORK <=> h.float = "big"
<1> DEFINE v == <<0, 0, 0, 0, 0, 0, 0, 64>>
           bytes == Memory(h.float, v)
<1>1. Len(v) = 8 /\ v \in NumberOf(8) /\ h.float \in Order
  BY DEF NumberOf, BsonByte, Host
<1>2. CASE h.float = "little"
  <2>1. bytes = v
    BY <1>2 DEF Memory
  <2> QED
    BY <1>2, <2>1 DEF DetectFloatBO, LITTLE, NETWORK, UNKNOWN
<1>3. CASE h.float = "big"
  <2>1. bytes = Backwards(v)
    BY <1>3 DEF Memory
  <2>2. bytes[1] = 64
    BY <1>1, <2>1, BackwardsTwice
  <2> QED
    BY <1>3, <2>2 DEF DetectFloatBO, LITTLE, NETWORK, UNKNOWN
<1>4. CASE h.float = "mixed"
  <2>1. bytes = Exchanged(4, v)
    <3>1. v \in NumberOf(2 * 4)
      BY <1>1
    <3> QED
      BY <1>4, <3>1, MemoryMixed
  <2>2. bytes[1] = 0 /\ bytes[8] = 0
    BY <2>1 DEF Exchanged
  <2> QED
    BY <1>4, <2>2 DEF DetectFloatBO, LITTLE, NETWORK, UNKNOWN
<1> QED
  BY <1>1, <1>2, <1>3, <1>4 DEF Order

-----------------------------------------------------------------------------
(* The invariant. *)

Found ==
  /\ host \in Hosts /\ loaded \in BOOLEAN
  /\ IF loaded THEN INT_BO = DetectIntBO(host) /\ FLOAT_BO = DetectFloatBO(host)
     ELSE INT_BO = UNKNOWN /\ FLOAT_BO = UNKNOWN

InDocument ==
  /\ kind \in Kind
  /\ written = <<>> \/ written \in Numbers[kind]
  /\ wire = written

IInv == Found /\ InDocument /\ result \in Seq(BsonByte)

LEMMA FoundOrders ==
  ASSUME Found
  PROVE  /\ host \in Host
         /\ INT_BO \in {UNKNOWN, LITTLE, NETWORK} /\ FLOAT_BO \in {UNKNOWN, LITTLE, NETWORK}
         /\ INT_BO = LITTLE => host.int = "little"
         /\ FLOAT_BO = LITTLE => host.float = "little"
         /\ FLOAT_BO = NETWORK => host.float = "big"
         /\ loaded /\ host.int = "little" => INT_BO = LITTLE
         /\ loaded /\ host.float = "little" => FLOAT_BO = LITTLE
<1>1. host \in Host
  BY ByteOrderAssumption DEF Found
<1>2. UNKNOWN # LITTLE /\ UNKNOWN # NETWORK
  BY DEF UNKNOWN, LITTLE, NETWORK
<1> QED
  BY <1>1, <1>2, IntOrderFound, FloatOrderFound DEF Found

LEMMA NumberType ==
  ASSUME NEW k \in Kind, NEW v \in Numbers[k]
  PROVE  v \in NumberOf(Width(k)) /\ Width(k) \in {4, 8} /\ v # <<>> /\ v \in Seq(BsonByte)
<1>1. v \in Seq(BsonByte) /\ Len(v) = Width(k)
  BY ByteOrderAssumption
<1>2. Width(k) \in {4, 8}
  BY DEF Width
<1>3. Len(<<>>) = 0
  OBVIOUS
<1> QED
  BY <1>1, <1>2, <1>3 DEF NumberOf

LEMMA IntBytesRight ==
  ASSUME Found, NEW v
  PROVE  IntBytes(v) = v
BY FoundOrders DEF IntBytes, Memory

LEMMA FloatBytesRight ==
  ASSUME Found, ~FloatThrows, NEW v \in Numbers["Float64"]
  PROVE  FloatBytes(v) = v
<1>1. v \in NumberOf(8)
  BY NumberType DEF Kind, Width
<1>2. CASE FLOAT_BO = LITTLE
  BY <1>2, FoundOrders DEF FloatBytes, Memory
<1>3. CASE FLOAT_BO = NETWORK
  <2>1. Memory(host.float, v) = Backwards(v)
    BY <1>3, FoundOrders DEF Memory
  <2>2. FLOAT_BO # LITTLE
    BY <1>3 DEF LITTLE, NETWORK
  <2> QED
    BY <1>1, <2>1, <2>2, BackwardsTwice DEF FloatBytes
<1> QED
  BY <1>2, <1>3, FoundOrders DEF FloatThrows

(* What the bytes put together with | are. *)
LEMMA OredBytes ==
  ASSUME NEW n \in Nat, NEW b \in NumberOf(n)
  PROVE  /\ Ored(b) \in Seq(BsonByte)
         /\ (\A j \in 1 .. n - 1 : ~(b[j] >= 128)) => Ored(b) = b
<1>1. Ored(b) = [i \in 1 .. n |-> IF \E j \in 1 .. i - 1 : b[j] >= 128 THEN 255 ELSE b[i]]
  BY DEF Ored, NumberOf
<1>2. \A i \in 1 .. n : b[i] \in BsonByte
  BY ByteOf
<1>3. Ored(b) \in NumberOf(n)
  <2>1. 255 \in BsonByte
    BY DEF BsonByte
  <2>2. Ored(b) \in [1 .. n -> BsonByte]
    BY <1>1, <1>2, <2>1
  <2> QED
    BY <2>2, IsNumber
<1>4. ASSUME \A j \in 1 .. n - 1 : ~(b[j] >= 128)
      PROVE  \A i \in 1 .. n : Ored(b)[i] = b[i]
  <2> TAKE i \in 1 .. n
  <2>1. \A j \in 1 .. i - 1 : j \in 1 .. n - 1
    OBVIOUS
  <2>2. ~ \E j \in 1 .. i - 1 : b[j] >= 128
    BY <1>4, <2>1
  <2> QED
    BY <1>1, <2>2
<1> QED
  BY <1>3, <1>4, SameNumber DEF NumberOf

(* A number of the document that is being read. *)
LEMMA WireType ==
  ASSUME InDocument, wire # <<>>
  PROVE  /\ wire \in NumberOf(Width(kind)) /\ Width(kind) \in {4, 8}
         /\ wire \in Seq(BsonByte) /\ wire = written
BY NumberType DEF InDocument

LEMMA InitInv == Init => IInv
<1>1. <<>> \in Seq(BsonByte)
  OBVIOUS
<1> QED
  BY <1>1 DEF Init, IInv, Found, InDocument

LEMMA NextInv == IInv /\ [Next]_vars => IInv'
<1> SUFFICES ASSUME IInv, [Next]_vars
             PROVE  IInv'
  OBVIOUS
<1> USE DEF IInv
<1>1. CASE Load
  BY <1>1 DEF Load, Found, InDocument
<1>2. ASSUME NEW v \in Numbers[kind], WriteInt(v)
      PROVE  IInv'
  <2>1. IntBytes(v) = v
    BY IntBytesRight
  <2> QED
    BY <1>2, <2>1 DEF WriteInt, Found, InDocument
<1>3. ASSUME NEW v \in Numbers[kind], WriteFloat(v)
      PROVE  IInv'
  <2>1. CASE FloatThrows
    BY <1>3, <2>1 DEF WriteFloat, Found, InDocument
  <2>2. CASE ~FloatThrows
    <3>1. FloatBytes(v) = v
      BY <1>3, <2>2, FloatBytesRight DEF WriteFloat
    <3> QED
      BY <1>3, <2>2, <3>1 DEF WriteFloat, Found, InDocument
  <2> QED
    BY <2>1, <2>2
<1>4. CASE ReadInt
  <2>1. /\ wire \in NumberOf(Width(kind)) /\ Width(kind) \in Nat
        /\ wire \in Seq(BsonByte)
    BY <1>4, WireType DEF ReadInt
  <2>2. INT_BO = LITTLE => Memory(host.int, wire) = wire
    BY FoundOrders DEF Memory
  <2>3. Int32Read(wire) \in Seq(BsonByte) /\ Int64Read(wire) \in Seq(BsonByte)
    BY <2>1, OredBytes DEF Int32Read, Int64Read
  <2>4. result' \in Seq(BsonByte)
    BY <1>4, <2>1, <2>2, <2>3 DEF ReadInt
  <2> QED
    BY <1>4, <2>4 DEF ReadInt, Found, InDocument
<1>5. CASE ReadFloat
  <2>1. wire \in Seq(BsonByte)
    BY <1>5, WireType DEF ReadFloat
  <2>2. \A v \in Numbers["Float64"] : v \in Seq(BsonByte)
    BY NumberType DEF Kind
  <2>3. result' \in Seq(BsonByte)
    <3>1. CASE FLOAT_BO = LITTLE
      BY <1>5, <2>1, <3>1, FoundOrders DEF ReadFloat, Memory, LITTLE, NETWORK, UNKNOWN
    <3>2. CASE FLOAT_BO = NETWORK
      BY <1>5, <2>2, <3>2 DEF ReadFloat, LITTLE, NETWORK, UNKNOWN
    <3>3. CASE FLOAT_BO = UNKNOWN
      <4>1. result' = <<>>
        BY <1>5, <3>3 DEF ReadFloat, LITTLE, NETWORK, UNKNOWN
      <4> QED
        BY <4>1
    <3> QED
      BY <3>1, <3>2, <3>3, FoundOrders
  <2> QED
    BY <1>5, <2>3 DEF ReadFloat, Found, InDocument
<1>6. CASE UNCHANGED vars
  BY <1>6 DEF vars, Found, InDocument
<1> QED
  BY <1>1, <1>2, <1>3, <1>4, <1>5, <1>6 DEF Next

LEMMA Invariance == Spec => []IInv
BY InitInv, NextInv, PTL DEF Spec

-----------------------------------------------------------------------------
(* Every variable keeps its type, on any host and for all numbers.         *)
THEOREM TypeCorrect == Spec => []TypeOK
<1>1. IInv => TypeOK
  <2> SUFFICES ASSUME IInv
               PROVE  TypeOK
    OBVIOUS
  <2>1. written \in Seq(BsonByte)
    <3>1. <<>> \in Seq(BsonByte)
      OBVIOUS
    <3>2. \A v \in Numbers[kind] : v \in Seq(BsonByte)
      BY NumberType DEF IInv, InDocument
    <3> QED
      BY <3>1, <3>2 DEF IInv, InDocument
  <2> QED
    BY <2>1, FoundOrders DEF IInv, Found, InDocument, TypeOK
<1> QED
  BY <1>1, Invariance, PTL

(* A number in a document is the same on every host, before and after the  *)
(* library is loaded: its least significant byte comes first.              *)
THEOREM SameOnEveryHost == Spec => []WireOrder
<1>1. IInv => WireOrder
  BY DEF IInv, InDocument, WireOrder
<1> QED
  BY <1>1, Invariance, PTL

(* A number that is read is the number written, except in the cases that   *)
(* ReadsBack names, none of which is on a little-endian host whose library *)
(* is loaded.                                                              *)
THEOREM NumbersReadBack == Spec => ReadsBack
<1> DEFINE Kept == result' = written
           Exception ==
             /\ ~(loaded /\ host.int = "little" /\ host.float = "little")
             /\ Misread \/ (result' = <<>> /\ kind = "Float64" /\ FLOAT_BO = UNKNOWN)
<1>1. ASSUME IInv, ReadInt
      PROVE  Kept \/ Exception
  <2>1. /\ wire \in NumberOf(Width(kind)) /\ Width(kind) \in {4, 8} /\ wire = written
    BY <1>1, WireType DEF IInv, ReadInt
  <2>2. CASE INT_BO = LITTLE
    BY <1>1, <2>1, <2>2, FoundOrders DEF IInv, ReadInt, Memory
  <2>3. CASE INT_BO # LITTLE /\ (kind # "Int32" \/ ~host.signedChar)
    BY <1>1, <2>1, <2>3 DEF ReadInt, Int32Read, Int64Read
  <2>4. CASE INT_BO # LITTLE /\ kind = "Int32" /\ host.signedChar
    <3>1. CASE \E i \in 1 .. 3 : wire[i] >= 128
      BY <1>1, <2>4, <3>1, FoundOrders DEF IInv, Misread
    <3>2. CASE ~ \E i \in 1 .. 3 : wire[i] >= 128
      <4>1. wire \in NumberOf(4)
        BY <2>1, <2>4 DEF Width
      <4>2. Ored(wire) = wire
        BY <3>2, <4>1, OredBytes
      <4> QED
        BY <1>1, <2>1, <2>4, <4>2 DEF ReadInt, Int32Read
    <3> QED
      BY <3>1, <3>2
  <2> QED
    BY <2>2, <2>3, <2>4
<1>2. ASSUME IInv, ReadFloat
      PROVE  Kept \/ Exception
  <2>1. wire = written /\ kind = "Float64"
    BY <1>2, WireType DEF IInv, ReadFloat
  <2>2. CASE FLOAT_BO = LITTLE
    BY <1>2, <2>1, <2>2, FoundOrders DEF IInv, ReadFloat, Memory, LITTLE, NETWORK, UNKNOWN
  <2>3. CASE FLOAT_BO = NETWORK
    BY <1>2, <2>1, <2>3, FoundOrders DEF IInv, Misread, LITTLE, NETWORK, UNKNOWN
  <2>4. CASE FLOAT_BO = UNKNOWN
    BY <1>2, <2>1, <2>4, FoundOrders DEF IInv, ReadFloat, LITTLE, NETWORK, UNKNOWN
  <2> QED
    BY <1>2, <2>2, <2>3, <2>4, FoundOrders DEF IInv
<1>3. IInv => (ReadInt \/ ReadFloat => Kept \/ Exception)
  BY <1>1, <1>2
<1> QED
  BY <1>3, Invariance, PTL DEF ReadsBack
=============================================================================
