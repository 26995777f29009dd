------------------------------ MODULE BsonFormat ------------------------------
(***************************************************************************)
(* The bytes of BSON as class bson::Utils writes and reads them, on a      *)
(* little-endian host (INT_BO = FLOAT_BO = LITTLE), and the values that    *)
(* the serializer and the deserializer exchange with their callers.        *)
(*                                                                         *)
(* A byte is a number of 0 .. 255 and a buffer a sequence of bytes.        *)
(***************************************************************************)
EXTENDS Integers, Sequences

BsonByte == 0 .. 255
MaxInt32 == 2147483647

-----------------------------------------------------------------------------
(* enum TypeCode; STRING and BOOLEAN are names of TLA+ itself. *)

DOCUMENT_ROOT      == 0
DOUBLE             == 1
STRING_CODE        == 2
DOCUMENT_EMBEDDED  == 3
DOCUMENT_ARRAY     == 4
BINARY             == 5
UNDEFINED          == 6
OBJECT_ID          == 7
BOOLEAN_CODE       == 8
DATE_TIME          == 9
NULL_VALUE         == 10
REGEXP             == 11
BD_POINTER         == 12
JAVASCRIPT_CODE    == 13
SYMBOL             == 14
JAVASCRIPT_CODE_WS == 15
INT_32             == 16
TIMESTAMP          == 17
INT_64             == 18
DECIMAL_128        == 19
MAX_KEY            == 127
MIN_KEY            == 255

-----------------------------------------------------------------------------
(* The C++ classes with a scalar wire form: the type code written before   *)
(* it (Utils::writePrimitive and the serializer's methods), which is the   *)
(* only one, with NULL_VALUE, read back into the class.                    *)
ScalarCode ==
  [ String   |-> STRING_CODE,
    Int8     |-> INT_32,
    UInt8    |-> INT_32,
    Int16    |-> INT_32,
    UInt16   |-> INT_32,
    Int32    |-> INT_32,
    UInt32   |-> INT_64,
    Int64    |-> INT_64,
    UInt64   |-> TIMESTAMP,
    Float32  |-> DOUBLE,
    Float64  |-> DOUBLE,
    Boolean  |-> BOOLEAN_CODE,
    ObjectId |-> OBJECT_ID,
    DateTime |-> DATE_TIME ]

ScalarClass == DOMAIN ScalarCode

(* Bytes of a fixed-width scalar; a number narrower than its wire form is  *)
(* widened (sign extension, float to double) when it is written, so a      *)
(* number is modelled by its wire form throughout.                         *)
ScalarWidth(code) ==
  CASE code = INT_32       -> 4
    [] code = BOOLEAN_CODE -> 1
    [] code = OBJECT_ID    -> 12
    [] OTHER               -> 8

(* A value is a record, the same shape for every class:                    *)
(*   class  its C++ class, which selects the method that serializes it     *)
(*   null   whether the smart pointer is null                              *)
(*   bytes  a scalar's wire form, a string's characters or the buffer of   *)
(*          an InlineDocument or InlineArray                               *)
(*   items  what it holds: entries of a collection, a map or an object in  *)
(*          iteration order; the one value an Any, an Enum or an           *)
(*          interpreted type stands for                                    *)
(* An entry has a key (unused in collections), a value, and says whether   *)
(* an object's field has a typeSelector whose choice the stored value      *)
(* matches ("match", "mismatch") or none ("none").                         *)
NullKey == <<-1>>

Value(class, bytes, items) ==
  [class |-> class, null |-> FALSE, bytes |-> bytes, items |-> items]

NullOf(class) == [class |-> class, null |-> TRUE, bytes |-> <<>>, items |-> <<>>]

Entry(key, value) == [key |-> key, value |-> value, select |-> "none"]

-----------------------------------------------------------------------------
(* Utils::write... *)

Int32Bytes(n) ==
  << n % 256, (n \div 256) % 256, (n \div 65536) % 256, (n \div 16777216) % 256 >>

(* Utils::writeKey: without a key not even the type code is written. *)
KeyBytes(code, key) ==
  IF key = NullKey THEN <<>> ELSE <<code>> \o key \o <<0>>

(* Faulty: the terminator is not counted. *)
DocumentBytesShort(inner) == Int32Bytes(Len(inner) + 4) \o inner \o <<0>>

(* A document or an array around its elements: inner.position + 5 is the   *)
(* size field, its own four bytes and the terminator included.             *)
DocumentBytes(inner) == Int32Bytes(Len(inner) + 5) \o inner \o <<0>>

(* What follows the key of a scalar. *)
ScalarBytes(v) ==
  IF v.class = "String"
  THEN Int32Bytes(Len(v.bytes) + 1) \o v.bytes \o <<0>>
  ELSE v.bytes

(* utils::conversion::int32ToStr of an index: its decimal digits. *)
PowerOf10 == << 1, 10, 100, 1000, 10000, 100000, 1000000, 10000000, 100000000,
                1000000000 >>

Digits(i) ==
  CHOOSE n \in 1 .. 10 : /\ n > 1  => PowerOf10[n] <= i
                         /\ n < 10 => i < PowerOf10[n + 1]

IndexKey(i) ==
  LET n == Digits(i) IN
  [k \in 1 .. n |-> 48 + ((i \div PowerOf10[n + 1 - k]) % 10)]

-----------------------------------------------------------------------------
(* oatpp::parser::Caret, as src/ uses it: a position in a buffer and a     *)
(* sticky error.  inc does not look at the end of the buffer.              *)

Caret(data) == [data |-> data, pos |-> 0, error |-> FALSE]
Inc(c, n)   == [c EXCEPT !.pos = @ + n]
SetError(c) == [c EXCEPT !.error = TRUE]
DataSize(c) == Len(c.data)
Left(c)     == DataSize(c) - c.pos

CanContinue(c) == c.pos < DataSize(c) /\ ~c.error

(* The byte at the position, and the following n. *)
CurrByte(c)     == c.data[c.pos + 1]
CurrBytes(c, n) == SubSeq(c.data, c.pos + 1, c.pos + n)

AtChar(c, char) == CanContinue(c) /\ CurrByte(c) = char

(* findChar(0): how far it moves, to the next NUL or the buffer's end. *)
NulOffset(c) ==
  LET n == IF Left(c) < 0 THEN 0 ELSE Left(c) IN
  CHOOSE i \in 0 .. n :
    /\ i < n => c.data[c.pos + i + 1] = 0
    /\ \A j \in 1 .. i : c.data[c.pos + j] # 0

(* Utils::readInt32: two's complement, of which only the last byte has a   *)
(* sign; zero and an error if four bytes are not left.                     *)
Int32At(c) ==
  LET b == CurrBytes(c, 4) IN
  b[1] + 256 * b[2] + 65536 * b[3]
    + 16777216 * (IF b[4] < 128 THEN b[4] ELSE b[4] - 256)

ReadInt32(c) ==
  IF Left(c) < 4
  THEN [value |-> 0, caret |-> SetError(c)]
  ELSE [value |-> Int32At(c), caret |-> Inc(c, 4)]

-----------------------------------------------------------------------------
(* Where BSON says that things end, offsets into a sequence of bytes. *)

(* The offset after the NUL at or after offset i; 0 if there is none. *)
AfterNul(bytes, i) ==
  LET hits == { j \in i + 1 .. Len(bytes) : bytes[j] = 0 } IN
  IF hits = {} THEN 0 ELSE CHOOSE j \in hits : \A k \in hits : j <= k

SizeAt(bytes, i) == ReadInt32(Inc(Caret(bytes), i)).value

(* Where the payload with this code ends; 0 if it does not fit. *)
PayloadEnd(bytes, i, code) ==
  LET size == SizeAt(bytes, i)
      sized(more) == IF size + more < 0 THEN 0 ELSE i + 4 + size + more
      end ==
        CASE code \in {NULL_VALUE, UNDEFINED, MIN_KEY, MAX_KEY} -> i
          [] code \in {STRING_CODE, JAVASCRIPT_CODE, SYMBOL}    -> sized(0)
          [] code \in {DOCUMENT_EMBEDDED, DOCUMENT_ARRAY,
                       JAVASCRIPT_CODE_WS}                      -> sized(-4)
          [] code = BINARY                                      -> sized(1)
          [] code = BD_POINTER                                  -> sized(12)
          [] code = DECIMAL_128                                 -> i + 16
          [] code = REGEXP ->
               LET j == AfterNul(bytes, i) IN
               IF j = 0 THEN 0 ELSE AfterNul(bytes, j)
          [] code \in {ScalarCode[c] : c \in ScalarClass \ {"String"}} ->
               i + ScalarWidth(code)
          [] OTHER                                              -> 0
  IN IF end > Len(bytes) THEN 0 ELSE end
=============================================================================
