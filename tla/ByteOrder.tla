------------------------------ MODULE ByteOrder ------------------------------
(***************************************************************************)
(* The numbers of BSON on any host.  class bson::Utils finds out how its   *)
(* host stores numbers (detectIntBO, detectFloatBO) when the library is    *)
(* loaded, and its readers and writers branch on what it has found.        *)
(* Module BsonFormat models the branch of a little-endian host; this one   *)
(* models all of them, on hosts that store integers and doubles with the   *)
(* least significant byte first, last, or with their halves exchanged, and *)
(* whose char has a sign or none.                                          *)
(*                                                                         *)
(* INT_BO and FLOAT_BO are statics with an initialiser that is a call.     *)
(* They are zero, which is UNKNOWN, until it has run, and a static         *)
(* initialiser of another file may write and read numbers before.          *)
(*                                                                         *)
(* A number is the sequence of its bytes, the least significant first:     *)
(* byte i + 1 of value is 0xFF & (value >> 8 * i).                         *)
(***************************************************************************)
EXTENDS BsonFormat

CONSTANTS Hosts, Numbers

(* enum BO_TYPE *)
UNKNOWN == 0
LITTLE  == 1
NETWORK == 2

Order == {"little", "big", "mixed"}

Host == [int : Order, float : Order, signedChar : BOOLEAN]

Kind == {"Int32", "Int64", "UInt64", "Float64"}

Width(kind) == IF kind = "Int32" THEN 4 ELSE 8

ASSUME ByteOrderAssumption ==
  /\ Hosts \subseteq Host
  /\ Numbers \in [Kind -> SUBSET Seq(BsonByte)]
  /\ \A kind \in Kind : \A v \in Numbers[kind] : Len(v) = Width(kind)

VARIABLES
  host,
  INT_BO, FLOAT_BO,
  loaded,   \* whether their initialisers have run
  kind,     \* the kind of the number
  written,  \* the number written, <<>> before that
  wire,     \* its bytes in the stream
  result    \* what was last read from them, <<>> if the read threw

vars == <<host, INT_BO, FLOAT_BO, loaded, kind, written, wire, result>>

-----------------------------------------------------------------------------
(* The bytes of a number in memory; also the number that bytes in memory   *)
(* are, each order being its own inverse. *)
Backwards(v) == [i \in 1 .. Len(v) |-> v[Len(v) + 1 - i]]

Memory(order, v) ==
  LET n == Len(v) IN
  CASE order = "little" -> v
    [] order = "big"    -> Backwards(v)
    [] order = "mixed"  -> [i \in 1 .. n |-> IF 2 * i <= n THEN v[i + n \div 2] ELSE v[i - n \div 2]]

(* check.i64 = 255 *)
DetectIntBO(h) ==
  LET bytes == Memory(h.int, <<255, 0, 0, 0, 0, 0, 0, 0>>) IN
  IF bytes[1] = 255 THEN LITTLE
  ELSE IF bytes[8] = 255 THEN NETWORK ELSE UNKNOWN

(* Faulty: tests the ends as for an integer. *)
DetectFloatBOSwapped(h) ==
  LET bytes == Memory(h.float, <<0, 0, 0, 0, 0, 0, 0, 64>>) IN
  IF bytes[1] > 0 THEN LITTLE
  ELSE IF bytes[8] > 0 THEN NETWORK ELSE UNKNOWN

(* check.f64 = 2.0, whose sign and exponent are 0x40 0x00 *)
DetectFloatBO(h) ==
  LET bytes == Memory(h.float, <<0, 0, 0, 0, 0, 0, 0, 64>>) IN
  IF bytes[1] > 0 THEN NETWORK
  ELSE IF bytes[8] > 0 THEN LITTLE ELSE UNKNOWN

Init ==
  /\ host \in Hosts
  /\ INT_BO = UNKNOWN /\ FLOAT_BO = UNKNOWN /\ loaded = FALSE
  /\ kind \in Kind /\ written = <<>> /\ wire = <<>> /\ result = <<>>

(* The dynamic initialisation of Utils.cpp. *)
Load ==
  /\ ~loaded
  /\ loaded' = TRUE
  /\ INT_BO' = DetectIntBO(host)
  /\ FLOAT_BO' = DetectFloatBO(host)
  /\ UNCHANGED <<host, kind, written, wire, result>>

-----------------------------------------------------------------------------
(* Faulty: in every order but the host's own the bytes are those in memory. *)
IntBytesAsStored(v) == Memory(host.int, v)

(* writeInt32, writeInt64, writeUInt64: the bytes in memory of a host that *)
(* is known to be little-endian, otherwise the value shifted to the right. *)
IntBytes(v) == IF INT_BO = LITTLE THEN Memory(host.int, v) ELSE v

(* writeFloat64, unless it throws. *)
FloatBytes(v) ==
  IF FLOAT_BO = LITTLE THEN Memory(host.float, v) ELSE Backwards(Memory(host.float, v))

FloatThrows == FLOAT_BO = UNKNOWN

(* One number is written, and read any number of times; a write that has   *)
(* thrown may be tried again.                                              *)
WriteInt(v) ==
  /\ kind # "Float64" /\ written = <<>>
  /\ written' = v /\ wire' = IntBytes(v)
  /\ UNCHANGED <<host, INT_BO, FLOAT_BO, loaded, kind, result>>

WriteFloat(v) ==
  /\ kind = "Float64" /\ written = <<>>
  /\ IF FloatThrows THEN UNCHANGED <<written, wire>>
     ELSE written' = v /\ wire' = FloatBytes(v)
  /\ UNCHANGED <<host, INT_BO, FLOAT_BO, loaded, kind, result>>

-----------------------------------------------------------------------------
(* The bytes of an int that is put together with | from bytes of type char *)
(* and their shifts: a negative char sets all bits above it. *)
Ored(b) ==
  [i \in 1 .. Len(b) |-> IF \E j \in 1 .. i - 1 : b[j] >= 128 THEN 255 ELSE b[i]]

(* Faulty: as in readInt32. *)
Int64ReadAsInt32(b) == IF host.signedChar THEN Ored(b) ELSE b

(* Faulty: the bytes keep the sign of char. *)
SignedBytes(b) ==
  [i \in 1 .. Len(b) |-> IF host.signedChar /\ b[i] >= 128 THEN b[i] - 256 ELSE b[i]]

(* readInt64 and readUInt64 put it together from v_char8. *)
Int64Read(b) == b

(* readInt32 does not. *)
Int32Read(b) == IF host.signedChar THEN Ored(b) ELSE b

ReadInt ==
  /\ wire # <<>> /\ kind # "Float64"
  /\ result' = IF INT_BO = LITTLE THEN Memory(host.int, wire)
               ELSE IF kind = "Int32" THEN Int32Read(wire) ELSE Int64Read(wire)
  /\ UNCHANGED <<host, INT_BO, FLOAT_BO, loaded, kind, written, wire>>

(* The branch for NETWORK exchanges eight doubles where it means the eight *)
(* bytes of one, beyond the ends of both: the result may be any number. *)
ReadFloat ==
  /\ wire # <<>> /\ kind = "Float64"
  /\ CASE FLOAT_BO = LITTLE  -> result' = Memory(host.float, wire)
       [] FLOAT_BO = NETWORK -> result' \in Numbers["Float64"]
       [] FLOAT_BO = UNKNOWN -> result' = <<>>
  /\ UNCHANGED <<host, INT_BO, FLOAT_BO, loaded, kind, written, wire>>

-----------------------------------------------------------------------------
Next ==
  \/ Load
  \/ \E v \in Numbers[kind] : WriteInt(v) \/ WriteFloat(v)
  \/ ReadInt \/ ReadFloat

Spec == Init /\ [][Next]_vars

-----------------------------------------------------------------------------
TypeOK ==
  /\ host \in Hosts /\ loaded \in BOOLEAN
  /\ INT_BO \in {UNKNOWN, LITTLE, NETWORK} /\ FLOAT_BO \in {UNKNOWN, LITTLE, NETWORK}
  /\ kind \in Kind
  /\ written \in Seq(BsonByte) /\ wire \in Seq(BsonByte) /\ result \in Seq(BsonByte)

(* What is written is the same on every host, and before the library is    *)
(* loaded as well as after: a number's least significant byte comes first. *)
(* (A double is not written before, nor on a host of unknown order.)       *)
WireOrder == wire = written

(* Where the readers are wrong: an int32 on a host not known to be little- *)
(* endian (which a little-endian one is not before the library is loaded)  *)
(* whose char has a sign, if a byte but the last has its high bit set; and *)
(* any double on a big-endian host.                                        *)
Misread ==
  \/ /\ kind = "Int32" /\ INT_BO # LITTLE /\ host.signedChar
     /\ \E i \in 1 .. 3 : wire[i] >= 128
  \/ kind = "Float64" /\ FLOAT_BO = NETWORK

(* A number that is read from a document is the number written there, by   *)
(* this process or another one, except in the cases of Misread; a double   *)
(* may be refused on a host of unknown order.  On a little-endian host     *)
(* whose library is loaded neither happens.                                *)
ReadsBack ==
  [][ ReadInt \/ ReadFloat =>
        \/ result' = written
        \/ /\ ~(loaded /\ host.int = "little" /\ host.float = "little")
           /\ Misread \/ (result' = <<>> /\ kind = "Float64" /\ FLOAT_BO = UNKNOWN)
    ]_vars
=============================================================================
