----------------------------- MODULE WireMessage -----------------------------
(***************************************************************************)
(* driver::wire::Message and its header: what a Connection transfers.      *)
(***************************************************************************)
EXTENDS BsonFormat

HeaderSize == 16

OP_CODE == 2013

AnyInt32 == -MaxInt32 - 1 .. MaxInt32

MessageHeader ==
  [messageLength : AnyInt32, requestId : AnyInt32, responseTo : AnyInt32, opCode : AnyInt32]

(* A message's data: the size of the buffer and the bytes that were put    *)
(* into it; there are fewer of them after a short read. *)
Buffer(size, bytes) == [size |-> size, bytes |-> bytes]

NullBuffer == Buffer(-1, <<>>)

Message(header, bytes) == [header |-> header, data |-> Buffer(Len(bytes), bytes)]

BufferType == [size : Int, bytes : Seq(BsonByte)]

MessageType == [header : MessageHeader, data : BufferType]

(* The header that Message's constructor makes: the ids are left zero. *)
NewHeader(length) ==
  [messageLength |-> length, requestId |-> 0, responseTo |-> 0, opCode |-> OP_CODE]

HeaderBytes(h) ==
  Int32Bytes(h.messageLength) \o Int32Bytes(h.requestId)
    \o Int32Bytes(h.responseTo) \o Int32Bytes(h.opCode)

HeaderOf(bytes) ==
  LET field(i) == Int32At(Inc(Caret(bytes), 4 * i)) IN
  [ messageLength |-> field(0), requestId |-> field(1),
    responseTo    |-> field(2), opCode    |-> field(3) ]

(* Faulty: the header is written as it is. *)
AnyLength(m) == TRUE

(* What Connection::write asks of a message. *)
LengthIsRight(m) == m.header.messageLength = HeaderSize + m.data.size
=============================================================================
