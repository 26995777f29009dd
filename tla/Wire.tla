-------------------------------- MODULE Wire --------------------------------
(***************************************************************************)
(* driver::wire::Connection: one end writes messages, the other reads      *)
(* them, through a stream of bytes.  Both ends run the code of Connection; *)
(* this is one direction of a connection.                                  *)
(*                                                                         *)
(* The stream under a Connection is external.  readExactSizeDataSimple and *)
(* writeExactSizeDataSimple transfer all that was asked for, or fall       *)
(* short: some bytes have been transferred, and the result is their number *)
(* or a negative error.  A Connection stays usable afterwards.             *)
(*                                                                         *)
(* writer and reader say where Connection::write and read stand: "idle",   *)
(* or before the transfer of the "header" or of the "data".                *)
(***************************************************************************)
EXTENDS WireMessage

CONSTANTS
  Messages,   \* what write may be called with
  Headers,    \* what an uninitialised header may hold
  MaxWrites,  \* bound on calls of write
  MaxFaults   \* bound on transfers that fall short

NoMessage == [data |-> NullBuffer]

ASSUME WireAssumption ==
  /\ Headers \subseteq MessageHeader /\ Headers # {}
  /\ Messages \subseteq MessageType
  /\ \A m \in Messages : m.data.size = Len(m.data.bytes)
  /\ MaxWrites \in Nat /\ MaxFaults \in Nat

(* Results that are no number of bytes. *)
Error == -1
None  == -2
Threw == -3

VARIABLES
  stream,    \* bytes written and not yet read
  writer, writing, writeResult,
  reader, message, readResult,
  writes, faults,
  told,      \* whether a transfer has broken off and its caller been told
  sent,      \* messages write has accepted, until then
  delivered  \* messages read has returned, until then

vars == << stream, writer, writing, writeResult, reader, message, readResult,
           writes, faults, told, sent, delivered >>

writerVars == <<writer, writing, writeResult, writes, sent>>
readerVars == <<reader, message, readResult, delivered>>

(* Message() leaves the header uninitialised. *)
Init ==
  /\ stream = <<>>
  /\ writer = "idle" /\ writing = NoMessage /\ writeResult = None
  /\ reader = "idle" /\ readResult = None
  /\ \E h \in Headers : message = [header |-> h, data |-> NullBuffer]
  /\ writes = 0 /\ faults = 0 /\ told = FALSE
  /\ sent = <<>> /\ delivered = <<>>

-----------------------------------------------------------------------------
(* A transfer of n bytes falls short after k of them. *)

Short(k, n) == k < n /\ faults < MaxFaults /\ faults' = faults + 1

-----------------------------------------------------------------------------
(* Connection::write. *)

Write(m) ==
  /\ writer = "idle" /\ writes < MaxWrites
  /\ writes' = writes + 1
  /\ IF LengthIsRight(m)
     THEN /\ writer' = "header" /\ writing' = m /\ writeResult' = None
          /\ sent' = IF told THEN sent ELSE Append(sent, m)
     ELSE writeResult' = Threw /\ UNCHANGED <<writer, writing, sent>>
  /\ UNCHANGED <<stream, readerVars, faults, told>>

WriteHeader ==
  LET bytes == HeaderBytes(writing.header) IN
  /\ writer = "header"
  /\ \/ /\ stream' = stream \o bytes
        /\ writer' = "data"
        /\ UNCHANGED <<writing, writeResult, faults, told>>
     \/ \E k \in 0 .. HeaderSize - 1 :
          /\ Short(k, HeaderSize) /\ told' = TRUE
          /\ stream' = stream \o SubSeq(bytes, 1, k)
          /\ writer' = "idle" /\ writing' = NoMessage
          /\ writeResult' \in {k, Error}
  /\ UNCHANGED <<writes, sent, readerVars>>

WriteData ==
  LET bytes == writing.data.bytes IN
  /\ writer = "data"
  /\ writer' = "idle" /\ writing' = NoMessage
  /\ \/ /\ stream' = stream \o bytes
        /\ writeResult' = HeaderSize + Len(bytes)
        /\ UNCHANGED <<faults, told>>
     \/ \E k \in 0 .. Len(bytes) :
          /\ Short(k, Len(bytes)) /\ told' = TRUE
          /\ stream' = stream \o SubSeq(bytes, 1, k)
          /\ writeResult' \in {HeaderSize + k, Error}
  /\ UNCHANGED <<writes, sent, readerVars>>

-----------------------------------------------------------------------------
(* Connection::read. *)

Rest(n) == SubSeq(stream, n + 1, Len(stream))

(* The buffer of the data is made after the header has been replaced; a    *)
(* negative size is an exception. *)
ReadHeader ==
  LET h == HeaderOf(stream) IN
  /\ reader = "idle" /\ Len(stream) >= HeaderSize
  /\ stream' = Rest(HeaderSize)
  /\ message' = [message EXCEPT !.header = h]
  /\ IF h.messageLength >= HeaderSize
     THEN reader' = "data" /\ readResult' = None
     ELSE reader' = "idle" /\ readResult' = Threw
  /\ UNCHANGED <<writerVars, delivered, faults, told>>

(* A read that falls short before its first byte, as a timeout does, has   *)
(* changed nothing: it may be repeated.                                    *)
ReadHeaderShort ==
  /\ reader = "idle"
  /\ \E k \in 0 .. Len(stream) :
       /\ Short(k, HeaderSize) /\ told' = (told \/ k > 0)
       /\ stream' = Rest(k)
       /\ readResult' \in {k, Error}
  /\ UNCHANGED <<writerVars, reader, message, delivered>>

(* Faulty: messageLength is taken for the length of the data. *)
DataSizeOfAll == message.header.messageLength

DataSizeRead == message.header.messageLength - HeaderSize

ReadData ==
  LET n == DataSizeRead IN
  /\ reader = "data" /\ Len(stream) >= n
  /\ stream' = Rest(n)
  /\ message' = [message EXCEPT !.data = Buffer(n, SubSeq(stream, 1, n))]
  /\ reader' = "idle" /\ readResult' = HeaderSize + n
  /\ delivered' = IF told THEN delivered ELSE Append(delivered, message')
  /\ UNCHANGED <<writerVars, faults, told>>

(* Faulty: the size of the buffer is reported instead of what was read. *)
ReportedSize(k) == HeaderSize + DataSizeRead

Reported(k) == HeaderSize + k

(* Too few bytes are returned in a buffer of the announced size; an error  *)
(* leaves the former data with the new header. *)
ReadDataShort ==
  LET n == DataSizeRead IN
  /\ reader = "data"
  /\ \E k \in 0 .. Len(stream) :
       /\ Short(k, n) /\ told' = TRUE
       /\ stream' = Rest(k)
       /\ \/ /\ message' = [message EXCEPT !.data = Buffer(n, SubSeq(stream, 1, k))]
             /\ readResult' = Reported(k)
          \/ readResult' = Error /\ UNCHANGED message
  /\ reader' = "idle"
  /\ UNCHANGED <<writerVars, delivered>>

-----------------------------------------------------------------------------
Next ==
  \/ \E m \in Messages : Write(m)
  \/ WriteHeader \/ WriteData
  \/ ReadHeader \/ ReadHeaderShort \/ ReadData \/ ReadDataShort

Spec == Init /\ [][Next]_vars

(* A call that has begun goes on; the reading end keeps calling read. *)
FairSpec ==
  /\ Spec
  /\ WF_vars(WriteHeader \/ WriteData)
  /\ WF_vars(ReadHeader \/ ReadData)

-----------------------------------------------------------------------------
Result == Nat \cup {Error, None, Threw}

(* An end in the middle of a transfer knows what it transfers.             *)
TypeOK ==
  /\ stream \in Seq(BsonByte)
  /\ writer \in {"idle", "header", "data"}
  /\ writeResult \in Result
  /\ IF writer = "idle" THEN writing = NoMessage
     ELSE /\ writing \in Messages
          /\ writing.header.messageLength = HeaderSize + writing.data.size
  /\ reader \in {"idle", "data"}
  /\ message \in MessageType
  /\ readResult \in Result
  /\ reader = "data" => message.header.messageLength >= HeaderSize
  /\ writes \in 0 .. MaxWrites /\ faults \in 0 .. MaxFaults /\ told \in BOOLEAN
  /\ sent \in Seq(Messages) /\ delivered \in Seq(Messages)

(* A result of read that is as much as the header in the message says, and *)
(* no less than a header, means that the data is whole: it belongs to this *)
(* header and every byte of it was read.  Without that the caller may take *)
(* a header that was never read, the data of a former message or an        *)
(* unread buffer for a message.                                            *)
WholeOrTold ==
  readResult >= HeaderSize /\ readResult = message.header.messageLength =>
    /\ message.data.size = readResult - HeaderSize
    /\ Len(message.data.bytes) = message.data.size

Channel == INSTANCE MessageChannel WITH failed <- told

(* As long as no transfer has broken off, the messages read returns are    *)
(* those write has accepted: once, in order and unchanged, and each of     *)
(* them arrives in the end; read never throws, and never waits for bytes   *)
(* that do not come.  A read that timed out before its first byte does no  *)
(* harm.  Afterwards the caller of the write or the read that broke off    *)
(* has a result that says so, and the other one has no promise.            *)
ImplementsChannel == Channel!FairSpec
=============================================================================
