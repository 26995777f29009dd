---------------------------- MODULE DriverProofs ----------------------------
(***************************************************************************)
(* Proofs about Driver.                                                    *)
(***************************************************************************)
EXTENDS Driver, DataLemmas

P == INSTANCE OpMsgProofs WITH Data <- Seq(BsonByte), Messages <- {}

-----------------------------------------------------------------------------
(* The peer's parser is the one that the proofs about OpMsg are about.     *)

LEMMA CaretsSame ==
  /\ \A c, n : Parser!Inc(c, n) = P!Inc(c, n)
  /\ \A c : Parser!SetError(c) = P!SetError(c)
  /\ \A c : Parser!Left(c) = P!Left(c)
  /\ \A c : Parser!CanContinue(c) = P!CanContinue(c)
  /\ \A c : Parser!CurrByte(c) = P!CurrByte(c)
  /\ \A c, n : Parser!CurrBytes(c, n) = P!CurrBytes(c, n)
BY DEF Parser!Inc, P!Inc, Parser!SetError, P!SetError, Parser!Left, P!Left,
   Parser!DataSize, P!DataSize, Parser!CanContinue, P!CanContinue,
   Parser!CurrByte, P!CurrByte, Parser!CurrBytes, P!CurrBytes

LEMMA CodesSame ==
  /\ Parser!TYPE_BODY = P!TYPE_BODY
  /\ Parser!TYPE_DOCUMENT_SEQUENCE = P!TYPE_DOCUMENT_SEQUENCE
  /\ Parser!FLAG_CHECKSUM_PRESENT = P!FLAG_CHECKSUM_PRESENT
  /\ Parser!FLAG_MORE_TO_COME = P!FLAG_MORE_TO_COME
  /\ Parser!FLAG_EXHAUST_ALLOWED = P!FLAG_EXHAUST_ALLOWED
  /\ Parser!Null = P!Null
BY DEF Parser!TYPE_BODY, P!TYPE_BODY, Parser!TYPE_DOCUMENT_SEQUENCE, P!TYPE_DOCUMENT_SEQUENCE,
   Parser!FLAG_CHECKSUM_PRESENT, P!FLAG_CHECKSUM_PRESENT,
   Parser!FLAG_MORE_TO_COME, P!FLAG_MORE_TO_COME,
   Parser!FLAG_EXHAUST_ALLOWED, P!FLAG_EXHAUST_ALLOWED, Parser!Null, P!Null

LEMMA SectionsSame ==
  /\ \A doc : Parser!Body(doc) = P!Body(doc)
  /\ \A id, docs : Parser!Sequence(id, docs) = P!Sequence(id, docs)
  /\ Parser!NoSection = P!NoSection
  /\ \A id : Parser!Progress(id) = P!Progress(id)
  /\ \A bits, flag : Parser!IsSet(bits, flag) = P!IsSet(bits, flag)
<1>1. \A id, docs : Parser!Sequence(id, docs) = P!Sequence(id, docs)
  BY CodesSame DEF Parser!Sequence, P!Sequence
<1>2. Parser!NoSection = P!NoSection
  BY <1>1, CodesSame DEF Parser!NoSection, P!NoSection
<1> QED
  BY <1>1, <1>2, CodesSame
     DEF Parser!Body, P!Body, Parser!Progress, P!Progress, Parser!IsSet, P!IsSet

LEMMA ReadSame ==
  /\ \A c : Parser!ReadInt32(c) = P!ReadInt32(c)
  /\ \A c : Parser!NulOffset(c) = P!NulOffset(c)
<1>1. \A c : Parser!Int32At(c) = P!Int32At(c)
  BY CaretsSame DEF Parser!Int32At, P!Int32At
<1>2. \A c : Parser!NulOffset(c) = P!NulOffset(c)
  BY CaretsSame DEF Parser!NulOffset, P!NulOffset
<1> QED
  BY <1>1, <1>2, CaretsSame DEF Parser!ReadInt32, P!ReadInt32

LEMMA FieldsSame ==
  /\ \A r : Parser!Fits(r) = P!Fits(r)
  /\ \A r : Parser!Behind(r) = P!Behind(r)
  /\ \A s, c : Parser!Push(s, c) = P!Push(s, c)
  /\ \A type : Parser!AtSection(type) = P!AtSection(type)
  /\ Parser!HasDocument = P!HasDocument
<1>1. \A r : Parser!Fits(r) = P!Fits(r)
  BY CaretsSame DEF Parser!Fits, P!Fits
<1>2. \A r : Parser!Behind(r) = P!Behind(r)
  BY CaretsSame DEF Parser!Behind, P!Behind
<1>3. \A s, c : Parser!Push(s, c) = P!Push(s, c)
  BY DEF Parser!Push, P!Push
<1>4. \A c, char : Parser!AtChar(c, char) = P!AtChar(c, char)
  BY CaretsSame DEF Parser!AtChar, P!AtChar
<1>5. \A type : Parser!AtSection(type) = P!AtSection(type)
  BY <1>4 DEF Parser!AtSection, P!AtSection
<1>6. Parser!HasDocument = P!HasDocument
  BY CaretsSame DEF Parser!HasDocument, P!HasDocument
<1> QED
  BY <1>1, <1>2, <1>3, <1>5, <1>6

LEMMA StepSame == Parser!Step => P!Step
<1>1. Parser!ReadFlags => P!ReadFlags
  BY ReadSame, SectionsSame, CodesSame DEF Parser!ReadFlags, P!ReadFlags
<1>2. Parser!ReadBody => P!ReadBody
  BY CaretsSame, ReadSame, SectionsSame, CodesSame, FieldsSame DEF Parser!ReadBody, P!ReadBody
<1>3. Parser!OpenSequence => P!OpenSequence
  BY CaretsSame, ReadSame, SectionsSame, CodesSame, FieldsSame
     DEF Parser!OpenSequence, P!OpenSequence
<1>4. Parser!ReadDocument => P!ReadDocument
  BY CaretsSame, ReadSame, SectionsSame, FieldsSame DEF Parser!ReadDocument, P!ReadDocument
<1>5. Parser!CloseSequence => P!CloseSequence
  BY SectionsSame, FieldsSame DEF Parser!CloseSequence, P!CloseSequence
<1>6. Parser!UnknownSection => P!UnknownSection
  BY CaretsSame, CodesSame DEF Parser!UnknownSection, P!UnknownSection
<1>7. Parser!EndOfMessage => P!EndOfMessage
  BY CaretsSame DEF Parser!EndOfMessage, P!EndOfMessage
<1> QED
  BY <1>1, <1>2, <1>3, <1>4, <1>5, <1>6, <1>7 DEF Parser!Step, P!Step

LEMMA BytesSame ==
  /\ Parser!BsonByte = BsonByte /\ P!BsonByte = BsonByte
  /\ \A n : Parser!Int32Bytes(n) = P!Int32Bytes(n)
  /\ \A d : P!Caret(d) = Caret(d) /\ Parser!Caret(d) = P!Caret(d)
  /\ P!MaxInt32 = MaxInt32 /\ Parser!MaxInt32 = P!MaxInt32
BY DEF Parser!BsonByte, BsonByte, P!BsonByte, Parser!Int32Bytes, P!Int32Bytes,
   P!Caret, Caret, Parser!Caret, P!MaxInt32, MaxInt32, Parser!MaxInt32

LEMMA MessagesSame ==
  /\ \A m : Parser!OpMsgBytes(m) = P!OpMsgBytes(m)
  /\ \A doc : Parser!Counts(doc) = P!Counts(doc)
  /\ Parser!BodyType = P!BodyType /\ Parser!SequenceType = P!SequenceType
<1>0. \A s : Parser!FlattenSeq(s) = P!FlattenSeq(s)
  BY DEF Parser!FlattenSeq, P!FlattenSeq
<1>1. \A s : Parser!SequenceContent(s) = P!SequenceContent(s)
  BY <1>0 DEF Parser!SequenceContent, P!SequenceContent
<1>2. \A s : Parser!SectionBytes(s) = P!SectionBytes(s)
  BY <1>1, CodesSame, BytesSame DEF Parser!SectionBytes, P!SectionBytes
<1>3. \A f : Parser!FlagBits(f) = P!FlagBits(f)
  BY CodesSame DEF Parser!FlagBits, P!FlagBits
<1>4. \A m : Parser!OpMsgBytes(m) = P!OpMsgBytes(m)
  BY <1>0, <1>2, <1>3, BytesSame DEF Parser!OpMsgBytes, P!OpMsgBytes
<1>5. \A doc : Parser!Counts(doc) = P!Counts(doc)
  BY ReadSame, BytesSame DEF Parser!Counts, P!Counts
<1> QED
  BY <1>4, <1>5, CodesSame, BytesSame
     DEF Parser!BodyType, P!BodyType, Parser!SequenceType, P!SequenceType

LEMMA TypeSame == P!TypeOK => Parser!TypeOK
<1>1. Parser!DataSize(caret) = P!DataSize(caret) /\ Parser!Flags = P!Flags
  BY DEF Parser!DataSize, P!DataSize, Parser!Flags, P!Flags
<1> QED
  BY <1>1, BytesSame, MessagesSame DEF Parser!TypeOK, P!TypeOK

(* What the module of the parser assumes. *)
LEMMA ParserAssumptions ==
  /\ Seq(BsonByte) \subseteq Seq(P!BsonByte)
  /\ \A m \in {} : P!IsMessage(m)
BY BytesSame

LEMMA ParserKeeps ==
  ASSUME P!Inv, Parser!Step
  PROVE  P!Inv' /\ caret'.data = caret.data
<1>1. P!Step
  BY StepSame
<1>2. [P!Next]_P!vars
  BY <1>1 DEF P!Next
<1>3. P!Inv'
  BY <1>2, ParserAssumptions, P!NextInv
<1>4. caret'.data = caret.data
  BY <1>2, ParserAssumptions, P!DataKept
<1> QED
  BY <1>3, <1>4

LEMMA ParserReadsOn ==
  ASSUME P!Inv, NEW m, P!IsMessage(m), caret.data = P!OpMsgBytes(m), P!ReadSoFar(m), Parser!Step
  PROVE  P!ReadSoFar(m)'
<1>1. P!Step
  BY StepSame
<1>2. [P!Next]_P!vars
  BY <1>1 DEF P!Next
<1> QED
  BY <1>2, ParserAssumptions, P!NextSoFar

-----------------------------------------------------------------------------
(* The inductive invariant.  Everything on its way, and everything the     *)
(* peer has, is what the requests that have been asked are written as: the *)
(* first ones have been executed, the next one is being parsed unless the  *)
(* peer is idle, the others are on their way.                              *)

Requests == { OpMsgOf(c, docs) : c \in Commands, docs \in SeqOf(DocumentSet, MaxAdded) }

Size(r) == HeaderSize + Len(P!OpMsgBytes(r))

(* What write lets pass. *)
Short == { r \in Requests : Size(r) <= MaxInt32 }

RequestHeader(r, k) == [NewHeader(Size(r)) EXCEPT !.requestId = k]

AnswerHeader(r, k) == [NewHeader(Size(r)) EXCEPT !.requestId = -k, !.responseTo = k]

CommandsInv ==
  /\ added \in [Commands -> Seq(DocumentSet)] /\ documents = added
  /\ \A c \in Commands : Len(added[c]) <= MaxAdded

MessageInv ==
  \/ meant = NoMessage /\ message = NoMessage
  \/ meant \in Requests /\ message = MessageOf(P!OpMsgBytes(meant))

CallsInv ==
  /\ asked \in Seq(Short)
  /\ outcome \in Seq(Outcome) /\ Len(outcome) = Len(asked)
  /\ made \in Nat /\ made <= MaxMessages
  /\ Len(asked) + (IF meant = NoMessage THEN 0 ELSE 1) <= made
  /\ \A n \in refused : n \in Nat /\ n >= Int32Range \div 2

(* How many requests have left the connection. *)
Taken == IF pc = "idle" THEN Len(executed) ELSE Len(executed) + 1

WayInv ==
  /\ executed \in Seq(Short) /\ Taken <= Len(asked)
  /\ \A i \in 1 .. Len(executed) : executed[i] = asked[i]
  /\ toPeer \in Seq(Packet) /\ Taken + Len(toPeer) = Len(asked)
  /\ \A i \in 1 .. Len(toPeer) :
       toPeer[i] = Sent(RequestHeader(asked[Taken + i], Taken + i),
                        P!OpMsgBytes(asked[Taken + i]))
  /\ toCaller \in Seq(Packet)
  /\ \A i \in 1 .. Len(toCaller) : \E k \in 1 .. Len(executed) :
       toCaller[i] = Sent(AnswerHeader(asked[k], k), P!OpMsgBytes(asked[k]))

Parses(r, k) ==
  /\ serving = RequestHeader(r, k)
  /\ caret.data = P!OpMsgBytes(r) /\ P!Inv /\ P!ReadSoFar(r)

PeerInv ==
  IF pc = "idle"
  THEN /\ serving = NoHeader /\ caret = Caret(<<>>) /\ flags = NoFlags
       /\ sections = <<>> /\ section = P!NoSection
  ELSE Parses(asked[Len(executed) + 1], Len(executed) + 1)

Inv == CommandsInv /\ MessageInv /\ CallsInv /\ WayInv /\ PeerInv

-----------------------------------------------------------------------------
(* The requests. *)

LEMMA SeqOfType ==
  ASSUME NEW S, NEW n \in Nat, NEW s
  PROVE  s \in SeqOf(S, n) <=> (s \in Seq(S) /\ Len(s) <= n)
<1>1. ASSUME s \in SeqOf(S, n)
      PROVE  s \in Seq(S) /\ Len(s) <= n
  <2>1. PICK m \in 0 .. n : s \in [1 .. m -> S]
    BY <1>1 DEF SeqOf
  <2>2. s \in Seq(S) /\ Len(s) = m
    BY <2>1
  <2> QED
    BY <2>2
<1>2. ASSUME s \in Seq(S), Len(s) <= n
      PROVE  s \in SeqOf(S, n)
  <2>1. Len(s) \in 0 .. n /\ s \in [1 .. Len(s) -> S]
    BY <1>2
  <2> QED
    BY <2>1 DEF SeqOf
<1> QED
  BY <1>1, <1>2

(* What addDocument and the mapper are given is sized. *)
LEMMA DocumentType ==
  ASSUME NEW doc \in DocumentSet \cup {BodyOf[c] : c \in Commands}
  PROVE  doc \in Seq(BsonByte) /\ P!Counts(doc) /\ doc # P!Null
<1>1. doc \in Seq(BsonByte)
  BY DriverAssumption
<1>2. P!Counts(doc)
  BY DocumentsAssumption, MessagesSame
<1>3. doc # P!Null
  BY <1>1, BytesSame, ParserAssumptions, P!NullIsNoString
<1> QED
  BY <1>1, <1>2, <1>3

LEMMA IdentifierType ==
  ASSUME NEW k \in DOMAIN Identifier
  PROVE  /\ Identifier[k] \in Seq(BsonByte)
         /\ \A j \in DOMAIN Identifier[k] : Identifier[k][j] # 0
<1>1. k = "Insert" \/ k = "Update" \/ k = "Delete"
  BY DEF Identifier
<1>2. /\ Identifier["Insert"] = <<100, 111, 99, 117, 109, 101, 110, 116, 115>>
      /\ Identifier["Update"] = <<117, 112, 100, 97, 116, 101, 115>>
      /\ Identifier["Delete"] = <<100, 101, 108, 101, 116, 101>>
  BY DEF Identifier
<1>3. /\ 100 \in BsonByte /\ 111 \in BsonByte /\ 99 \in BsonByte /\ 117 \in BsonByte
      /\ 109 \in BsonByte /\ 101 \in BsonByte /\ 110 \in BsonByte /\ 116 \in BsonByte
      /\ 115 \in BsonByte /\ 112 \in BsonByte /\ 97 \in BsonByte /\ 108 \in BsonByte
  BY DEF BsonByte
<1>4. CASE k = "Insert"
  <2>1. Identifier[k] \in Seq(BsonByte)
    <3> DEFINE t == Identifier[k]
    <3>1. Len(t) = 9 /\ DOMAIN t = 1 .. 9 /\ t = [i \in 1 .. 9 |-> t[i]]
      BY <1>2, <1>4
    <3>2. \A i \in 1 .. 9 : t[i] \in BsonByte
      BY <1>2, <1>3, <1>4
    <3> HIDE DEF t
    <3>3. t \in Seq(BsonByte)
      BY <3>1, <3>2
    <3> QED
      BY <3>3 DEF t
  <2>2. \A j \in DOMAIN Identifier[k] : Identifier[k][j] # 0
    BY <1>2, <1>4
  <2> QED
    BY <2>1, <2>2
<1>5. CASE k = "Update"
  <2>1. Identifier[k] \in Seq(BsonByte)
    <3> DEFINE t == Identifier[k]
    <3>1. Len(t) = 7 /\ DOMAIN t = 1 .. 7 /\ t = [i \in 1 .. 7 |-> t[i]]
      BY <1>2, <1>5
    <3>2. \A i \in 1 .. 7 : t[i] \in BsonByte
      BY <1>2, <1>3, <1>5
    <3> HIDE DEF t
    <3>3. t \in Seq(BsonByte)
      BY <3>1, <3>2
    <3> QED
      BY <3>3 DEF t
  <2>2. \A j \in DOMAIN Identifier[k] : Identifier[k][j] # 0
    BY <1>2, <1>5
  <2> QED
    BY <2>1, <2>2
<1>6. CASE k = "Delete"
  <2>1. Identifier[k] \in Seq(BsonByte)
    <3> DEFINE t == Identifier[k]
    <3>1. Len(t) = 6 /\ DOMAIN t = 1 .. 6 /\ t = [i \in 1 .. 6 |-> t[i]]
      BY <1>2, <1>6
    <3>2. \A i \in 1 .. 6 : t[i] \in BsonByte
      BY <1>2, <1>3, <1>6
    <3> HIDE DEF t
    <3>3. t \in Seq(BsonByte)
      BY <3>1, <3>2
    <3> QED
      BY <3>3 DEF t
  <2>2. \A j \in DOMAIN Identifier[k] : Identifier[k][j] # 0
    BY <1>2, <1>6
  <2> QED
    BY <2>1, <2>2
<1> QED
  BY <1>1, <1>4, <1>5, <1>6

(* A request has sections that can be read, with identifiers that a NUL    *)
(* can end.                                                                *)
LEMMA RequestSections ==
  ASSUME NEW r \in Requests
  PROVE  /\ r = [flags |-> NoFlags, sections |-> r.sections] /\ r.flags = NoFlags
         /\ P!IsRead(r.sections)
         /\ \A i \in DOMAIN r.sections :
              r.sections[i].type = P!TYPE_DOCUMENT_SEQUENCE =>
                \A j \in DOMAIN r.sections[i].identifier : r.sections[i].identifier[j] # 0
<1>1. PICK c \in Commands, docs \in SeqOf(DocumentSet, MaxAdded) : r = OpMsgOf(c, docs)
  BY DEF Requests
<1> DEFINE b == P!Body(BodyOf[c])
           id == Identifier[Kind[c]]
           s == P!Sequence(id, docs)
<1>2. docs \in Seq(DocumentSet)
  BY <1>1, SeqOfType, DriverAssumption
<1>3. b \in P!BodyType /\ P!Good(b) /\ b.type # P!TYPE_DOCUMENT_SEQUENCE
  <2>1. BodyOf[c] \in Seq(BsonByte) /\ P!Counts(BodyOf[c]) /\ BodyOf[c] # P!Null
    BY DocumentType
  <2> QED
    BY <2>1, BytesSame
       DEF P!Body, P!BodyType, P!Good, P!IsWhole, P!Documents, P!TYPE_BODY,
           P!TYPE_DOCUMENT_SEQUENCE
<1>4. ASSUME HasDocuments(c)
      PROVE  /\ s \in P!SequenceType /\ P!Good(s)
             /\ \A j \in DOMAIN s.identifier : s.identifier[j] # 0
  <2>1. id \in Seq(BsonByte) /\ \A j \in DOMAIN id : id[j] # 0
    BY <1>4, IdentifierType DEF HasDocuments
  <2>2. id # P!Null
    BY <2>1, BytesSame, ParserAssumptions, P!NullIsNoString
  <2>3. docs \in Seq(Seq(BsonByte))
    BY <1>2, DriverAssumption
  <2>4. \A k \in DOMAIN docs : P!Counts(docs[k])
    BY <1>2, DocumentType
  <2> HIDE DEF id
  <2> QED
    BY <2>1, <2>2, <2>3, <2>4, BytesSame
       DEF P!Sequence, P!SequenceType, P!Good, P!IsWhole, P!Documents, P!TYPE_BODY,
           P!TYPE_DOCUMENT_SEQUENCE
<1>5. r.flags = NoFlags /\ r = [flags |-> NoFlags, sections |-> r.sections]
      /\ r.sections = IF HasDocuments(c) THEN <<b, s>> ELSE <<b>>
  BY <1>1, SectionsSame DEF OpMsgOf
<1> HIDE DEF b, s
<1>6. CASE HasDocuments(c)
  <2>1. r.sections = <<b, s>> /\ DOMAIN <<b, s>> = 1 .. 2
        /\ <<b, s>>[1] = b /\ <<b, s>>[2] = s
    BY <1>5, <1>6
  <2>2. <<b, s>> \in Seq(P!BodyType \cup P!SequenceType)
    BY <1>3, <1>4, <1>6
  <2>3. \A i \in 1 .. 2 : i = 1 \/ i = 2
    OBVIOUS
  <2> QED
    BY <1>3, <1>4, <1>5, <1>6, <2>1, <2>2, <2>3, Zenon DEF P!IsRead
<1>7. CASE ~HasDocuments(c)
  <2>1. r.sections = <<b>> /\ DOMAIN <<b>> = 1 .. 1 /\ <<b>>[1] = b
    BY <1>5, <1>7
  <2>2. <<b>> \in Seq(P!BodyType \cup P!SequenceType)
    BY <1>3
  <2>3. \A i \in 1 .. 1 : i = 1
    OBVIOUS
  <2> QED
    BY <1>3, <1>5, <2>1, <2>2, <2>3, Zenon DEF P!IsRead
<1> QED
  BY <1>6, <1>7

(* A request is written as bytes, and no section is longer than all.       *)
LEMMA RequestBytes ==
  ASSUME NEW r \in Requests
  PROVE  /\ P!OpMsgBytes(r) \in Seq(BsonByte) /\ Len(P!OpMsgBytes(r)) \in Nat
         /\ Len(P!OpMsgBytes(r)) >= 4
         /\ \A i \in DOMAIN r.sections :
              Len(P!SectionBytes(r.sections[i])) <= Len(P!OpMsgBytes(r))
<1> DEFINE n == Len(r.sections)
           parts == [k \in 1 .. n |-> P!SectionBytes(r.sections[k])]
           a == P!Int32Bytes(P!FlagBits(r.flags))
           b == FlattenSeq(parts)
<1>1. P!IsRead(r.sections) /\ r.flags = NoFlags
  BY RequestSections
<1>2. n \in Nat /\ DOMAIN r.sections = 1 .. n /\ n \in 0 .. n
  BY <1>1 DEF P!IsRead
<1>3. parts \in Seq(Seq(BsonByte))
  BY <1>1, <1>2, BytesSame, ParserAssumptions, P!ReadBytes
<1>4. Len(parts) = n /\ \A k \in 1 .. n : parts[k] = P!SectionBytes(r.sections[k])
  BY <1>2
<1>5. P!OpMsgBytes(r) = a \o b
  <2>1. \A s : P!FlattenSeq(s) = FlattenSeq(s)
    BY DEF P!FlattenSeq, FlattenSeq
  <2> QED
    BY <1>2, <2>1 DEF P!OpMsgBytes
<1> HIDE DEF parts
<1>6. b \in Seq(BsonByte)
  BY <1>3, FlattenType
<1>7. a \in Seq(BsonByte) /\ Len(a) = 4
  <2>1. P!FlagBits(NoFlags) = 0
    BY DEF P!FlagBits, NoFlags
  <2>2. a = Int32Bytes(0)
    BY <1>1, <2>1 DEF Int32Bytes, P!Int32Bytes
  <2> QED
    BY <2>2, Int32BytesType
<1> HIDE DEF a, b, n
<1>8. a \o b \in Seq(BsonByte) /\ Len(a \o b) = Len(a) + Len(b)
  BY <1>6, <1>7, ConcatType
<1>9. Len(b) \in Nat
  BY <1>6, LenProperties
<1>10. \A i \in 1 .. n : Len(P!SectionBytes(r.sections[i])) <= Len(b)
  <2> SUFFICES ASSUME NEW i \in 1 .. n
               PROVE  Len(P!SectionBytes(r.sections[i])) <= Len(b)
    OBVIOUS
  <2>1. i \in 1 .. Len(parts) /\ parts[i] = P!SectionBytes(r.sections[i])
    BY <1>4
  <2>2. /\ First(parts, i - 1) \in Seq(BsonByte) /\ parts[i] \in Seq(BsonByte)
        /\ Len(First(parts, i)) = Len(First(parts, i - 1)) + Len(parts[i])
        /\ Len(First(parts, i)) <= Len(b)
    BY <1>3, <2>1, PartOfWhole DEF b
  <2>3. Len(First(parts, i - 1)) \in Nat /\ Len(parts[i]) \in Nat
    BY <2>2, LenProperties
  <2> QED
    BY <1>9, <2>1, <2>2, <2>3
<1>11. Len(a \o b) = 4 + Len(b) /\ 4 + Len(b) \in Nat /\ 4 + Len(b) >= 4
  BY <1>7, <1>8, <1>9
<1>12. ASSUME NEW i \in DOMAIN r.sections
       PROVE  Len(P!SectionBytes(r.sections[i])) <= 4 + Len(b)
  <2>1. i \in 1 .. n
    BY <1>2
  <2>2. P!SectionBytes(r.sections[i]) \in Seq(BsonByte)
    BY <1>3, <1>4, <2>1, ElementOfSeq
  <2>3. Len(P!SectionBytes(r.sections[i])) \in Nat
    BY <2>2, LenProperties
  <2> QED
    BY <1>9, <1>10, <2>1, <2>3
<1> QED
  BY <1>5, <1>8, <1>11, <1>12

LEMMA RequestType ==
  ASSUME NEW r \in Requests
  PROVE  r \in Request /\ r # NoMessage
<1>1. /\ r = [flags |-> NoFlags, sections |-> r.sections]
      /\ r.sections \in Seq(P!BodyType \cup P!SequenceType)
  BY RequestSections DEF P!IsRead
<1>2. r \in Request
  BY <1>1, MessagesSame DEF Request
<1>3. r # NoMessage
  <2>1. DOMAIN r = {"flags", "sections"}
    BY <1>1
  <2>2. DOMAIN NoMessage = {"header", "data"}
    BY DEF NoMessage, Message
  <2> QED
    BY <2>1, <2>2
<1> QED
  BY <1>2, <1>3

LEMMA SizeType ==
  ASSUME NEW r \in Requests
  PROVE  Size(r) \in Nat /\ Size(r) = HeaderSize + Len(P!OpMsgBytes(r)) /\ Size(r) > HeaderSize
<1>1. HeaderSize = 16
  BY DEF HeaderSize
<1> QED
  BY <1>1, RequestBytes DEF Size

(* What write lets pass is a message that can be parsed.                   *)
LEMMA ShortIsMessage ==
  ASSUME NEW r \in Short
  PROVE  P!IsMessage(r) /\ r \in Requests /\ Size(r) <= MaxInt32
<1>1. r \in Requests /\ Size(r) <= MaxInt32
  BY DEF Short
<1>2. /\ r = [flags |-> NoFlags, sections |-> r.sections] /\ P!IsRead(r.sections)
      /\ \A i \in DOMAIN r.sections :
           r.sections[i].type = P!TYPE_DOCUMENT_SEQUENCE =>
             \A j \in DOMAIN r.sections[i].identifier : r.sections[i].identifier[j] # 0
  BY <1>1, RequestSections
<1>3. NoFlags \in P!Flags
  BY DEF NoFlags, P!Flags
<1>4. r \in [flags : P!Flags, sections : Seq(P!BodyType \cup P!SequenceType)]
  BY <1>2, <1>3 DEF P!IsRead
<1>5. ASSUME NEW i \in DOMAIN r.sections
      PROVE  P!IsWritable(r.sections[i])
  <2> DEFINE s == r.sections[i]
  <2>1. s \in P!BodyType \cup P!SequenceType /\ P!Good(s)
    BY <1>2 DEF P!IsRead
  <2>2. (s \in P!BodyType /\ s.document # P!Null) \/ P!IsSequence(s)
    BY <2>1, ParserAssumptions, P!GoodBytes
  <2>3. CASE s \in P!BodyType
    <3>1. s.type # P!TYPE_DOCUMENT_SEQUENCE
      BY <2>3 DEF P!BodyType, P!TYPE_BODY, P!TYPE_DOCUMENT_SEQUENCE
    <3> QED
      BY <2>1, <3>1 DEF P!IsWritable, P!Good
  <2>4. CASE P!IsSequence(s)
    <3>1. /\ Len(P!SectionBytes(s)) = 5 + Len(P!SequenceContent(s))
          /\ P!SequenceContent(s) \in Seq(P!BsonByte)
      BY <2>4, ParserAssumptions, P!SequenceBytes, P!ContentBytes
    <3>2. Len(P!SequenceContent(s)) \in Nat
      BY <3>1, LenProperties
    <3>3. Len(P!SectionBytes(s)) <= Len(P!OpMsgBytes(r))
      BY <1>1, RequestBytes
    <3>4. Len(P!OpMsgBytes(r)) \in Nat /\ HeaderSize = 16
      BY <1>1, RequestBytes DEF HeaderSize
    <3>5. Size(r) = 16 + Len(P!OpMsgBytes(r))
      BY <3>4 DEF Size
    <3>6. MaxInt32 \in Int /\ P!MaxInt32 = MaxInt32
      BY SMT, BytesSame DEF MaxInt32
    <3>7. 4 + Len(P!SequenceContent(s)) <= P!MaxInt32
      <4> HIDE DEF s
      <4> QED
        BY <1>1, <3>1, <3>2, <3>3, <3>4, <3>5, <3>6
    <3>8. s.type = P!TYPE_DOCUMENT_SEQUENCE
      BY <2>4 DEF P!IsSequence, P!SequenceType
    <3> QED
      BY <1>2, <2>1, <3>7, <3>8 DEF P!IsWritable, P!Good
  <2> QED
    BY <2>2, <2>3, <2>4
<1> QED
  BY <1>1, <1>4, <1>5 DEF P!IsMessage

-----------------------------------------------------------------------------
(* Lengths, and what is made of them. *)

Half == Int32Range \div 2

LEMMA HalfType == Half \in Nat /\ Half >= 1 /\ Int32Range = Half + Half /\ Half - 1 <= MaxInt32
<1>1. Int32Range \in Nat \ {0} /\ Int32Range % 2 = 0 /\ Half - 1 <= MaxInt32
  BY DriverAssumption DEF Half
<1>2. Half \in Int /\ Int32Range = 2 * Half + (Int32Range % 2)
  BY <1>1, DivMod DEF Half
<1> QED
  BY <1>1, <1>2

(* An int32 says a number below the half of its range as it is.            *)
LEMMA Int32Type ==
  ASSUME NEW n \in Int
  PROVE  /\ Int32(n) \in Int /\ -Half <= Int32(n) /\ Int32(n) <= Half - 1
         /\ 0 <= n /\ n < Half => Int32(n) = n
<1> DEFINE R == Int32Range
           h == Half
           x == (n + h) % R
<1>1. R \in Nat \ {0} /\ h \in Nat /\ R = h + h
  BY HalfType
<1>2. Int32(n) = x - h
  BY DEF Int32, Half
<1>3. x \in 0 .. R - 1
  <2>1. n + h \in Int
    BY <1>1
  <2> HIDE DEF R, h
  <2> QED
    BY <1>1, <2>1, DivMod
<1>4. ASSUME 0 <= n, n < h
      PROVE  x = n + h
  <2>1. n + h \in 0 .. R - 1
    BY <1>1, <1>4
  <2> HIDE DEF R, h
  <2> QED
    BY <1>1, <2>1, ModSmall
<1> HIDE DEF R, x
<1> QED
  BY <1>1, <1>2, <1>3, <1>4

LEMMA Int32Any ==
  ASSUME NEW n \in Int
  PROVE  Int32(n) \in AnyInt32
<1>1. MaxInt32 \in Int
  BY SMT DEF MaxInt32
<1>2. /\ Int32(n) \in Int /\ -Half <= Int32(n) /\ Int32(n) <= Half - 1
      /\ Half \in Nat /\ Half - 1 <= MaxInt32
  BY Int32Type, HalfType
<1>3. -MaxInt32 - 1 <= Int32(n) /\ Int32(n) <= MaxInt32
  BY <1>1, <1>2
<1> QED
  BY <1>2, <1>3, AnyInt32Type

LEMMA SmallAny ==
  ASSUME NEW n \in Int, -MaxInt32 <= n, n <= MaxInt32
  PROVE  n \in AnyInt32
<1>1. MaxInt32 \in Int
  BY SMT DEF MaxInt32
<1>2. -MaxInt32 - 1 <= n
  BY <1>1
<1> QED
  BY <1>2, AnyInt32Type

LEMMA HeaderType ==
  ASSUME NEW x \in AnyInt32
  PROVE  /\ NewHeader(x) \in MessageHeader /\ NewHeader(x).messageLength = x
         /\ NewHeader(x).requestId = 0 /\ NewHeader(x).responseTo = 0
<1>1. 0 \in Int /\ -MaxInt32 <= 0 /\ 0 <= MaxInt32 /\ OP_CODE \in Int
      /\ -MaxInt32 <= OP_CODE /\ OP_CODE <= MaxInt32
  BY SMT DEF MaxInt32, OP_CODE
<1>2. 0 \in AnyInt32 /\ OP_CODE \in AnyInt32
  BY <1>1, SmallAny
<1> QED
  BY <1>2 DEF NewHeader, MessageHeader

LEMMA MessageOfType ==
  ASSUME NEW d \in Seq(BsonByte), Len(d) >= 4, NEW m, m = MessageOf(d)
  PROVE  /\ m \in MessageType /\ m # NoMessage
         /\ m.data.size = Len(d) /\ m.data.bytes = d
         /\ m.header = NewHeader(Int32(HeaderSize + Int32(Len(d))))
         /\ m.header.messageLength = Int32(HeaderSize + Int32(Len(d)))
<1> DEFINE x == Int32(HeaderSize + Int32(Len(d)))
<1>1. Len(d) \in Nat
  BY LenProperties
<1>2. x \in AnyInt32
  <2>1. HeaderSize + Int32(Len(d)) \in Int
    BY <1>1, Int32Type DEF HeaderSize
  <2> QED
    BY <2>1, Int32Any
<1>3. m = [header |-> NewHeader(x), data |-> [size |-> Len(d), bytes |-> d]]
  BY DEF MessageOf, Message, Buffer
<1> HIDE DEF x
<1>4. NewHeader(x) \in MessageHeader /\ NewHeader(x).messageLength = x
  BY <1>2, HeaderType
<1>5. NoMessage.data.size = 0
  <2>1. Len(<<>>) = 0
    OBVIOUS
  <2> QED
    BY <2>1 DEF NoMessage, Message, Buffer
<1>6. m \in MessageType
  BY <1>1, <1>3, <1>4 DEF MessageType, BufferType
<1>7. m.data.size = Len(d) /\ m.data.bytes = d /\ m.header = NewHeader(x)
  BY <1>3
<1>8. m # NoMessage
  BY <1>1, <1>5, <1>7
<1> QED
  BY <1>4, <1>6, <1>7, <1>8 DEF x

(* What write says of a message it lets pass is its length; one it refuses *)
(* is longer than an int32 can say.                                        *)
LEMMA WriteLength ==
  ASSUME NEW d \in Seq(BsonByte), Len(d) >= 4,
         NEW y, y = Int32(HeaderSize + Int32(Len(d)))
  PROVE  /\ y = HeaderSize + Len(d) => HeaderSize + Len(d) <= MaxInt32
         /\ y # HeaderSize + Len(d) => HeaderSize + Len(d) >= Int32Range \div 2
<1> DEFINE n == Len(d)
           h == Half
<1>1. n \in Nat /\ HeaderSize = 16
  BY LenProperties DEF HeaderSize
<1>2. h \in Nat /\ h - 1 <= MaxInt32 /\ Int32Range \div 2 = h /\ MaxInt32 \in Int
  <2>1. MaxInt32 \in Int
    BY SMT DEF MaxInt32
  <2> QED
    BY <2>1, HalfType DEF Half
<1>3. Int32(n) \in Int /\ (n < h => Int32(n) = n)
  BY <1>1, Int32Type
<1>4. HeaderSize + Int32(n) \in Int
  BY <1>1, <1>3
<1>5. y \in Int /\ y <= h - 1
      /\ (0 <= HeaderSize + Int32(n) /\ HeaderSize + Int32(n) < h => y = HeaderSize + Int32(n))
  BY <1>4, Int32Type
<1> HIDE DEF n, h
<1>6. y = HeaderSize + n => HeaderSize + n <= MaxInt32
  BY <1>1, <1>2, <1>5
<1>7. ~(HeaderSize + n >= h) => y = HeaderSize + n
  BY <1>1, <1>2, <1>3, <1>5
<1> QED
  BY <1>2, <1>6, <1>7 DEF n

LEMMA RequestHeaderType ==
  ASSUME NEW r \in Short, NEW k \in Nat, k <= MaxInt32
  PROVE  /\ RequestHeader(r, k) \in MessageHeader
         /\ RequestHeader(r, k).messageLength = Size(r)
         /\ RequestHeader(r, k).requestId = k
         /\ AnswerHeader(r, k) \in MessageHeader
         /\ AnswerHeader(r, k).responseTo = k
<1>1. MaxInt32 \in Int /\ MaxInt32 >= 0
  BY SMT DEF MaxInt32
<1>2. Size(r) \in Nat /\ Size(r) <= MaxInt32
  BY ShortIsMessage, SizeType
<1>3. /\ -MaxInt32 <= Size(r) /\ -MaxInt32 <= k
      /\ -k \in Int /\ -MaxInt32 <= -k /\ -k <= MaxInt32
  BY <1>1, <1>2
<1>4. Size(r) \in AnyInt32 /\ k \in AnyInt32 /\ -k \in AnyInt32
  BY <1>1, <1>2, <1>3, SmallAny
<1> DEFINE h == NewHeader(Size(r))
           j == -k
<1>5. h \in MessageHeader /\ h.messageLength = Size(r)
  BY <1>4, HeaderType
<1>6. /\ RequestHeader(r, k) = [h EXCEPT !.requestId = k]
      /\ AnswerHeader(r, k) = [[h EXCEPT !.requestId = j] EXCEPT !.responseTo = k]
  BY DEF RequestHeader, AnswerHeader
<1>7. j \in AnyInt32
  BY <1>4
<1> HIDE DEF h, j
<1> QED
  BY <1>4, <1>5, <1>6, <1>7 DEF MessageHeader

(* A header on the way. *)
LEMMA SentType ==
  ASSUME NEW h \in MessageHeader, NEW d \in Seq(BsonByte), NEW p, p = Sent(h, d)
  PROVE  p \in Packet /\ HeaderOf(p.header) = h /\ p.data = d
<1>1. HeaderBytes(h) \in Seq(BsonByte) /\ Len(HeaderBytes(h)) = HeaderSize
  BY HeaderBytesType
<1>2. HeaderSize \in Int
  BY DEF HeaderSize
<1>3. HeaderOf(HeaderBytes(h)) = h
  BY <1>1, <1>2, HeaderRead
<1> QED
  BY <1>1, <1>3 DEF Sent, Packet

-----------------------------------------------------------------------------
(* Initially, and after the steps that leave the peer alone. *)

LEMMA InitInv == Init => Inv
<1> SUFFICES ASSUME Init
             PROVE  Inv
  OBVIOUS
<1>1. CommandsInv
  <2>1. added = [c \in Commands |-> <<>>] /\ documents = added /\ MaxAdded \in Nat
    BY DriverAssumption DEF Init
  <2>2. Len(<<>>) = 0 /\ <<>> \in Seq(DocumentSet)
    OBVIOUS
  <2> QED
    BY <2>1, <2>2 DEF CommandsInv
<1>2. MessageInv
  BY DEF Init, MessageInv
<1>3. CallsInv
  <2>1. /\ asked = <<>> /\ outcome = <<>> /\ made = 0 /\ meant = NoMessage /\ refused = {}
        /\ MaxMessages \in Nat
    BY DriverAssumption DEF Init
  <2> QED
    BY <2>1 DEF CallsInv
<1>4. WayInv
  <2>1. /\ asked = <<>> /\ executed = <<>> /\ toPeer = <<>> /\ toCaller = <<>> /\ pc = "idle"
    BY DEF Init
  <2> QED
    BY <2>1 DEF WayInv, Taken
<1>5. PeerInv
  BY SectionsSame DEF Init, PeerInv
<1> QED
  BY <1>1, <1>2, <1>3, <1>4, <1>5 DEF Inv

LEMMA WayKept ==
  ASSUME WayInv, UNCHANGED <<asked, executed, pc, toPeer, toCaller>>
  PROVE  WayInv'
<1>1. Taken' = Taken
  BY DEF Taken
<1> QED
  BY <1>1 DEF WayInv

LEMMA ParsesKept ==
  ASSUME NEW r, NEW k, Parses(r, k), UNCHANGED <<serving, caret, flags, sections, section, pc>>
  PROVE  Parses(r, k)'
<1>1. P!Inv'
  BY DEF Parses, P!Inv, P!TypeOK
<1>2. P!ReadSoFar(r)'
  BY DEF Parses, P!ReadSoFar, P!Between, P!Inside, P!SectionsSoFar, P!DocumentsSoFar
<1> QED
  BY <1>1, <1>2 DEF Parses

(* The requests asked before are those asked now. *)
LEMMA PeerKept ==
  ASSUME CallsInv, WayInv, PeerInv, UNCHANGED peerVars,
         asked' = asked \/ \E r \in Short : asked' = Append(asked, r)
  PROVE  PeerInv'
<1>1. UNCHANGED <<serving, caret, flags, sections, section, pc, executed>>
  BY DEF peerVars
<1>2. CASE pc = "idle"
  BY <1>1, <1>2 DEF PeerInv
<1>3. CASE pc # "idle"
  <2>1. PICK k, q : k = Len(executed) + 1 /\ q = asked[k]
    OBVIOUS
  <2>2. Parses(q, k)
    BY <1>3, <2>1 DEF PeerInv
  <2>3. k \in 1 .. Len(asked) /\ asked \in Seq(Short)
    <3>1. k = Taken /\ Len(executed) \in Nat /\ Taken <= Len(asked)
      BY <1>3, <2>1, LenProperties DEF WayInv, Taken
    <3>2. asked \in Seq(Short)
      BY DEF CallsInv
    <3>3. Len(asked) \in Nat
      BY <3>2, LenProperties
    <3> QED
      BY <2>1, <3>1, <3>2, <3>3
  <2>4. asked'[k] = q /\ k = Len(executed') + 1
    <3>1. \A r \in Short : Append(asked, r)[k] = asked[k]
      BY <2>3, AppendProperties
    <3> QED
      BY <1>1, <2>1, <3>1
  <2>5. Parses(q, k)'
    BY <1>1, <2>2, ParsesKept
  <2> QED
    BY <1>1, <1>3, <2>4, <2>5 DEF PeerInv
<1> QED
  BY <1>2, <1>3

-----------------------------------------------------------------------------
(* One lemma per action of the caller. *)

LEMMA AddDocumentInv ==
  ASSUME Inv, NEW c \in Commands, NEW d \in DocumentSet, AddDocument(c, d)
  PROVE  Inv'
<1>1. /\ CommandsInv /\ MessageInv /\ CallsInv /\ WayInv /\ PeerInv
  BY DEF Inv
<1>2. /\ Len(added[c]) < MaxAdded
      /\ documents' = [documents EXCEPT ![c] = Append(@, d)]
      /\ added' = [added EXCEPT ![c] = Append(@, d)]
      /\ UNCHANGED <<message, outcome, meant, asked, refused, made>>
      /\ UNCHANGED peerVars /\ UNCHANGED <<toPeer, toCaller>>
  BY DEF AddDocument
<1>3. CommandsInv'
  <2> DEFINE s == added[c]
  <2>1. /\ added \in [Commands -> Seq(DocumentSet)] /\ documents = added
        /\ \A b \in Commands : Len(added[b]) <= MaxAdded
    BY <1>1 DEF CommandsInv
  <2>2. s \in Seq(DocumentSet)
    BY <2>1
  <2>3. /\ Append(s, d) \in Seq(DocumentSet) /\ Len(Append(s, d)) = Len(s) + 1
        /\ Len(s) \in Nat /\ MaxAdded \in Nat
    BY <2>2, AppendProperties, LenProperties, DriverAssumption
  <2>4. documents' = added' /\ added' = [added EXCEPT ![c] = Append(s, d)]
    BY <1>2, <2>1
  <2>5. Len(Append(s, d)) <= MaxAdded
    BY <1>2, <2>3
  <2> HIDE DEF s
  <2>6. added' \in [Commands -> Seq(DocumentSet)]
    BY <2>1, <2>3, <2>4
  <2>7. \A b \in Commands : added'[b] = IF b = c THEN Append(s, d) ELSE added[b]
    BY <2>1, <2>4
  <2> QED
    BY <2>1, <2>4, <2>5, <2>6, <2>7 DEF CommandsInv
<1>4. MessageInv' /\ CallsInv'
  BY <1>1, <1>2 DEF MessageInv, CallsInv
<1>5. WayInv' /\ PeerInv'
  <2>1. UNCHANGED <<asked, executed, pc, toPeer, toCaller>>
    BY <1>2 DEF peerVars
  <2> QED
    BY <1>1, <1>2, <2>1, WayKept, PeerKept
<1> QED
  BY <1>3, <1>4, <1>5 DEF Inv

(* The documents of a command are those added to it, for every message.    *)
LEMMA ToMessageInv ==
  ASSUME Inv, NEW c \in Commands, ToMessage(c)
  PROVE  Inv'
<1>1. /\ CommandsInv /\ MessageInv /\ CallsInv /\ WayInv /\ PeerInv
  BY DEF Inv
<1>2. /\ message = NoMessage /\ made < MaxMessages /\ made' = made + 1
      /\ message' = MessageOf(P!OpMsgBytes(OpMsgOf(c, documents[c])))
      /\ meant' = OpMsgOf(c, added[c])
      /\ UNCHANGED <<documents, added, outcome, asked, refused>>
      /\ UNCHANGED peerVars /\ UNCHANGED <<toPeer, toCaller>>
  BY MessagesSame DEF ToMessage
<1>3. CommandsInv'
  BY <1>1, <1>2 DEF CommandsInv
<1>4. meant' \in Requests
  <2>1. added[c] \in Seq(DocumentSet) /\ Len(added[c]) <= MaxAdded /\ MaxAdded \in Nat
    BY <1>1, DriverAssumption DEF CommandsInv
  <2>2. added[c] \in SeqOf(DocumentSet, MaxAdded)
    BY <2>1, SeqOfType
  <2> QED
    BY <1>2, <2>2 DEF Requests
<1>5. MessageInv'
  BY <1>1, <1>2, <1>4 DEF MessageInv, CommandsInv
<1>6. meant = NoMessage
  <2> SUFFICES ASSUME meant \in Requests, message = MessageOf(P!OpMsgBytes(meant))
               PROVE  FALSE
    BY <1>1 DEF MessageInv
  <2>1. message # NoMessage
    BY RequestBytes, MessageOfType
  <2> QED
    BY <1>2, <2>1
<1>7. CallsInv'
  <2>1. /\ asked \in Seq(Short) /\ outcome \in Seq(Outcome) /\ Len(outcome) = Len(asked)
        /\ made \in Nat /\ Len(asked) + 0 <= made
        /\ \A n \in refused : n \in Nat /\ n >= Int32Range \div 2
    BY <1>1, <1>6 DEF CallsInv
  <2>2. Len(asked) \in Nat /\ MaxMessages \in Nat
    BY <2>1, LenProperties, DriverAssumption
  <2>3. /\ made + 1 \in Nat /\ made + 1 <= MaxMessages
        /\ \A n \in {0, 1} : Len(asked) + n <= made + 1
    BY <1>2, <2>1, <2>2
  <2>4. (IF meant' = NoMessage THEN 0 ELSE 1) \in {0, 1}
    OBVIOUS
  <2> QED
    BY <1>2, <2>1, <2>3, <2>4 DEF CallsInv
<1>8. WayInv' /\ PeerInv'
  <2>1. UNCHANGED <<asked, executed, pc, toPeer, toCaller>>
    BY <1>2 DEF peerVars
  <2> QED
    BY <1>1, <1>2, <2>1, WayKept, PeerKept
<1> QED
  BY <1>3, <1>5, <1>7, <1>8 DEF Inv

(* What a message consists of when write gives it its number. *)
LEMMA Numbered ==
  ASSUME Inv, message # NoMessage, NEW m, m = [message EXCEPT !.header.requestId = NextId]
  PROVE  /\ meant \in Requests
         /\ m.data.bytes = P!OpMsgBytes(meant) /\ m.data.size = Len(P!OpMsgBytes(meant))
         /\ IF LengthIsRight(m)
            THEN meant \in Short /\ m.header = RequestHeader(meant, NextId)
            ELSE /\ HeaderSize + m.data.size \in Nat
                 /\ HeaderSize + m.data.size >= Int32Range \div 2
<1> DEFINE d == P!OpMsgBytes(meant)
           y == Int32(HeaderSize + Int32(Len(d)))
           h == [NewHeader(y) EXCEPT !.requestId = NextId]
<1>1. meant \in Requests /\ message = MessageOf(d)
  BY DEF Inv, MessageInv
<1>2. d \in Seq(BsonByte) /\ Len(d) >= 4 /\ Len(d) \in Nat
  BY <1>1, RequestBytes
<1> HIDE DEF d
<1>3. /\ message \in MessageType
      /\ message.data.size = Len(d) /\ message.data.bytes = d
      /\ message.header = NewHeader(y) /\ message.header.messageLength = y
  BY <1>1, <1>2, MessageOfType
<1>4. /\ HeaderSize + Len(d) \in Nat
      /\ y = HeaderSize + Len(d) => HeaderSize + Len(d) <= MaxInt32
      /\ y # HeaderSize + Len(d) => HeaderSize + Len(d) >= Int32Range \div 2
  <2>1. HeaderSize + Len(d) \in Nat
    BY <1>2 DEF HeaderSize
  <2> QED
    BY <1>2, <2>1, WriteLength
<1>5. Size(meant) = HeaderSize + Len(d)
  BY DEF Size, d
<1> HIDE DEF y
<1>6. m.data = message.data /\ m.header = h /\ m.header.messageLength = y
  <2>1. m.data = message.data /\ m.header = [message.header EXCEPT !.requestId = NextId]
    BY <1>3 DEF MessageType
  <2>2. message.header \in MessageHeader
    BY <1>3 DEF MessageType
  <2> QED
    BY <1>3, <2>1, <2>2 DEF MessageHeader
<1>7. LengthIsRight(m) <=> (y = HeaderSize + Len(d))
  BY <1>3, <1>6 DEF LengthIsRight
<1>8. CASE LengthIsRight(m)
  <2>1. Size(meant) <= MaxInt32 /\ y = Size(meant)
    BY <1>4, <1>5, <1>7, <1>8
  <2> QED
    BY <1>1, <1>3, <1>6, <1>8, <2>1 DEF Short, RequestHeader, d
<1>9. CASE ~LengthIsRight(m)
  BY <1>1, <1>3, <1>4, <1>6, <1>7, <1>9 DEF d
<1> QED
  BY <1>8, <1>9

LEMMA WriteInv ==
  ASSUME Inv, Write
  PROVE  Inv'
<1> DEFINE d == P!OpMsgBytes(meant)
<1>1. /\ CommandsInv /\ MessageInv /\ CallsInv /\ WayInv /\ PeerInv
  BY DEF Inv
<1>2. PICK m : m = [message EXCEPT !.header.requestId = NextId]
  OBVIOUS
<1>3. /\ message # NoMessage /\ message' = NoMessage /\ meant' = NoMessage
      /\ IF LengthIsRight(m)
         THEN /\ toPeer' = Append(toPeer, Sent(m.header, m.data.bytes))
              /\ asked' = Append(asked, meant)
              /\ outcome' = Append(outcome, Pending)
              /\ refused' = refused
         ELSE /\ refused' = refused \cup {HeaderSize + m.data.size}
              /\ UNCHANGED <<toPeer, asked, outcome>>
      /\ UNCHANGED <<documents, added, made, toCaller>> /\ UNCHANGED peerVars
  BY <1>2 DEF Write
<1>4. /\ meant \in Requests /\ m.data.bytes = d /\ m.data.size = Len(d)
      /\ LengthIsRight(m) => meant \in Short /\ m.header = RequestHeader(meant, NextId)
      /\ ~LengthIsRight(m) => /\ HeaderSize + m.data.size \in Nat
                              /\ HeaderSize + m.data.size >= Int32Range \div 2
  BY <1>2, <1>3, Numbered
<1>5. CommandsInv' /\ MessageInv'
  BY <1>1, <1>3 DEF CommandsInv, MessageInv
<1>6. /\ asked \in Seq(Short) /\ outcome \in Seq(Outcome) /\ Len(outcome) = Len(asked)
      /\ made \in Nat /\ made <= MaxMessages /\ Len(asked) + 1 <= made
      /\ \A n \in refused : n \in Nat /\ n >= Int32Range \div 2
      /\ Len(asked) \in Nat
  <2>1. meant # NoMessage
    BY <1>4, RequestType
  <2>2. /\ asked \in Seq(Short) /\ outcome \in Seq(Outcome) /\ Len(outcome) = Len(asked)
        /\ made \in Nat /\ made <= MaxMessages /\ Len(asked) + 1 <= made
        /\ \A n \in refused : n \in Nat /\ n >= Int32Range \div 2
    BY <1>1, <2>1 DEF CallsInv
  <2> QED
    BY <2>2, LenProperties
<1>7. NextId \in Nat /\ NextId <= MaxInt32 /\ NextId = Len(asked) + 1
  <2>1. MaxInt32 \in Int
    BY SMT DEF MaxInt32
  <2>2. MaxMessages \in Nat /\ MaxMessages <= MaxInt32
    BY DriverAssumption
  <2> QED
    BY <1>6, <2>1, <2>2 DEF NextId
<1>8. CASE LengthIsRight(m)
  <2>1. /\ asked' = Append(asked, meant) /\ outcome' = Append(outcome, Pending)
        /\ refused' = refused /\ toPeer' = Append(toPeer, Sent(m.header, d))
        /\ meant \in Short /\ m.header = RequestHeader(meant, NextId)
    BY <1>3, <1>4, <1>8
  <2>2. /\ asked' \in Seq(Short) /\ Len(asked') = Len(asked) + 1
        /\ \A i \in 1 .. Len(asked) : asked'[i] = asked[i]
        /\ asked'[Len(asked) + 1] = meant
    BY <1>6, <2>1, AppendProperties
  <2>3. CallsInv'
    <3>1. Pending \in Outcome
      <4>1. <<>> \in Seq(BsonByte)
        OBVIOUS
      <4> QED
        BY <4>1 DEF Pending, Outcome
    <3>2. outcome' \in Seq(Outcome) /\ Len(outcome') = Len(outcome) + 1
      BY <1>6, <2>1, <3>1, AppendProperties
    <3>3. Len(asked') + 0 <= made
      BY <1>6, <2>2
    <3> QED
      BY <1>3, <1>6, <2>1, <2>2, <3>2, <3>3 DEF CallsInv
  <2>4. WayInv'
    <3> DEFINE p == Sent(m.header, d)
               n == Len(toPeer)
    <3>1. /\ executed \in Seq(Short) /\ Taken <= Len(asked)
          /\ \A i \in 1 .. Len(executed) : executed[i] = asked[i]
          /\ toPeer \in Seq(Packet) /\ Taken + n = Len(asked)
          /\ \A i \in 1 .. n :
               toPeer[i] = Sent(RequestHeader(asked[Taken + i], Taken + i),
                                P!OpMsgBytes(asked[Taken + i]))
          /\ toCaller \in Seq(Packet)
          /\ \A i \in 1 .. Len(toCaller) : \E k \in 1 .. Len(executed) :
               toCaller[i] = Sent(AnswerHeader(asked[k], k), P!OpMsgBytes(asked[k]))
      BY <1>1 DEF WayInv
    <3>2. Len(executed) \in Nat /\ n \in Nat /\ Taken \in Nat /\ Len(executed) <= Taken
      BY <3>1, LenProperties DEF Taken
    <3>3. executed' = executed /\ Taken' = Taken /\ toCaller' = toCaller
      BY <1>3 DEF peerVars, Taken
    <3>4. p \in Packet
      BY <1>4, <1>7, <2>1, RequestBytes, RequestHeaderType, SentType
    <3>5. /\ toPeer' \in Seq(Packet) /\ Len(toPeer') = n + 1
          /\ \A i \in 1 .. n : toPeer'[i] = toPeer[i]
          /\ toPeer'[n + 1] = p
      BY <2>1, <3>1, <3>4, AppendProperties
    <3> HIDE DEF n
    <3>6. ASSUME NEW i \in 1 .. n + 1
          PROVE  toPeer'[i] = Sent(RequestHeader(asked'[Taken + i], Taken + i),
                                   P!OpMsgBytes(asked'[Taken + i]))
      <4>1. CASE i = n + 1
        <5>1. Taken + i = Len(asked) + 1
          BY <1>6, <3>1, <3>2, <4>1
        <5> QED
          BY <1>7, <2>1, <2>2, <3>5, <4>1, <5>1
      <4>2. CASE i # n + 1
        <5>1. i \in 1 .. n /\ Taken + i \in 1 .. Len(asked)
          BY <1>6, <3>1, <3>2, <4>2
        <5> QED
          BY <2>2, <3>1, <3>5, <5>1
      <4> QED
        BY <4>1, <4>2
    <3>7. Taken <= Len(asked') /\ Taken + (n + 1) = Len(asked')
      BY <1>6, <2>2, <3>1, <3>2
    <3>8. \A k \in 1 .. Len(executed) : asked'[k] = asked[k]
      BY <1>6, <2>2, <3>1, <3>2
    <3> QED
      BY <3>1, <3>3, <3>5, <3>6, <3>7, <3>8 DEF WayInv
  <2>5. PeerInv'
    BY <1>1, <1>3, <2>1, PeerKept
  <2> QED
    BY <1>5, <2>3, <2>4, <2>5 DEF Inv
<1>9. CASE ~LengthIsRight(m)
  <2>1. /\ refused' = refused \cup {HeaderSize + m.data.size}
        /\ UNCHANGED <<toPeer, asked, outcome, toCaller>> /\ UNCHANGED peerVars
    BY <1>3, <1>9
  <2>2. CallsInv'
    <3>1. Len(asked) + 0 <= made
      BY <1>6
    <3>2. \A n \in refused' : n \in Nat /\ n >= Int32Range \div 2
      BY <1>4, <1>6, <1>9, <2>1
    <3> QED
      BY <1>3, <1>6, <2>1, <3>1, <3>2 DEF CallsInv
  <2>3. WayInv' /\ PeerInv'
    <3>1. UNCHANGED <<asked, executed, pc, toPeer, toCaller>>
      BY <2>1 DEF peerVars
    <3> QED
      BY <1>1, <2>1, <3>1, WayKept, PeerKept
  <2> QED
    BY <1>5, <2>2, <2>3 DEF Inv
<1> QED
  BY <1>8, <1>9

(* How a call ends. *)
LEMMA EndsInv ==
  ASSUME Inv, Waiting, NEW a \in Outcome, outcome' = [outcome EXCEPT ![Len(asked)] = a],
         UNCHANGED <<message, meant, asked, refused, made>>
  PROVE  CallsInv'
<1>1. outcome \in Seq(Outcome) /\ Len(outcome) = Len(asked)
  BY DEF Inv, CallsInv
<1>2. outcome' \in Seq(Outcome) /\ Len(outcome') = Len(outcome)
  <2> DEFINE n == Len(outcome)
  <2>1. n \in Nat /\ outcome \in [1 .. n -> Outcome]
    BY <1>1
  <2> HIDE DEF n
  <2>2. outcome' \in [1 .. n -> Outcome]
    BY <2>1
  <2> QED
    BY <2>1, <2>2 DEF n
<1> QED
  BY <1>1, <1>2 DEF Inv, CallsInv

LEMMA ReadInv ==
  ASSUME Inv, Read
  PROVE  Inv'
<1> DEFINE p == Head(toCaller)
<1>1. /\ CommandsInv /\ MessageInv /\ CallsInv /\ WayInv /\ PeerInv
  BY DEF Inv
<1>2. /\ Waiting /\ toCaller # <<>> /\ toCaller' = Tail(toCaller)
      /\ \/ outcome' = [outcome EXCEPT ![Len(asked)] = Answered(p.data)]
         \/ outcome' = outcome
      /\ UNCHANGED <<documents, message, added, meant, asked, refused, made, toPeer>>
      /\ UNCHANGED peerVars
  BY DEF Read
<1>3. /\ toCaller \in Seq(Packet)
      /\ \A i \in 1 .. Len(toCaller) : \E k \in 1 .. Len(executed) :
           toCaller[i] = Sent(AnswerHeader(asked[k], k), P!OpMsgBytes(asked[k]))
  BY <1>1 DEF WayInv
<1>4. /\ p \in Packet /\ toCaller' \in Seq(Packet) /\ Len(toCaller') = Len(toCaller) - 1
      /\ Len(toCaller) \in Nat
      /\ \A i \in 1 .. Len(toCaller) - 1 : toCaller'[i] = toCaller[i + 1]
  BY <1>2, <1>3, HeadTailProperties, LenProperties
<1>5. CommandsInv' /\ MessageInv'
  BY <1>1, <1>2 DEF CommandsInv, MessageInv
<1>6. CallsInv'
  <2>1. Answered(p.data) \in Outcome
    BY <1>4 DEF Packet, Answered, Outcome
  <2>2. CASE outcome' = outcome
    BY <1>1, <1>2, <2>2 DEF CallsInv
  <2> QED
    BY <1>2, <2>1, <2>2, EndsInv
<1>7. WayInv'
  <2>1. executed' = executed /\ Taken' = Taken
    BY <1>2 DEF peerVars, Taken
  <2>2. ASSUME NEW i \in 1 .. Len(toCaller')
        PROVE  \E k \in 1 .. Len(executed) :
                 toCaller'[i] = Sent(AnswerHeader(asked[k], k), P!OpMsgBytes(asked[k]))
    <3>1. i \in 1 .. Len(toCaller) - 1 /\ i + 1 \in 1 .. Len(toCaller)
      BY <1>4
    <3> QED
      BY <1>3, <1>4, <3>1
  <2> QED
    BY <1>1, <1>2, <1>4, <2>1, <2>2 DEF WayInv
<1>8. PeerInv'
  BY <1>1, <1>2, PeerKept
<1> QED
  BY <1>5, <1>6, <1>7, <1>8 DEF Inv

LEMMA GiveUpInv ==
  ASSUME Inv, GiveUp
  PROVE  Inv'
<1>1. /\ CommandsInv /\ MessageInv /\ CallsInv /\ WayInv /\ PeerInv
  BY DEF Inv
<1>2. /\ Waiting /\ outcome' = [outcome EXCEPT ![Len(asked)] = GivenUp]
      /\ UNCHANGED <<documents, message, added, meant, asked, refused, made, toPeer, toCaller>>
      /\ UNCHANGED peerVars
  BY DEF GiveUp
<1>3. CommandsInv' /\ MessageInv'
  BY <1>1, <1>2 DEF CommandsInv, MessageInv
<1>4. CallsInv'
  <2>1. GivenUp \in Outcome
    <3>1. <<>> \in Seq(BsonByte)
      OBVIOUS
    <3> QED
      BY <3>1 DEF GivenUp, Outcome
  <2> QED
    BY <1>2, <2>1, EndsInv
<1>5. WayInv' /\ PeerInv'
  <2>1. UNCHANGED <<asked, executed, pc, toPeer, toCaller>>
    BY <1>2 DEF peerVars
  <2> QED
    BY <1>1, <1>2, <2>1, WayKept, PeerKept
<1> QED
  BY <1>3, <1>4, <1>5 DEF Inv

-----------------------------------------------------------------------------
(* One lemma per action of the peer. *)

LEMMA CallerKept ==
  ASSUME Inv, UNCHANGED callerVars
  PROVE  CommandsInv' /\ MessageInv' /\ CallsInv'
<1>1. UNCHANGED <<documents, message, outcome, added, meant, asked, refused, made>>
  BY DEF callerVars
<1>2. CommandsInv /\ MessageInv /\ CallsInv
  BY DEF Inv
<1> QED
  BY <1>1, <1>2 DEF CommandsInv, MessageInv, CallsInv

LEMMA PeerReadsInv ==
  ASSUME Inv, PeerReads
  PROVE  Inv'
<1> DEFINE p == Head(toPeer)
<1>1. CallsInv /\ WayInv /\ PeerInv
  BY DEF Inv
<1>2. /\ pc = "idle" /\ toPeer # <<>> /\ toPeer' = Tail(toPeer)
      /\ serving' = HeaderOf(p.header) /\ caret' = Caret(p.data) /\ pc' = "flags"
      /\ UNCHANGED <<flags, sections, section, executed, toCaller>> /\ UNCHANGED callerVars
  BY DEF PeerReads
<1>3. /\ executed \in Seq(Short) /\ Taken <= Len(asked)
      /\ \A i \in 1 .. Len(executed) : executed[i] = asked[i]
      /\ toPeer \in Seq(Packet) /\ Taken + Len(toPeer) = Len(asked)
      /\ \A i \in 1 .. Len(toPeer) :
           toPeer[i] = Sent(RequestHeader(asked[Taken + i], Taken + i),
                            P!OpMsgBytes(asked[Taken + i]))
      /\ toCaller \in Seq(Packet)
      /\ \A i \in 1 .. Len(toCaller) : \E k \in 1 .. Len(executed) :
           toCaller[i] = Sent(AnswerHeader(asked[k], k), P!OpMsgBytes(asked[k]))
  BY <1>1 DEF WayInv
<1>4. /\ p = toPeer[1] /\ toPeer' \in Seq(Packet) /\ Len(toPeer') = Len(toPeer) - 1
      /\ Len(toPeer) \in Nat /\ Len(toPeer) >= 1
      /\ \A i \in 1 .. Len(toPeer) - 1 : toPeer'[i] = toPeer[i + 1]
  BY <1>2, <1>3, HeadTailProperties, LenProperties, EmptySeq
<1>5. /\ Taken = Len(executed) /\ Taken' = Taken + 1 /\ Taken \in Nat /\ asked' = asked
      /\ executed' = executed /\ toCaller' = toCaller
  BY <1>2, <1>3, LenProperties DEF Taken, callerVars
<1>6. asked \in Seq(Short) /\ Len(asked) \in Nat /\ Len(asked) <= MaxInt32
  <2>1. MaxInt32 \in Int
    BY SMT DEF MaxInt32
  <2>2. /\ asked \in Seq(Short) /\ made \in Nat /\ made <= MaxMessages
        /\ Len(asked) + (IF meant = NoMessage THEN 0 ELSE 1) <= made
    BY <1>1 DEF CallsInv
  <2>3. Len(asked) \in Nat /\ MaxMessages \in Nat /\ MaxMessages <= MaxInt32
    BY <2>2, LenProperties, DriverAssumption
  <2>4. Len(asked) <= made
    BY <2>2, <2>3
  <2> QED
    BY <2>1, <2>2, <2>3, <2>4
<1> DEFINE n == Len(toPeer)
           t == Taken
<1>7. WayInv'
  <2> HIDE DEF n, t
  <2>1. t + 1 <= Len(asked) /\ (t + 1) + (n - 1) = Len(asked)
    BY <1>3, <1>4, <1>5, <1>6 DEF n, t
  <2>2. ASSUME NEW i \in 1 .. n - 1
        PROVE  toPeer'[i] = Sent(RequestHeader(asked[(t + 1) + i], (t + 1) + i),
                                 P!OpMsgBytes(asked[(t + 1) + i]))
    <3>1. i + 1 \in 1 .. n /\ t + (i + 1) = (t + 1) + i
      BY <1>4, <1>5 DEF n, t
    <3>2. toPeer[i + 1] = Sent(RequestHeader(asked[t + (i + 1)], t + (i + 1)),
                               P!OpMsgBytes(asked[t + (i + 1)]))
      BY <1>3, <3>1 DEF n, t
    <3>3. toPeer'[i] = toPeer[i + 1]
      BY <1>4 DEF n
    <3> QED
      BY <3>1, <3>2, <3>3
  <2> QED
    BY <1>3, <1>4, <1>5, <2>1, <2>2 DEF WayInv, n, t
<1>8. PeerInv'
  <2>1. PICK k, q : k = Len(executed) + 1 /\ q = asked[k]
    OBVIOUS
  <2>2. /\ k = Taken + 1 /\ k \in 1 .. Len(asked) /\ 1 \in 1 .. Len(toPeer)
        /\ k \in Nat /\ k <= MaxInt32
    <3>1. MaxInt32 \in Int
      BY SMT DEF MaxInt32
    <3>2. k = Taken + 1 /\ Taken + 1 <= Len(asked)
      BY <1>3, <1>4, <1>5, <1>6, <2>1
    <3> QED
      BY <1>4, <1>5, <1>6, <3>1, <3>2
  <2>3. q \in Short
    BY <1>6, <2>1, <2>2, ElementOfSeq
  <2>4. /\ RequestHeader(q, k) \in MessageHeader
        /\ q \in Requests /\ P!OpMsgBytes(q) \in Seq(BsonByte)
        /\ Len(P!OpMsgBytes(q)) \in Nat
    BY <2>2, <2>3, RequestHeaderType, RequestBytes, ShortIsMessage
  <2>5. p = Sent(RequestHeader(q, k), P!OpMsgBytes(q))
    BY <1>3, <1>4, <2>1, <2>2
  <2>6. serving' = RequestHeader(q, k) /\ caret' = Caret(P!OpMsgBytes(q))
    BY <1>2, <2>4, <2>5, SentType
  <2>7. flags' = NoFlags /\ sections' = <<>> /\ section' = P!NoSection
    BY <1>1, <1>2 DEF PeerInv
  <2>8. P!Inv'
    <3> DEFINE d == P!OpMsgBytes(q)
    <3>1. caret' = [data |-> d, pos |-> 0, error |-> FALSE]
      BY <2>6 DEF Caret
    <3> HIDE DEF d
    <3>2. d \in Seq(P!BsonByte) /\ Len(d) \in Nat
      BY <2>4, BytesSame DEF d
    <3>3. caret' \in [data : Seq(P!BsonByte), pos : Nat, error : BOOLEAN]
          /\ caret'.pos <= Len(caret'.data)
      BY <3>1, <3>2
    <3>4. section' \in [section : P!SequenceType, size : Int, progress : Nat]
      BY <2>7, ParserAssumptions, P!NoSectionType
    <3>5. flags' \in P!Flags
      BY <2>7 DEF NoFlags, P!Flags
    <3>6. sections' \in Seq(P!BodyType \cup P!SequenceType) /\ DOMAIN sections' = {}
      BY <2>7
    <3> QED
      BY <1>2, <2>7, <3>3, <3>4, <3>5, <3>6 DEF P!Inv, P!TypeOK, P!DataSize
  <2>9. P!ReadSoFar(q)' /\ caret'.data = P!OpMsgBytes(q)
    BY <1>2, <2>6 DEF P!ReadSoFar, Caret
  <2>10. Parses(q, k)'
    BY <2>6, <2>8, <2>9 DEF Parses
  <2>11. asked'[Len(executed') + 1] = q /\ Len(executed') + 1 = k
    BY <1>5, <2>1
  <2> QED
    BY <1>2, <2>10, <2>11 DEF PeerInv
<1> QED
  BY <1>2, <1>7, <1>8, CallerKept DEF Inv

(* What the peer is at while it parses. *)
LEMMA Serves ==
  ASSUME Inv, pc # "idle"
  PROVE  /\ Len(executed) \in Nat /\ Len(executed) + 1 \in 1 .. Len(asked)
         /\ asked[Len(executed) + 1] \in Short
         /\ Len(executed) + 1 <= MaxInt32
         /\ Parses(asked[Len(executed) + 1], Len(executed) + 1)
<1>1. /\ asked \in Seq(Short) /\ made \in Nat /\ made <= MaxMessages
      /\ Len(asked) + (IF meant = NoMessage THEN 0 ELSE 1) <= made
  BY DEF Inv, CallsInv
<1>2. executed \in Seq(Short) /\ Len(executed) + 1 <= Len(asked)
  BY DEF Inv, WayInv, Taken
<1>3. /\ Len(asked) \in Nat /\ Len(executed) \in Nat
      /\ MaxMessages \in Nat /\ MaxMessages <= MaxInt32
  BY <1>1, <1>2, LenProperties, DriverAssumption
<1>4. MaxInt32 \in Int
  BY SMT DEF MaxInt32
<1>5. Len(asked) <= made
  BY <1>1, <1>3
<1>6. Len(executed) + 1 \in 1 .. Len(asked) /\ Len(executed) + 1 <= MaxInt32
  BY <1>1, <1>2, <1>3, <1>4, <1>5
<1>7. asked[Len(executed) + 1] \in Short
  BY <1>1, <1>6, ElementOfSeq
<1>8. Parses(asked[Len(executed) + 1], Len(executed) + 1)
  BY DEF Inv, PeerInv
<1> QED
  BY <1>3, <1>6, <1>7, <1>8

LEMMA PeerParsesInv ==
  ASSUME Inv, PeerParses
  PROVE  Inv'
<1>1. /\ Parser!Step /\ UNCHANGED <<serving, executed, toPeer, toCaller>>
      /\ UNCHANGED callerVars
  BY DEF PeerParses
<1>2. P!Step
  BY <1>1, StepSame
<1>3. pc # "idle"
  BY <1>2 DEF P!Step, P!ReadFlags, P!ReadBody, P!OpenSequence, P!ReadDocument,
     P!CloseSequence, P!UnknownSection, P!EndOfMessage, P!AtSection
<1>4. PICK k, q : k = Len(executed) + 1 /\ q = asked[k]
  OBVIOUS
<1>5. Parses(q, k) /\ q \in Short
  BY <1>3, <1>4, Serves
<1>6. P!IsMessage(q)
  BY <1>5, ShortIsMessage
<1>7. P!Inv /\ P!ReadSoFar(q) /\ caret.data = P!OpMsgBytes(q) /\ serving = RequestHeader(q, k)
  BY <1>5 DEF Parses
<1>8. P!Inv' /\ caret'.data = caret.data
  BY <1>1, <1>7, ParserKeeps
<1>9. P!ReadSoFar(q)'
  BY <1>1, <1>6, <1>7, ParserReadsOn
<1>10. pc' # "idle"
  BY <1>8 DEF P!Inv, P!TypeOK
<1>11. Parses(q, k)'
  BY <1>1, <1>7, <1>8, <1>9 DEF Parses
<1>12. asked' = asked /\ executed' = executed
  BY <1>1 DEF callerVars
<1>13. PeerInv'
  BY <1>4, <1>10, <1>11, <1>12 DEF PeerInv
<1>14. WayInv'
  <2>1. Taken' = Taken
    BY <1>3, <1>10, <1>12 DEF Taken
  <2> QED
    BY <1>1, <1>12, <2>1 DEF Inv, WayInv
<1> QED
  BY <1>1, <1>13, <1>14, CallerKept DEF Inv

(* What the peer executes is the request it was sent.                      *)
LEMMA Executes ==
  ASSUME Inv, PeerAnswers
  PROVE  LET q == asked[Len(executed) + 1]
             k == Len(executed) + 1
         IN
         /\ pc = "parsed" /\ executed' = Append(executed, q)
         /\ toCaller' = Append(toCaller, Sent(AnswerHeader(q, k), P!OpMsgBytes(q)))
<1> DEFINE k == Len(executed) + 1
           q == asked[k]
           request == [flags |-> flags, sections |-> sections]
           answer  == Reply(request)
           header  == [ NewHeader(HeaderSize + Len(answer)) EXCEPT
                          !.requestId  = -1 - Len(executed),
                          !.responseTo = serving.requestId ]
<1>1. /\ pc = "parsed" /\ executed' = Append(executed, request)
      /\ toCaller' = Append(toCaller, Sent(header, answer))
  BY DEF PeerAnswers
<1>2. /\ Parses(q, k) /\ q \in Short /\ Len(executed) \in Nat /\ k <= MaxInt32 /\ k \in Nat
  BY <1>1, Serves
<1>3. P!IsMessage(q)
  BY <1>2, ShortIsMessage
<1>4. /\ P!Inv /\ P!ReadSoFar(q) /\ caret.data = P!OpMsgBytes(q)
      /\ serving = RequestHeader(q, k)
  BY <1>2 DEF Parses
<1> HIDE DEF q, k
<1>5. q = request
  BY <1>1, <1>3, <1>4, ParserAssumptions, P!ReadAsWritten
<1>6. serving.requestId = k
  BY <1>2, <1>4, RequestHeaderType
<1>7. answer = P!OpMsgBytes(q)
  BY <1>5, MessagesSame DEF Reply
<1>8. -1 - Len(executed) = -k
  BY <1>2 DEF k
<1>9. header = AnswerHeader(q, k)
  BY <1>6, <1>7, <1>8 DEF AnswerHeader, Size
<1> HIDE DEF request, answer, header
<1> QED
  BY <1>1, <1>5, <1>7, <1>9 DEF q, k

LEMMA PeerAnswersInv ==
  ASSUME Inv, PeerAnswers
  PROVE  Inv'
<1> DEFINE n == Len(executed)
           q == asked[n + 1]
           p == Sent(AnswerHeader(q, n + 1), P!OpMsgBytes(q))
<1>1. /\ pc = "parsed" /\ executed' = Append(executed, q) /\ toCaller' = Append(toCaller, p)
  BY Executes
<1>2. /\ serving' = NoHeader /\ caret' = Caret(<<>>) /\ flags' = NoFlags
      /\ sections' = <<>> /\ section' = Parser!NoSection /\ pc' = "idle"
      /\ toPeer' = toPeer /\ UNCHANGED callerVars
  BY DEF PeerAnswers
<1>3. asked' = asked
  BY <1>2 DEF callerVars
<1>4. /\ n \in Nat /\ n + 1 \in 1 .. Len(asked) /\ q \in Short /\ n + 1 <= MaxInt32
  BY <1>1, Serves
<1>5. p \in Packet
  <2>1. AnswerHeader(q, n + 1) \in MessageHeader
    BY <1>4, RequestHeaderType
  <2>2. P!OpMsgBytes(q) \in Seq(BsonByte)
    BY <1>4, ShortIsMessage, RequestBytes
  <2> QED
    BY <2>1, <2>2, SentType
<1>6. /\ executed \in Seq(Short)
      /\ \A i \in 1 .. n : executed[i] = asked[i]
      /\ Taken <= Len(asked) /\ Taken + Len(toPeer) = Len(asked)
      /\ toPeer \in Seq(Packet)
      /\ \A i \in 1 .. Len(toPeer) :
           toPeer[i] = Sent(RequestHeader(asked[Taken + i], Taken + i),
                            P!OpMsgBytes(asked[Taken + i]))
      /\ toCaller \in Seq(Packet)
      /\ \A i \in 1 .. Len(toCaller) : \E k \in 1 .. n :
           toCaller[i] = Sent(AnswerHeader(asked[k], k), P!OpMsgBytes(asked[k]))
  BY DEF Inv, WayInv
<1>7. /\ executed' \in Seq(Short) /\ Len(executed') = n + 1
      /\ \A i \in 1 .. n : executed'[i] = executed[i]
      /\ executed'[n + 1] = q
  BY <1>1, <1>4, <1>6, AppendProperties
<1>8. /\ toCaller' \in Seq(Packet) /\ Len(toCaller') = Len(toCaller) + 1
      /\ \A i \in 1 .. Len(toCaller) : toCaller'[i] = toCaller[i]
      /\ toCaller'[Len(toCaller) + 1] = p /\ Len(toCaller) \in Nat
  BY <1>1, <1>5, <1>6, AppendProperties, LenProperties
<1>9. Taken' = Taken
  BY <1>1, <1>2, <1>7 DEF Taken
<1>10. \A i \in 1 .. n + 1 : executed'[i] = asked[i]
  <2> SUFFICES ASSUME NEW i \in 1 .. n + 1
               PROVE  executed'[i] = asked[i]
    OBVIOUS
  <2>1. i = n + 1 \/ i \in 1 .. n
    BY <1>4
  <2> QED
    BY <1>6, <1>7, <2>1
<1>11. ASSUME NEW i \in 1 .. Len(toCaller')
       PROVE  \E k \in 1 .. n + 1 :
                toCaller'[i] = Sent(AnswerHeader(asked[k], k), P!OpMsgBytes(asked[k]))
  <2>1. CASE i = Len(toCaller) + 1
    <3>1. n + 1 \in 1 .. n + 1
      BY <1>4
    <3> QED
      BY <1>8, <2>1, <3>1
  <2>2. CASE i # Len(toCaller) + 1
    <3>1. i \in 1 .. Len(toCaller)
      BY <1>8, <2>2
    <3>2. PICK k \in 1 .. n :
            toCaller[i] = Sent(AnswerHeader(asked[k], k), P!OpMsgBytes(asked[k]))
      BY <1>6, <3>1
    <3>3. k \in 1 .. n + 1
      BY <1>4
    <3> QED
      BY <1>8, <3>1, <3>2, <3>3
  <2> QED
    BY <2>1, <2>2
<1>12. WayInv'
  BY <1>2, <1>3, <1>6, <1>7, <1>8, <1>9, <1>10, <1>11 DEF WayInv
<1>13. PeerInv'
  BY <1>2, SectionsSame DEF PeerInv
<1> QED
  BY <1>2, <1>12, <1>13, CallerKept DEF Inv

-----------------------------------------------------------------------------
LEMMA NextInv ==
  ASSUME Inv, [Next]_vars
  PROVE  Inv'
<1>1. CASE UNCHANGED vars
  <2>1. /\ UNCHANGED callerVars /\ UNCHANGED peerVars /\ UNCHANGED <<toPeer, toCaller>>
    BY <1>1 DEF vars
  <2>2. UNCHANGED <<asked, executed, pc, toPeer, toCaller>>
    BY <2>1 DEF callerVars, peerVars
  <2> QED
    BY <2>1, <2>2, CallerKept, WayKept, PeerKept DEF Inv
<1>2. CASE Next
  <2>1. ASSUME NEW c \in Commands, NEW d \in DocumentSet, AddDocument(c, d)
        PROVE  Inv'
    BY <2>1, AddDocumentInv
  <2>2. ASSUME NEW c \in Commands, ToMessage(c)
        PROVE  Inv'
    BY <2>2, ToMessageInv
  <2>3. CASE Write
    BY <2>3, WriteInv
  <2>4. CASE Read
    BY <2>4, ReadInv
  <2>5. CASE GiveUp
    BY <2>5, GiveUpInv
  <2>6. CASE PeerReads
    BY <2>6, PeerReadsInv
  <2>7. CASE PeerParses
    BY <2>7, PeerParsesInv
  <2>8. CASE PeerAnswers
    BY <2>8, PeerAnswersInv
  <2> QED
    BY <1>2, <2>1, <2>2, <2>3, <2>4, <2>5, <2>6, <2>7, <2>8 DEF Next
<1> QED
  BY <1>1, <1>2

-----------------------------------------------------------------------------
(* What the invariant says of the properties. *)

LEMMA HeadersDiffer ==
  ASSUME NEW r \in Short, NEW k \in Nat \ {0}, k <= MaxInt32
  PROVE  RequestHeader(r, k) \in MessageHeader /\ RequestHeader(r, k) # NoHeader
<1>1. RequestHeader(r, k) \in MessageHeader /\ RequestHeader(r, k).requestId = k
  BY RequestHeaderType
<1>2. NoHeader.requestId = 0
  BY DEF NoHeader, NewHeader
<1> QED
  BY <1>1, <1>2

LEMMA InvType == Inv => TypeOK
<1> SUFFICES ASSUME Inv
             PROVE  TypeOK
  OBVIOUS
<1>1. NoHeader \in MessageHeader /\ NoMessage \in MessageType
  <2>1. 0 \in AnyInt32
    <3>1. 0 \in Int /\ -MaxInt32 <= 0 /\ 0 <= MaxInt32
      BY SMT DEF MaxInt32
    <3> QED
      BY <3>1, SmallAny
  <2>2. NewHeader(0) \in MessageHeader
    BY <2>1, HeaderType
  <2>3. <<>> \in Seq(BsonByte) /\ Len(<<>>) \in Int
    OBVIOUS
  <2> QED
    BY <2>2, <2>3 DEF NoHeader, NoMessage, Message, Buffer, MessageType, BufferType
<1>2. documents \in [Commands -> Seq(DocumentSet)]
  BY DEF Inv, CommandsInv
<1>3. /\ message \in MessageType /\ meant \in Request \cup {NoMessage}
      /\ (meant = NoMessage <=> message = NoMessage)
  <2>1. CASE meant \in Requests /\ message = MessageOf(P!OpMsgBytes(meant))
    BY <2>1, RequestType, RequestBytes, MessageOfType
  <2>2. CASE meant = NoMessage /\ message = NoMessage
    BY <1>1, <2>2
  <2> QED
    BY <2>1, <2>2 DEF Inv, MessageInv
<1>4. /\ outcome \in Seq(Outcome) /\ Len(outcome) = Len(asked) /\ asked \in Seq(Short)
      /\ \A n \in refused : n \in Nat
  BY DEF Inv, CallsInv
<1>5. executed \in Seq(Short) /\ toPeer \in Seq(Packet) /\ toCaller \in Seq(Packet)
  BY DEF Inv, WayInv
<1>6. asked \in Seq(Request) /\ executed \in Seq(Request)
  <2>1. Short \subseteq Request
    BY RequestType DEF Short
  <2> QED
    BY <1>4, <1>5, <2>1
<1>7. /\ serving \in MessageHeader /\ (serving = NoHeader <=> pc = "idle")
      /\ pc = "idle" \/ Parser!TypeOK
  <2>1. CASE pc = "idle"
    BY <1>1, <2>1 DEF Inv, PeerInv
  <2>2. CASE pc # "idle"
    <3> DEFINE k == Len(executed) + 1
               q == asked[k]
    <3>1. k \in Nat \ {0} /\ q \in Short /\ k <= MaxInt32 /\ Parses(q, k)
      BY <2>2, Serves
    <3> HIDE DEF k, q
    <3>2. serving = RequestHeader(q, k) /\ P!TypeOK
      BY <3>1 DEF Parses, P!Inv
    <3> QED
      BY <2>2, <3>1, <3>2, HeadersDiffer, TypeSame
  <2> QED
    BY <2>1, <2>2
<1> QED
  BY <1>2, <1>3, <1>4, <1>5, <1>6, <1>7 DEF TypeOK

LEMMA InvFits == Inv => LengthsFit
<1> SUFFICES ASSUME Inv
             PROVE  LengthsFit
  OBVIOUS
<1>1. ASSUME NEW i \in DOMAIN toPeer
      PROVE  HeaderOf(toPeer[i].header).messageLength = HeaderSize + Len(toPeer[i].data)
  <2> DEFINE k == Taken + i
             q == asked[k]
  <2>1. /\ executed \in Seq(Short) /\ toPeer \in Seq(Packet) /\ Taken + Len(toPeer) = Len(asked)
        /\ \A j \in 1 .. Len(toPeer) :
             toPeer[j] = Sent(RequestHeader(asked[Taken + j], Taken + j),
                              P!OpMsgBytes(asked[Taken + j]))
    BY DEF Inv, WayInv
  <2>2. Taken \in Nat /\ Len(toPeer) \in Nat /\ i \in 1 .. Len(toPeer)
    BY <2>1, LenProperties DEF Taken
  <2>3. k \in 1 .. Len(asked) /\ Len(asked) \in Nat
    BY <2>1, <2>2
  <2>4. q \in Short /\ k <= MaxInt32 /\ k \in Nat
    <3>1. /\ asked \in Seq(Short) /\ made \in Nat /\ made <= MaxMessages
          /\ Len(asked) + (IF meant = NoMessage THEN 0 ELSE 1) <= made
      BY DEF Inv, CallsInv
    <3>2. MaxInt32 \in Int
      BY SMT DEF MaxInt32
    <3>3. MaxMessages \in Nat /\ MaxMessages <= MaxInt32
      BY DriverAssumption
    <3>4. Len(asked) <= made
      BY <2>3, <3>1
    <3> HIDE DEF k
    <3>5. q \in Short
      BY <2>3, <3>1, ElementOfSeq
    <3>6. k \in Nat /\ k <= Len(asked)
      BY <2>3
    <3> QED
      BY <2>3, <3>1, <3>2, <3>3, <3>4, <3>5, <3>6
  <2>5. toPeer[i] = Sent(RequestHeader(q, k), P!OpMsgBytes(q))
    BY <2>1, <2>2
  <2> HIDE DEF q, k
  <2>6. /\ RequestHeader(q, k) \in MessageHeader
        /\ RequestHeader(q, k).messageLength = Size(q)
        /\ P!OpMsgBytes(q) \in Seq(BsonByte)
    BY <2>4, RequestHeaderType, ShortIsMessage, RequestBytes
  <2>7. HeaderOf(toPeer[i].header) = RequestHeader(q, k) /\ toPeer[i].data = P!OpMsgBytes(q)
    BY <2>5, <2>6, SentType
  <2> QED
    BY <2>6, <2>7 DEF Size
<1>2. \A n \in refused : n >= Int32Range \div 2
  BY DEF Inv, CallsInv
<1> QED
  BY <1>1, <1>2 DEF LengthsFit

(* Whatever the commands, the documents and the bounds are, every variable *)
(* of the commands, the caller and the peer keeps its type: what the peer  *)
(* has in its hands while it parses is what it parses.                     *)
THEOREM TypeCorrect == Spec => []TypeOK
BY InitInv, NextInv, InvType, PTL DEF Spec

(* What write lets pass says how long it is although the length has been   *)
(* computed in int32, and what it refuses is longer than an int32 can say. *)
THEOREM AllLengthsFit == Spec => []LengthsFit
BY InitInv, NextInv, InvFits, PTL DEF Spec

-----------------------------------------------------------------------------
(* The commands implement the calls: a step of theirs is one of the calls' *)
(* or leaves the calls as they are.                                        *)

LEMMA ServiceSame ==
  /\ Service!Pending = Pending /\ Service!GivenUp = GivenUp
  /\ \A by : Service!Answered(by) = Answered(by)
  /\ Service!Waiting <=> Waiting
BY DEF Service!Pending, Pending, Service!GivenUp, GivenUp, Service!Answered, Answered,
   Service!Waiting, Waiting

LEMMA InitServes == Init => Service!Init
BY DEF Init, Service!Init

LEMMA WriteServes ==
  ASSUME Inv, Write
  PROVE  [Service!Next]_Service!vars
<1>1. PICK m : m = [message EXCEPT !.header.requestId = NextId]
  OBVIOUS
<1>2. /\ message # NoMessage /\ ~Waiting /\ executed' = executed
      /\ IF LengthIsRight(m)
         THEN asked' = Append(asked, meant) /\ outcome' = Append(outcome, Pending)
         ELSE UNCHANGED <<asked, outcome>>
  BY <1>1 DEF Write, peerVars
<1>3. meant \in Requests
  BY <1>1, <1>2, Numbered
<1>4. CASE LengthIsRight(m)
  <2>1. \E r \in Requests : asked' = Append(asked, r)
    BY <1>2, <1>3, <1>4
  <2>2. Service!Ask
    BY <1>2, <1>4, <2>1, ServiceSame DEF Service!Ask, Requests
  <2> QED
    BY <2>2 DEF Service!Next
<1>5. CASE ~LengthIsRight(m)
  BY <1>2, <1>5 DEF Service!vars
<1> QED
  BY <1>4, <1>5

(* An answer with the number of the last request is the answer to it.      *)
LEMMA ReadServes ==
  ASSUME Inv, Read
  PROVE  [Service!Next]_Service!vars
<1> DEFINE p == Head(toCaller)
           n == Len(asked)
<1>1. /\ Waiting /\ toCaller # <<>> /\ asked' = asked /\ executed' = executed
      /\ outcome' = IF HeaderOf(p.header).responseTo = n
                    THEN [outcome EXCEPT ![n] = Answered(p.data)]
                    ELSE outcome
  BY DEF Read, peerVars
<1>2. CASE HeaderOf(p.header).responseTo # n
  BY <1>1, <1>2 DEF Service!vars
<1>3. CASE HeaderOf(p.header).responseTo = n
  <2>1. /\ executed \in Seq(Short) /\ Taken <= Len(asked) /\ toCaller \in Seq(Packet)
        /\ \A i \in 1 .. Len(toCaller) : \E k \in 1 .. Len(executed) :
             toCaller[i] = Sent(AnswerHeader(asked[k], k), P!OpMsgBytes(asked[k]))
        /\ asked \in Seq(Short) /\ made \in Nat /\ made <= MaxMessages
        /\ Len(asked) + (IF meant = NoMessage THEN 0 ELSE 1) <= made
    BY DEF Inv, WayInv, CallsInv
  <2>2. /\ p = toCaller[1] /\ 1 \in 1 .. Len(toCaller)
        /\ Len(executed) \in Nat /\ n \in Nat /\ Len(executed) <= n
    BY <1>1, <2>1, HeadTailProperties, LenProperties, EmptySeq DEF Taken
  <2>3. PICK k \in 1 .. Len(executed) :
          p = Sent(AnswerHeader(asked[k], k), P!OpMsgBytes(asked[k]))
    BY <2>1, <2>2
  <2>4. n <= MaxInt32
    <3>1. MaxInt32 \in Int
      BY SMT DEF MaxInt32
    <3>2. MaxMessages \in Nat /\ MaxMessages <= MaxInt32
      BY DriverAssumption
    <3>3. n <= made
      BY <2>1, <2>2
    <3> QED
      BY <2>1, <2>2, <3>1, <3>2, <3>3
  <2>5. k \in Nat /\ k <= MaxInt32 /\ k \in 1 .. n
    <3>1. MaxInt32 \in Int
      BY SMT DEF MaxInt32
    <3> QED
      BY <2>2, <2>4, <3>1
  <2>6. asked[k] \in Short
    BY <2>1, <2>5, ElementOfSeq
  <2>7. /\ AnswerHeader(asked[k], k) \in MessageHeader
        /\ AnswerHeader(asked[k], k).responseTo = k
        /\ P!OpMsgBytes(asked[k]) \in Seq(BsonByte)
    BY <2>5, <2>6, RequestHeaderType, ShortIsMessage, RequestBytes
  <2>8. /\ HeaderOf(p.header) = AnswerHeader(asked[k], k)
        /\ p.data = P!OpMsgBytes(asked[k])
    BY <2>3, <2>7, SentType
  <2>9. k = n /\ Len(executed) = n
    BY <1>3, <2>2, <2>7, <2>8
  <2>10. p.data = Reply(asked[n])
    BY <2>8, <2>9, MessagesSame DEF Reply
  <2>11. Service!End
    BY <1>1, <1>3, <2>9, <2>10, ServiceSame DEF Service!End
  <2> QED
    BY <2>11 DEF Service!Next
<1> QED
  BY <1>2, <1>3

LEMMA GiveUpServes ==
  ASSUME GiveUp
  PROVE  [Service!Next]_Service!vars
<1>1. /\ Waiting /\ outcome' = [outcome EXCEPT ![Len(asked)] = GivenUp]
      /\ UNCHANGED <<asked, executed>>
  BY DEF GiveUp, peerVars
<1>2. Service!End
  BY <1>1, ServiceSame DEF Service!End
<1> QED
  BY <1>2 DEF Service!Next

LEMMA PeerAnswersServes ==
  ASSUME Inv, PeerAnswers
  PROVE  [Service!Next]_Service!vars
<1>1. /\ pc = "parsed" /\ executed' = Append(executed, asked[Len(executed) + 1])
      /\ UNCHANGED <<asked, outcome>>
  BY Executes DEF PeerAnswers, callerVars
<1>2. Len(executed) \in Nat /\ Len(executed) + 1 \in 1 .. Len(asked) /\ asked \in Seq(Short)
  BY <1>1, Serves DEF Inv, CallsInv
<1>3. Len(executed) < Len(asked)
  BY <1>2
<1>4. Service!Execute
  BY <1>1, <1>3 DEF Service!Execute
<1> QED
  BY <1>4 DEF Service!Next

LEMMA NextServes ==
  ASSUME Inv, [Next]_vars
  PROVE  [Service!Next]_Service!vars
<1>1. ASSUME UNCHANGED <<asked, executed, outcome>>
      PROVE  [Service!Next]_Service!vars
  BY <1>1 DEF Service!vars
<1>2. CASE UNCHANGED vars
  BY <1>1, <1>2 DEF vars, callerVars, peerVars
<1>3. CASE Next
  <2>1. ASSUME NEW c \in Commands, NEW d \in DocumentSet, AddDocument(c, d)
        PROVE  [Service!Next]_Service!vars
    BY <1>1, <2>1 DEF AddDocument, peerVars
  <2>2. ASSUME NEW c \in Commands, ToMessage(c)
        PROVE  [Service!Next]_Service!vars
    BY <1>1, <2>2 DEF ToMessage, peerVars
  <2>3. CASE PeerReads
    BY <1>1, <2>3 DEF PeerReads, callerVars
  <2>4. CASE PeerParses
    BY <1>1, <2>4 DEF PeerParses, callerVars
  <2> QED
    BY <1>3, <2>1, <2>2, <2>3, <2>4, WriteServes, ReadServes, GiveUpServes,
       PeerAnswersServes DEF Next
<1> QED
  BY <1>2, <1>3

(* Whatever documents are added to whatever commands, before, between and  *)
(* after their messages are made, whichever calls are given up and however *)
(* late their answers come: the peer executes the requests toMessage was   *)
(* called for, in order and once each, and a call that ends with an answer *)
(* has the answer to its own request.  That every call ends is left to TLC.*)
THEOREM Implements == Spec => Service!Spec
BY InitInv, NextInv, InitServes, NextServes, PTL DEF Spec, Service!Spec
=============================================================================
