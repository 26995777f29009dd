----------------------------- MODULE OpMsgProofs -----------------------------
(***************************************************************************)
(* Proofs about the parser of OpMsg, for any set of byte strings as Data.  *)
(***************************************************************************)
EXTENDS OpMsg, DataLemmas

-----------------------------------------------------------------------------
(* Size fields. *)

LEMMA FitsLeft ==
  ASSUME NEW c, Within(c), Fits(ReadInt32(c))
  PROVE  /\ ReadInt32(c).value \in Nat /\ ReadInt32(c).value >= 5
         /\ ReadInt32(c).value <= Left(c)
         /\ Within(Behind(ReadInt32(c))) /\ Behind(ReadInt32(c)).error = c.error
         /\ Behind(ReadInt32(c)).data = c.data
<1> DEFINE r == ReadInt32(c)
<1>1. r.value \in Int /\ r.value >= 5 /\ r.value - 4 <= Left(r.caret)
  BY ReadInt32Type DEF Fits
<1>2. Left(c) >= 4 /\ r.caret = Inc(c, 4) /\ Left(r.caret) = Left(c) - 4
  <2>1. Left(c) < 4 => r.value = 0
    BY ReadInt32Type
  <2> QED
    BY <1>1, <2>1, ReadInt32Type, LeftType
<1>3. /\ Within(r.caret) /\ r.caret.error = c.error /\ r.caret.data = c.data
  BY <1>2, IncType, LeftType
<1>4. r.value - 4 \in Nat
  BY <1>1
<1>5. /\ Within(Inc(r.caret, r.value - 4))
      /\ Inc(r.caret, r.value - 4).error = c.error
      /\ Inc(r.caret, r.value - 4).data = c.data
  BY <1>1, <1>3, <1>4, IncType
<1> HIDE DEF r
<1>6. Behind(r) = Inc(r.caret, r.value - 4)
  BY DEF Behind
<1>7. r.value <= Left(c)
  BY <1>1, <1>2, LeftType
<1> QED
  BY <1>1, <1>5, <1>6, <1>7 DEF r

(* A document cut out of the data where its size field says is one whose   *)
(* own size field says its length. *)
LEMMA CutCounts ==
  ASSUME NEW c, Within(c), Fits(ReadInt32(c))
  PROVE  LET doc == CurrBytes(c, ReadInt32(c).value) IN
         /\ doc \in Seq(BsonByte) /\ Len(doc) = ReadInt32(c).value /\ Counts(doc)
<1> DEFINE v   == ReadInt32(c).value
           doc == CurrBytes(c, v)
<1>1. v \in Nat /\ v >= 5 /\ v <= Left(c)
  BY FitsLeft
<1>2. /\ doc \in Seq(BsonByte) /\ Len(doc) = v
      /\ \A i \in 1 .. v : doc[i] = c.data[c.pos + i]
  BY <1>1, CurrBytesType
<1>3. v = Int32At(c)
  BY <1>1, LeftType, ReadInt32Type
<1>4. \A i \in 1 .. 4 : CurrBytes(c, 4)[i] = c.data[c.pos + i]
  BY <1>1, LeftType, CurrBytesType
<1>5. Within(Caret(doc)) /\ Left(Caret(doc)) = v
  BY <1>1, <1>2 DEF Within, CaretType, Caret, Left, DataSize
<1>6. \A i \in 1 .. 4 : CurrBytes(Caret(doc), 4)[i] = doc[i]
  <2>1. 4 \in Nat /\ 4 <= Left(Caret(doc))
    BY <1>1, <1>5
  <2>2. \A i \in 1 .. 4 :
          CurrBytes(Caret(doc), 4)[i] = Caret(doc).data[Caret(doc).pos + i]
    BY <1>5, <2>1, CurrBytesType
  <2>3. Caret(doc).data = doc /\ Caret(doc).pos = 0
    BY DEF Caret
  <2> QED
    BY <2>2, <2>3
<1>7. Int32At(Caret(doc)) = Int32At(c)
  <2>1. \A i \in 1 .. 4 : CurrBytes(Caret(doc), 4)[i] = CurrBytes(c, 4)[i]
    BY <1>1, <1>2, <1>4, <1>6
  <2> QED
    BY <2>1 DEF Int32At
<1>8. ReadInt32(Caret(doc)).value = Int32At(Caret(doc))
  BY <1>1, <1>5, ReadInt32Type
<1> QED
  BY <1>1, <1>2, <1>3, <1>7, <1>8 DEF Counts

-----------------------------------------------------------------------------
(* The sections read so far are good ones, and so is the sequence being    *)
(* read, as long as the caret has no error.                                *)

Good(s) ==
  IsWhole(s) /\ \A k \in DOMAIN Documents(s) : Counts(Documents(s)[k])

Inv ==
  /\ TypeOK
  /\ \A i \in DOMAIN sections : i < Len(sections) \/ ~caret.error => Good(sections[i])
  /\ pc = "flags" => sections = <<>>
  /\ pc = "sequence" =>
       ~caret.error /\ section.section.identifier # Null /\ Good(section.section)

LEMMA InvSized == Inv => SizedDocuments
BY DEF Inv, SizedDocuments, Good

LEMMA InvWithin == TypeOK => Within(caret)
BY DEF TypeOK, Within, CaretType

LEMMA InitInv == Init => Inv
<1> SUFFICES ASSUME Init
             PROVE  Inv
  OBVIOUS
<1>1. PICK d \in Seq(BsonByte) : caret = Caret(d)
  BY DataAssumption DEF Init
<1>2. Len(d) \in Nat
  OBVIOUS
<1>3. caret \in [data : Seq(BsonByte), pos : Nat, error : BOOLEAN] /\ caret.pos <= DataSize(caret)
  BY <1>1, <1>2 DEF Caret, DataSize
<1>4. NoSection \in [section : SequenceType, size : Int, progress : Nat]
  BY DEF NoSection, Sequence, SequenceType
<1>5. flags \in Flags
  BY DEF Init, Flags
<1> QED
  BY <1>3, <1>4, <1>5 DEF Init, Inv, TypeOK

(* Push keeps what the invariant says of the sections, if the one pushed   *)
(* is good or the caret takes an error.                                    *)
LEMMA PushInv ==
  ASSUME Inv, ~caret.error, NEW s \in BodyType \cup SequenceType, NEW c, Within(c),
         c.error \/ Good(s), Push(s, c)
  PROVE  /\ Within(caret') /\ flags' \in Flags
         /\ sections' \in Seq(BodyType \cup SequenceType)
         /\ \A i \in DOMAIN sections' :
               i < Len(sections') \/ ~caret'.error => Good(sections'[i])
         /\ pc' = "sections"
<1>1. /\ sections \in Seq(BodyType \cup SequenceType) /\ flags \in Flags
      /\ \A i \in DOMAIN sections : Good(sections[i])
  BY DEF Inv, TypeOK
<1>2. /\ caret' = c /\ sections' = Append(sections, s) /\ pc' = "sections"
      /\ flags' = flags
  BY DEF Push
<1> HIDE DEF Inv
<1>3. /\ sections' \in Seq(BodyType \cup SequenceType)
      /\ DOMAIN sections' = 1 .. Len(sections) + 1 /\ Len(sections') = Len(sections) + 1
      /\ \A i \in 1 .. Len(sections) : sections'[i] = sections[i]
      /\ sections'[Len(sections) + 1] = s
  BY <1>1, <1>2, AppendProperties
<1>4. DOMAIN sections = 1 .. Len(sections) /\ Len(sections) \in Nat
  BY <1>1
<1>5. ASSUME NEW i \in DOMAIN sections', i < Len(sections') \/ ~caret'.error
      PROVE  Good(sections'[i])
  <2>1. CASE i = Len(sections) + 1
    <3>1. sections'[i] = s
      BY <1>3, <2>1
    <3>2. ~c.error
      BY <1>2, <1>3, <1>4, <1>5, <2>1
    <3> QED
      BY <3>1, <3>2
  <2>2. CASE i # Len(sections) + 1
    <3>1. i \in 1 .. Len(sections)
      BY <1>3, <1>4, <2>2
    <3>2. sections'[i] = sections[i] /\ Good(sections[i])
      BY <1>1, <1>3, <1>4, <3>1
    <3> QED
      BY <3>2
  <2> QED
    BY <2>1, <2>2
<1> QED
  BY <1>1, <1>2, <1>3, <1>5

-----------------------------------------------------------------------------
(* One lemma per action. *)

LEMMA ReadFlagsInv ==
  ASSUME Inv, ReadFlags
  PROVE  Inv'
<1> DEFINE r == ReadInt32(caret)
<1>1. Within(r.caret)
  BY InvWithin, ReadInt32Type DEF Inv
<1>2. /\ caret' = r.caret /\ sections = <<>> /\ pc' = "sections"
      /\ UNCHANGED <<sections, section>>
  BY DEF ReadFlags, Inv
<1>3. flags' \in Flags
  <2>1. \A n : IsSet(r.value, n) \in BOOLEAN
    BY DEF IsSet
  <2> HIDE DEF r
  <2> QED
    BY <2>1 DEF ReadFlags, Flags, r
<1>4. TypeOK'
  BY <1>1, <1>2, <1>3 DEF Inv, TypeOK, Within, CaretType
<1> QED
  BY <1>2, <1>4 DEF Inv

(* What is left to show after a Push. *)
LEMMA PushedInv ==
  ASSUME Within(caret'), flags' \in Flags,
         sections' \in Seq(BodyType \cup SequenceType),
         \A i \in DOMAIN sections' :
           i < Len(sections') \/ ~caret'.error => Good(sections'[i]),
         pc' = "sections",
         section' \in [section : SequenceType, size : Int, progress : Nat]
  PROVE  Inv'
BY DEF Inv, TypeOK, Within, CaretType

LEMMA NoSectionType ==
  NoSection \in [section : SequenceType, size : Int, progress : Nat]
BY DEF NoSection, Sequence, SequenceType

LEMMA NullIsNoString ==
  ASSUME NEW s \in Seq(BsonByte)
  PROVE  s # Null
<1> SUFFICES ASSUME s = <<-1>>
             PROVE  FALSE
  BY DEF Null
<1>1. Len(s) = 1 /\ s[1] = -1
  OBVIOUS
<1>2. s[1] \in BsonByte
  BY <1>1, ElementOfSeq
<1> QED
  BY <1>1, <1>2 DEF BsonByte

LEMMA BodyGood ==
  ASSUME NEW doc \in Seq(BsonByte), Counts(doc)
  PROVE  Body(doc) \in BodyType /\ Good(Body(doc))
<1>1. doc # Null
  BY NullIsNoString
<1>2. /\ Body(doc).type = TYPE_BODY /\ Body(doc).document = doc
      /\ Body(doc) \in BodyType
  BY DEF Body, BodyType
<1> QED
  BY <1>1, <1>2 DEF Good, IsWhole, Documents

LEMMA ReadBodyInv ==
  ASSUME Inv, ReadBody
  PROVE  Inv'
<1> DEFINE c == Inc(caret, 1)
           r == ReadInt32(c)
<1>1. Within(caret) /\ ~caret.error /\ Left(caret) >= 1
  BY InvWithin, AtCharLeft DEF Inv, ReadBody, AtSection
<1>2. Within(c) /\ ~c.error
  BY <1>1, IncType, LeftType
<1>3. UNCHANGED section /\ section \in [section : SequenceType, size : Int, progress : Nat]
  BY DEF ReadBody, Inv, TypeOK
<1>4. CASE Fits(r)
  <2> DEFINE doc == CurrBytes(c, r.value)
  <2>1. doc \in Seq(BsonByte) /\ Counts(doc)
    BY <1>2, <1>4, CutCounts
  <2>2. Body(doc) \in BodyType \cup SequenceType /\ Good(Body(doc))
    BY <2>1, BodyGood
  <2>3. Within(Behind(r))
    BY <1>2, <1>4, FitsLeft
  <2>4. Push(Body(doc), Behind(r))
    BY <1>4 DEF ReadBody
  <2> QED
    BY <1>1, <1>3, <2>2, <2>3, <2>4, PushInv, PushedInv
<1>5. CASE ~Fits(r)
  <2>1. Within(SetError(r.caret)) /\ SetError(r.caret).error
    BY <1>2, ReadInt32Type, SetErrorType
  <2>2. Body(Null) \in BodyType \cup SequenceType
    BY DEF Body, BodyType
  <2>3. Push(Body(Null), SetError(r.caret))
    BY <1>5 DEF ReadBody
  <2> QED
    BY <1>1, <1>3, <2>1, <2>2, <2>3, PushInv, PushedInv
<1> QED
  BY <1>4, <1>5

LEMMA OpenSequenceInv ==
  ASSUME Inv, OpenSequence
  PROVE  Inv'
<1> DEFINE r  == ReadInt32(Inc(caret, 1))
           n  == NulOffset(r.caret)
           id == CurrBytes(r.caret, n)
<1>1. Within(caret) /\ ~caret.error /\ Left(caret) >= 1
  BY InvWithin, AtCharLeft DEF Inv, OpenSequence, AtSection
<1>2. Within(Inc(caret, 1)) /\ ~Inc(caret, 1).error
  BY <1>1, IncType, LeftType
<1>3. Within(r.caret)
  BY <1>2, ReadInt32Type
<1>4. n \in Nat /\ n <= Left(r.caret)
  BY <1>3, NulOffsetType
<1>5. section \in [section : SequenceType, size : Int, progress : Nat]
  BY DEF Inv, TypeOK
<1>6. Sequence(Null, <<>>) \in BodyType \cup SequenceType
  BY DEF Sequence, SequenceType
<1>7. ASSUME NEW c, Within(c), Push(Sequence(Null, <<>>), SetError(c)), UNCHANGED section
      PROVE  Inv'
  <2>1. Within(SetError(c)) /\ SetError(c).error
    BY <1>7, SetErrorType
  <2> QED
    BY <1>1, <1>5, <1>6, <1>7, <2>1, PushInv, PushedInv
<1>8. CASE Push(Sequence(Null, <<>>), SetError(r.caret)) /\ UNCHANGED section
  BY <1>3, <1>7, <1>8
<1>9. CASE /\ n = Left(r.caret)
           /\ Push(Sequence(Null, <<>>), SetError(Inc(r.caret, n))) /\ UNCHANGED section
  <2>1. Within(Inc(r.caret, n))
    BY <1>3, <1>4, IncType
  <2> QED
    BY <1>7, <1>9, <2>1
<1>10. CASE /\ Fits(r) /\ n < Left(r.caret)
            /\ caret' = Inc(r.caret, n + 1)
            /\ section' = [ section |-> Sequence(id, <<>>), size |-> r.value,
                            progress |-> Progress(id) ]
            /\ pc' = "sequence"
            /\ UNCHANGED <<flags, sections>>
  <2>1. n + 1 \in Nat /\ n + 1 <= Left(r.caret)
    BY <1>3, <1>4, <1>10, LeftType
  <2>2. ~r.caret.error
    <3>1. Left(Inc(caret, 1)) >= 4
      BY <1>2, <1>10, FitsLeft, LeftType
    <3> QED
      BY <1>2, <3>1, ReadInt32Type, IncType
  <2>3. Within(caret') /\ ~caret'.error
    BY <1>3, <1>10, <2>1, <2>2, IncType
  <2>4. id \in Seq(BsonByte) /\ Len(id) = n
    BY <1>3, <1>4, CurrBytesType
  <2>5. id # Null
    BY <2>4, NullIsNoString
  <2>6. /\ Sequence(id, <<>>) \in SequenceType
        /\ Sequence(id, <<>>).identifier = id
        /\ Good(Sequence(id, <<>>))
    <3>1. /\ Sequence(id, <<>>).type = TYPE_DOCUMENT_SEQUENCE
          /\ Sequence(id, <<>>).identifier = id
          /\ Sequence(id, <<>>).documents = <<>>
          /\ Sequence(id, <<>>) \in SequenceType
      BY <2>4 DEF Sequence, SequenceType
    <3> QED
      BY <2>5, <3>1 DEF Good, IsWhole, Documents, TYPE_BODY, TYPE_DOCUMENT_SEQUENCE
  <2>7. section' \in [section : SequenceType, size : Int, progress : Nat]
    <3>1. r.value \in Int
      BY <1>2, ReadInt32Type
    <3>2. Progress(id) \in Nat
      BY <1>4, <2>4 DEF Progress
    <3> QED
      BY <1>10, <2>6, <3>1, <3>2
  <2>8. section'.section = Sequence(id, <<>>)
    BY <1>10
  <2>9. TypeOK'
    BY <1>10, <2>3, <2>7 DEF Inv, TypeOK, Within, CaretType
  <2>10. \A i \in DOMAIN sections' : Good(sections'[i])
    BY <1>1, <1>10 DEF Inv
  <2> QED
    BY <1>10, <2>3, <2>5, <2>6, <2>8, <2>9, <2>10 DEF Inv
<1> QED
  BY <1>8, <1>9, <1>10 DEF OpenSequence

LEMMA ReadDocumentInv ==
  ASSUME Inv, ReadDocument
  PROVE  Inv'
<1> DEFINE r   == ReadInt32(caret)
           doc == CurrBytes(caret, r.value)
           s   == section.section
<1>1. /\ Within(caret) /\ ~caret.error
      /\ s \in SequenceType /\ s.identifier # Null /\ Good(s)
      /\ section \in [section : SequenceType, size : Int, progress : Nat]
  BY InvWithin DEF Inv, TypeOK, ReadDocument
<1>2. CASE Push(s, SetError(r.caret)) /\ section' = NoSection
  <2>1. Within(SetError(r.caret)) /\ SetError(r.caret).error
    BY <1>1, ReadInt32Type, SetErrorType
  <2>2. s \in BodyType \cup SequenceType
    BY <1>1
  <2>3. section' \in [section : SequenceType, size : Int, progress : Nat]
    BY <1>2, NoSectionType
  <2> QED
    BY <1>1, <1>2, <2>1, <2>2, <2>3, PushInv, PushedInv
<1>3. CASE /\ Fits(r)
           /\ caret' = Behind(r)
           /\ section' = [ section EXCEPT !.section.documents = Append(@, doc),
                                          !.progress = @ + Len(doc) ]
           /\ UNCHANGED <<flags, sections, pc>>
  <2>1. doc \in Seq(BsonByte) /\ Counts(doc)
    BY <1>1, <1>3, CutCounts
  <2>2. Within(caret') /\ ~caret'.error
    BY <1>1, <1>3, FitsLeft
  <2>3. /\ s.documents \in Seq(Seq(BsonByte)) /\ s.type = TYPE_DOCUMENT_SEQUENCE
        /\ section.progress + Len(doc) \in Nat
    BY <1>1, <2>1 DEF SequenceType
  <2> DEFINE docs == Append(s.documents, doc)
             t    == [s EXCEPT !.documents = docs]
  <2>4. docs \in Seq(Seq(BsonByte))
    BY <2>1, <2>3, AppendProperties
  <2>5. section' = [ section EXCEPT !.section = t, !.progress = section.progress + Len(doc) ]
    BY <1>3
  <2>6. /\ t \in SequenceType /\ t.identifier = s.identifier /\ t.documents = docs
        /\ t.type = TYPE_DOCUMENT_SEQUENCE
    BY <1>1, <2>3, <2>4 DEF SequenceType
  <2>7. section'.section = t /\ section' \in [section : SequenceType, size : Int, progress : Nat]
    BY <1>1, <2>3, <2>5, <2>6
  <2>8. Good(t)
    <3>1. \A k \in DOMAIN s.documents : Counts(s.documents[k])
      BY <1>1, <2>3 DEF Good, Documents, TYPE_BODY, TYPE_DOCUMENT_SEQUENCE
    <3>2. \A k \in DOMAIN docs : Counts(docs[k])
      BY <2>1, <2>3, <3>1, AppendProperties
    <3> QED
      BY <1>1, <2>6, <3>2 DEF Good, IsWhole, Documents, TYPE_BODY, TYPE_DOCUMENT_SEQUENCE
  <2>9. TypeOK'
    BY <1>3, <2>2, <2>7 DEF Inv, TypeOK, Within, CaretType
  <2>10. \A i \in DOMAIN sections' : Good(sections'[i])
    BY <1>1, <1>3 DEF Inv
  <2>11. pc' = "sequence"
    BY <1>3 DEF ReadDocument
  <2> QED
    BY <1>1, <2>2, <2>6, <2>7, <2>8, <2>9, <2>10, <2>11 DEF Inv
<1> QED
  BY <1>2, <1>3 DEF ReadDocument

LEMMA CloseSequenceInv ==
  ASSUME Inv, CloseSequence
  PROVE  Inv'
<1>1. /\ Within(caret) /\ ~caret.error /\ Good(section.section)
      /\ section.section \in BodyType \cup SequenceType
  BY InvWithin DEF Inv, TypeOK, CloseSequence
<1>2. Push(section.section, caret) /\ section' = NoSection
  BY DEF CloseSequence
<1>3. section' \in [section : SequenceType, size : Int, progress : Nat]
  BY <1>2, NoSectionType
<1> QED
  BY <1>1, <1>2, <1>3, PushInv, PushedInv

LEMMA UnknownSectionInv ==
  ASSUME Inv, UnknownSection
  PROVE  Inv'
<1>1. Within(SetError(caret))
  BY InvWithin, SetErrorType DEF Inv
<1>2. /\ caret' = SetError(caret) /\ ~caret.error /\ pc' = "failed"
      /\ UNCHANGED <<flags, sections, section>>
  BY DEF UnknownSection, CanContinue
<1>3. TypeOK'
  BY <1>1, <1>2 DEF Inv, TypeOK, Within, CaretType
<1> QED
  BY <1>2, <1>3 DEF Inv

LEMMA EndOfMessageInv ==
  ASSUME Inv, EndOfMessage
  PROVE  Inv'
BY DEF Inv, TypeOK, EndOfMessage

LEMMA NextInv ==
  ASSUME Inv, [Next]_vars
  PROVE  Inv'
<1>1. CASE UNCHANGED vars
  BY <1>1 DEF vars, Inv, TypeOK
<1>2. CASE Finished
  BY <1>2 DEF Finished, vars, Inv, TypeOK
<1> QED
  BY <1>1, <1>2, ReadFlagsInv, ReadBodyInv, OpenSequenceInv, ReadDocumentInv,
     CloseSequenceInv, UnknownSectionInv, EndOfMessageInv
     DEF Next, Step

-----------------------------------------------------------------------------
(* The caret of the parser never leaves its data, and every variable keeps *)
(* its type, for any bytes OpMsg::readFromCaret is called on.              *)
THEOREM TypeCorrect == Spec => []TypeOK
<1>1. Inv => TypeOK
  BY DEF Inv
<1> QED
  BY <1>1, InitInv, NextInv, PTL DEF Spec

(* Whatever bytes a message consists of, each document readFromCaret takes *)
(* out of it is as long as the document's own size field says, but for the *)
(* section in which an error was found.                                    *)
THEOREM DocumentsSized == Spec => []SizedDocuments
BY InvSized, InitInv, NextInv, PTL DEF Spec

-----------------------------------------------------------------------------
(* The bytes of sections and messages, and what is read from them. *)

LEMMA NaturalType ==
  ASSUME NEW s \in Seq(BsonByte)
  PROVE  Len(s) \in Nat
OBVIOUS

LEMMA OneByte ==
  ASSUME NEW b \in BsonByte
  PROVE  <<b>> \in Seq(BsonByte) /\ Len(<<b>>) = 1 /\ <<b>>[1] = b
OBVIOUS

(* Two and three byte strings in a row. *)
LEMMA InARow ==
  ASSUME NEW a \in Seq(BsonByte), NEW b \in Seq(BsonByte), NEW c \in Seq(BsonByte)
  PROVE  /\ a \o b \o c \in Seq(BsonByte)
         /\ Len(a \o b \o c) = Len(a) + Len(b) + Len(c)
         /\ \A i \in 1 .. Len(a) : (a \o b \o c)[i] = a[i]
         /\ \A i \in 1 .. Len(b) : (a \o b \o c)[Len(a) + i] = b[i]
         /\ \A i \in 1 .. Len(c) : (a \o b \o c)[Len(a) + Len(b) + i] = c[i]
OBVIOUS

(* The parts of a section's type. *)
IsSequence(s) == s \in SequenceType /\ s.identifier # Null

LEMMA ContentBytes ==
  ASSUME NEW s, IsSequence(s)
  PROVE  /\ s.identifier \in Seq(BsonByte) /\ s.documents \in Seq(Seq(BsonByte))
         /\ SequenceContent(s) \in Seq(BsonByte)
         /\ Len(SequenceContent(s)) = Len(s.identifier) + 1 + Len(FlattenSeq(s.documents))
         /\ \A i \in 1 .. Len(s.identifier) : SequenceContent(s)[i] = s.identifier[i]
         /\ SequenceContent(s)[Len(s.identifier) + 1] = 0
         /\ \A i \in 1 .. Len(FlattenSeq(s.documents)) :
              SequenceContent(s)[Len(s.identifier) + 1 + i] = FlattenSeq(s.documents)[i]
<1> DEFINE a == s.identifier
           z == <<0>>
           c == FlattenSeq(s.documents)
<1>1. a \in Seq(BsonByte) /\ s.documents \in Seq(Seq(BsonByte))
  BY DEF IsSequence, SequenceType
<1>2. c \in Seq(BsonByte)
  BY <1>1, FlattenType
<1>3. 0 \in BsonByte
  BY DEF BsonByte
<1>4. z \in Seq(BsonByte) /\ Len(z) = 1 /\ z[1] = 0
  BY <1>3, OneByte
<1>5. SequenceContent(s) = a \o z \o c
  BY DEF SequenceContent
<1> HIDE DEF a, z, c
<1>6. /\ a \o z \o c \in Seq(BsonByte)
      /\ Len(a \o z \o c) = Len(a) + Len(z) + Len(c)
      /\ \A i \in 1 .. Len(a) : (a \o z \o c)[i] = a[i]
      /\ \A i \in 1 .. Len(z) : (a \o z \o c)[Len(a) + i] = z[i]
      /\ \A i \in 1 .. Len(c) : (a \o z \o c)[Len(a) + Len(z) + i] = c[i]
  BY <1>1, <1>2, <1>4, InARow, Zenon
<1>7. 1 \in 1 .. 1
  OBVIOUS
<1>8. (a \o z \o c)[Len(a) + 1] = 0
  BY <1>4, <1>6, <1>7, Zenon
<1>9. \A i \in 1 .. Len(c) : (a \o z \o c)[Len(a) + 1 + i] = c[i]
  BY <1>4, <1>6, Zenon
<1>10. Len(a \o z \o c) = Len(a) + 1 + Len(c)
  BY <1>4, <1>6, Zenon
<1> QED
  BY <1>1, <1>5, <1>6, <1>8, <1>9, <1>10, Zenon DEF a, c

LEMMA BodyBytes ==
  ASSUME NEW s \in BodyType, s.document # Null
  PROVE  /\ s.document \in Seq(BsonByte) /\ SectionBytes(s) \in Seq(BsonByte)
         /\ Len(SectionBytes(s)) = 1 + Len(s.document)
         /\ SectionBytes(s)[1] = TYPE_BODY
         /\ \A i \in 1 .. Len(s.document) : SectionBytes(s)[1 + i] = s.document[i]
<1> DEFINE a == <<TYPE_BODY>>
           b == s.document
<1>1. b \in Seq(BsonByte) /\ s.type = TYPE_BODY
  BY DEF BodyType
<1>2. TYPE_BODY \in BsonByte
  BY DEF TYPE_BODY, BsonByte
<1>3. a \in Seq(BsonByte) /\ Len(a) = 1 /\ a[1] = TYPE_BODY
  BY <1>2, OneByte
<1>4. SectionBytes(s) = a \o b
  BY <1>1 DEF SectionBytes
<1> HIDE DEF a, b
<1>5. /\ a \o b \in Seq(BsonByte) /\ Len(a \o b) = Len(a) + Len(b)
      /\ \A i \in 1 .. Len(a) : (a \o b)[i] = a[i]
      /\ \A i \in 1 .. Len(b) : (a \o b)[Len(a) + i] = b[i]
  BY <1>1, <1>3, ConcatAt, Zenon
<1>6. 1 \in 1 .. 1
  OBVIOUS
<1> QED
  BY <1>1, <1>3, <1>4, <1>5, <1>6, Zenon DEF b

LEMMA SequenceBytes ==
  ASSUME NEW s, IsSequence(s)
  PROVE  /\ SectionBytes(s) \in Seq(BsonByte)
         /\ Len(SectionBytes(s)) = 5 + Len(SequenceContent(s))
         /\ SectionBytes(s)[1] = TYPE_DOCUMENT_SEQUENCE
         /\ \A i \in 1 .. 4 :
              SectionBytes(s)[1 + i] = Int32Bytes(4 + Len(SequenceContent(s)))[i]
         /\ \A i \in 1 .. Len(SequenceContent(s)) :
              SectionBytes(s)[5 + i] = SequenceContent(s)[i]
<1> DEFINE a == <<TYPE_DOCUMENT_SEQUENCE>>
           b == Int32Bytes(4 + Len(SequenceContent(s)))
           c == SequenceContent(s)
<1>1. c \in Seq(BsonByte)
  BY ContentBytes, Zenon
<1>2. 4 + Len(SequenceContent(s)) \in Int
  BY <1>1
<1>3. b \in Seq(BsonByte) /\ Len(b) = 4
  BY <1>2, Int32BytesType
<1>4. TYPE_DOCUMENT_SEQUENCE \in BsonByte
  BY DEF TYPE_DOCUMENT_SEQUENCE, BsonByte
<1>5. a \in Seq(BsonByte) /\ Len(a) = 1 /\ a[1] = TYPE_DOCUMENT_SEQUENCE
  BY <1>4, OneByte
<1>6. SectionBytes(s) = a \o b \o c
  BY DEF SectionBytes, IsSequence, SequenceType, TYPE_BODY, TYPE_DOCUMENT_SEQUENCE
<1> HIDE DEF a, b, c
<1>7. /\ a \o b \o c \in Seq(BsonByte)
      /\ Len(a \o b \o c) = Len(a) + Len(b) + Len(c)
      /\ \A i \in 1 .. Len(a) : (a \o b \o c)[i] = a[i]
      /\ \A i \in 1 .. Len(b) : (a \o b \o c)[Len(a) + i] = b[i]
      /\ \A i \in 1 .. Len(c) : (a \o b \o c)[Len(a) + Len(b) + i] = c[i]
  BY <1>1, <1>3, <1>5, InARow, Zenon
<1>8. 1 \in 1 .. 1 /\ 1 + 4 = 5
  OBVIOUS
<1>9. (a \o b \o c)[1] = TYPE_DOCUMENT_SEQUENCE
  BY <1>5, <1>7, <1>8, Zenon
<1>10. \A i \in 1 .. 4 : (a \o b \o c)[1 + i] = b[i]
  BY <1>3, <1>5, <1>7, Zenon
<1>11. Len(a) + Len(b) = 5
  BY <1>3, <1>5, <1>8, Zenon
<1>12. Len(a \o b \o c) = 5 + Len(c) /\ \A i \in 1 .. Len(c) : (a \o b \o c)[5 + i] = c[i]
  BY <1>7, <1>11, Zenon
<1> QED
  BY <1>6, <1>7, <1>9, <1>10, <1>12, Zenon DEF b, c

(* The number of four bytes at a caret. *)
LEMMA ReadAt ==
  ASSUME NEW c, Within(c), Left(c) >= 4, NEW n \in Int, -MaxInt32 - 1 <= n, n <= MaxInt32,
         \A i \in 1 .. 4 : c.data[c.pos + i] = Int32Bytes(n)[i]
  PROVE  ReadInt32(c).value = n /\ ReadInt32(c).caret = Inc(c, 4)
<1>1. 4 \in Nat /\ 4 <= Left(c)
  BY LeftType
<1>2. \A i \in 1 .. 4 : CurrBytes(c, 4)[i] = Int32Bytes(n)[i]
  BY <1>1, CurrBytesType
<1>3. Int32At(c) = n
  BY <1>2, Int32RoundTrip
<1> QED
  BY <1>1, <1>3, ReadInt32Type

(* A document at a caret is found as it is, and all of it. *)
LEMMA DocumentAt ==
  ASSUME NEW c, Within(c), NEW doc \in Seq(BsonByte), Counts(doc), Len(doc) <= Left(c),
         \A i \in 1 .. Len(doc) : c.data[c.pos + i] = doc[i]
  PROVE  /\ ReadInt32(c).value = Len(doc) /\ Fits(ReadInt32(c))
         /\ CurrBytes(c, Len(doc)) = doc
         /\ Len(doc) >= 5
<1> DEFINE d == Caret(doc)
<1>1. Len(doc) \in Nat /\ Len(doc) >= 5 /\ ReadInt32(d).value = Len(doc)
  BY DEF Counts
<1>2. Within(d) /\ Left(d) = Len(doc) /\ d.data = doc /\ d.pos = 0
  BY <1>1 DEF Within, CaretType, Caret, Left, DataSize
<1>3. ReadInt32(d).value = Int32At(d)
  BY <1>1, <1>2, ReadInt32Type
<1>4. Left(c) \in Nat /\ 4 \in Nat /\ 4 <= Left(c) /\ 4 <= Left(d)
  BY <1>1, <1>2, LeftType
<1>5. ASSUME NEW i \in 1 .. 4
      PROVE  CurrBytes(c, 4)[i] = CurrBytes(d, 4)[i]
  <2>1. CurrBytes(c, 4)[i] = c.data[c.pos + i]
    BY <1>4, CurrBytesType
  <2>2. CurrBytes(d, 4)[i] = d.data[d.pos + i]
    BY <1>2, <1>4, CurrBytesType
  <2>3. i \in 1 .. Len(doc) /\ 0 + i = i
    BY <1>1
  <2> HIDE DEF d
  <2>4. d.data[d.pos + i] = doc[i]
    BY <1>2, <2>3
  <2>5. c.data[c.pos + i] = doc[i]
    BY <2>3
  <2> QED
    BY <2>1, <2>2, <2>4, <2>5
<1>6. Int32At(c) = Int32At(d)
  BY <1>5 DEF Int32At
<1>7. ReadInt32(c).value = Len(doc) /\ Left(ReadInt32(c).caret) = Left(c) - 4
  BY <1>1, <1>3, <1>4, <1>6, ReadInt32Type
<1>8. Fits(ReadInt32(c))
  BY <1>1, <1>4, <1>7 DEF Fits
<1>9. CurrBytes(c, Len(doc)) = doc
  <2>1. /\ CurrBytes(c, Len(doc)) \in Seq(BsonByte)
        /\ Len(CurrBytes(c, Len(doc))) = Len(doc)
        /\ \A i \in 1 .. Len(doc) : CurrBytes(c, Len(doc))[i] = c.data[c.pos + i]
    BY <1>1, CurrBytesType
  <2> QED
    BY <2>1, SeqEqual
<1> QED
  BY <1>1, <1>7, <1>8, <1>9

(* Where the caret is behind what fits. *)
LEMMA BehindAt ==
  ASSUME NEW c, Within(c), Fits(ReadInt32(c))
  PROVE  /\ Behind(ReadInt32(c)).pos = c.pos + ReadInt32(c).value
         /\ Behind(ReadInt32(c)).data = c.data /\ Behind(ReadInt32(c)).error = c.error
         /\ Within(Behind(ReadInt32(c)))
<1> DEFINE r == ReadInt32(c)
<1>1. r.value \in Nat /\ r.value >= 5 /\ r.value <= Left(c)
  BY FitsLeft
<1>2. r.caret = Inc(c, 4) /\ Left(r.caret) = Left(c) - 4
  BY <1>1, LeftType, ReadInt32Type
<1>3. /\ Within(r.caret) /\ r.caret.pos = c.pos + 4 /\ r.caret.data = c.data
      /\ r.caret.error = c.error
  BY <1>1, <1>2, IncType, LeftType
<1>4. r.value - 4 \in Nat /\ r.value - 4 <= Left(r.caret)
  BY <1>1, <1>2, LeftType
<1>5. Inc(r.caret, r.value - 4).pos = r.caret.pos + (r.value - 4)
  BY <1>3, <1>4, IncType
<1>6. r.caret.pos + (r.value - 4) = c.pos + r.value
  BY <1>1, <1>3 DEF Within, CaretType
<1> QED
  BY <1>5, <1>6, FitsLeft DEF Behind

(* findChar finds the first NUL. *)
LEMMA NulAt ==
  ASSUME NEW c, Within(c), NEW n \in Nat, n < Left(c), c.data[c.pos + n + 1] = 0,
         \A j \in 1 .. n : c.data[c.pos + j] # 0
  PROVE  NulOffset(c) = n
<1> DEFINE e    == IF Left(c) < 0 THEN 0 ELSE Left(c)
           Q(i) == /\ i < e => c.data[c.pos + i + 1] = 0
                   /\ \A j \in 1 .. i : c.data[c.pos + j] # 0
<1>1. e = Left(c) /\ e \in Nat
  BY LeftType
<1>2. NulOffset(c) = CHOOSE i \in 0 .. e : Q(i)
  BY Zenon DEF NulOffset
<1>3. n \in 0 .. e /\ Q(n)
  BY <1>1
<1>4. ASSUME NEW i \in 0 .. e, Q(i)
      PROVE  i = n
  <2>1. CASE i < n
    <3>1. c.data[c.pos + i + 1] = 0 /\ i + 1 \in 1 .. n
      BY <1>1, <1>4, <2>1
    <3>2. c.data[c.pos + (i + 1)] # 0
      BY <3>1
    <3>3. c.pos + (i + 1) = c.pos + i + 1
      BY DEF Within, CaretType
    <3> QED
      BY <3>1, <3>2, <3>3
  <2>2. CASE i > n
    <3>1. n + 1 \in 1 .. i
      BY <1>1, <2>2
    <3>2. c.data[c.pos + (n + 1)] # 0
      BY <1>4, <3>1
    <3>3. c.pos + (n + 1) = c.pos + n + 1
      BY DEF Within, CaretType
    <3> QED
      BY <3>2, <3>3
  <2> QED
    BY <2>1, <2>2
<1> HIDE DEF Q
<1> QED
  BY <1>2, <1>3, <1>4, Zenon

(* The written sections of a message, and where each begins. *)
Parts(m) == [i \in DOMAIN m.sections |-> SectionBytes(m.sections[i])]

Begin(m, k) == 4 + Len(First(Parts(m), k - 1))

LEMMA SectionType ==
  ASSUME NEW m, IsMessage(m), NEW i \in DOMAIN m.sections
  PROVE  /\ Good(m.sections[i]) /\ IsWritable(m.sections[i])
         /\ \/ m.sections[i] \in BodyType /\ m.sections[i].document # Null
            \/ IsSequence(m.sections[i])
<1> DEFINE s == m.sections[i]
<1>1. IsWritable(s) /\ m.sections \in Seq(BodyType \cup SequenceType)
  BY DEF IsMessage
<1>2. s \in BodyType \cup SequenceType
  BY <1>1
<1> HIDE DEF s
<1>3. IsWhole(s) /\ Good(s)
  BY <1>1 DEF IsWritable, Good
<1>4. CASE s \in BodyType
  BY <1>1, <1>3, <1>4 DEF IsWhole, BodyType, s
<1>5. CASE s \in SequenceType
  <2>1. s.type = TYPE_DOCUMENT_SEQUENCE /\ TYPE_DOCUMENT_SEQUENCE # TYPE_BODY
    BY <1>5 DEF SequenceType, TYPE_BODY, TYPE_DOCUMENT_SEQUENCE
  <2> QED
    BY <1>1, <1>3, <1>5, <2>1 DEF IsWhole, IsSequence, s
<1> QED
  BY <1>2, <1>4, <1>5

LEMMA PartsType ==
  ASSUME NEW m, IsMessage(m)
  PROVE  /\ Parts(m) \in Seq(Seq(BsonByte)) /\ Len(Parts(m)) = Len(m.sections)
         /\ Len(m.sections) \in Nat /\ DOMAIN m.sections = 1 .. Len(m.sections)
         /\ \A i \in 1 .. Len(m.sections) : Parts(m)[i] = SectionBytes(m.sections[i])
<1>1. /\ Len(m.sections) \in Nat /\ DOMAIN m.sections = 1 .. Len(m.sections)
  BY DEF IsMessage
<1>2. \A i \in DOMAIN m.sections : SectionBytes(m.sections[i]) \in Seq(BsonByte)
  BY SectionType, BodyBytes, SequenceBytes
<1> QED
  BY <1>1, <1>2 DEF Parts

LEMMA FlagBitsRange ==
  ASSUME NEW f \in Flags
  PROVE  /\ FlagBits(f) \in Nat /\ FlagBits(f) <= 65539
         /\ IsSet(FlagBits(f), FLAG_CHECKSUM_PRESENT) = f.checksumPresent
         /\ IsSet(FlagBits(f), FLAG_MORE_TO_COME) = f.moreToCome
         /\ IsSet(FlagBits(f), FLAG_EXHAUST_ALLOWED) = f.exhaustAllowed
<1>1. /\ f.checksumPresent \in BOOLEAN /\ f.moreToCome \in BOOLEAN
      /\ f.exhaustAllowed \in BOOLEAN
  BY DEF Flags
<1> QED
  BY <1>1 DEF FlagBits, IsSet, FLAG_CHECKSUM_PRESENT, FLAG_MORE_TO_COME, FLAG_EXHAUST_ALLOWED

LEMMA MessageBytes ==
  ASSUME NEW m, IsMessage(m)
  PROVE  /\ OpMsgBytes(m) \in Seq(BsonByte)
         /\ Len(OpMsgBytes(m)) = Begin(m, Len(m.sections) + 1)
         /\ Len(OpMsgBytes(m)) >= 4
         /\ \A i \in 1 .. 4 : OpMsgBytes(m)[i] = Int32Bytes(FlagBits(m.flags))[i]
         /\ \A k \in 1 .. Len(m.sections) :
              /\ Begin(m, k) \in Nat /\ Begin(m, k + 1) \in Nat
              /\ Begin(m, k + 1) = Begin(m, k) + Len(SectionBytes(m.sections[k]))
              /\ Begin(m, k + 1) <= Len(OpMsgBytes(m))
              /\ \A i \in 1 .. Len(SectionBytes(m.sections[k])) :
                   OpMsgBytes(m)[Begin(m, k) + i] = SectionBytes(m.sections[k])[i]
<1> DEFINE a == Int32Bytes(FlagBits(m.flags))
           p == Parts(m)
           b == FlattenSeq(p)
           n == Len(m.sections)
<1>1. /\ p \in Seq(Seq(BsonByte)) /\ Len(p) = n /\ n \in Nat
      /\ \A i \in 1 .. n : p[i] = SectionBytes(m.sections[i])
  BY PartsType
<1>2. b \in Seq(BsonByte)
  BY <1>1, FlattenType
<1>3. a \in Seq(BsonByte) /\ Len(a) = 4
  <2>1. FlagBits(m.flags) \in Int
    BY FlagBitsRange DEF IsMessage
  <2> QED
    BY <2>1, Int32BytesType
<1>4. OpMsgBytes(m) = a \o b
  BY DEF OpMsgBytes, Parts
<1>5. First(p, n) = b
  BY <1>1, FirstAll
<1>6. Begin(m, n + 1) = 4 + Len(b)
  <2>1. (n + 1) - 1 = n
    BY <1>1
  <2> QED
    BY <1>5, <2>1 DEF Begin
<1>7. /\ a \o b \in Seq(BsonByte) /\ Len(a \o b) = 4 + Len(b)
      /\ \A i \in 1 .. 4 : (a \o b)[i] = a[i]
      /\ \A i \in 1 .. Len(b) : (a \o b)[4 + i] = b[i]
  <2> HIDE DEF a, b
  <2>1. /\ a \o b \in Seq(BsonByte) /\ Len(a \o b) = Len(a) + Len(b)
        /\ \A i \in 1 .. Len(a) : (a \o b)[i] = a[i]
        /\ \A i \in 1 .. Len(b) : (a \o b)[Len(a) + i] = b[i]
    BY <1>2, <1>3, ConcatAt, Zenon
  <2>2. \A i \in 1 .. 4 : (a \o b)[i] = a[i]
    BY <1>3, <2>1, Zenon
  <2>3. \A i \in 1 .. Len(b) : (a \o b)[4 + i] = b[i]
    BY <1>3, <2>1, Zenon
  <2> QED
    BY <1>3, <2>1, <2>2, <2>3, Zenon
<1>8. Len(b) \in Nat
  BY <1>2, NaturalType
<1>9. ASSUME NEW k \in 1 .. n
      PROVE  /\ Begin(m, k) \in Nat /\ Begin(m, k + 1) \in Nat
             /\ Begin(m, k + 1) = Begin(m, k) + Len(SectionBytes(m.sections[k]))
             /\ Begin(m, k + 1) <= 4 + Len(b)
             /\ \A i \in 1 .. Len(SectionBytes(m.sections[k])) :
                  (a \o b)[Begin(m, k) + i] = SectionBytes(m.sections[k])[i]
  <2> DEFINE s == SectionBytes(m.sections[k])
             f == First(p, k - 1)
  <2>1. k \in 1 .. Len(p) /\ p[k] = s /\ (k + 1) - 1 = k
    BY <1>1
  <2>2. /\ f \in Seq(BsonByte) /\ p[k] \in Seq(BsonByte)
        /\ Len(First(p, k)) = Len(f) + Len(p[k])
        /\ Len(First(p, k)) <= Len(b)
        /\ \A i \in 1 .. Len(p[k]) : b[Len(f) + i] = p[k][i]
    BY <1>1, <2>1, PartOfWhole, Zenon
  <2>3. Begin(m, k) = 4 + Len(f) /\ Begin(m, k + 1) = 4 + Len(First(p, k))
    BY <2>1 DEF Begin
  <2>4. Len(f) \in Nat /\ Len(s) \in Nat
    BY <2>1, <2>2, NaturalType
  <2> HIDE DEF a, b, p, n, s, f
  <2>5. \A i \in 1 .. Len(s) : Len(f) + i \in 1 .. Len(b) /\ 4 + (Len(f) + i) = (4 + Len(f)) + i
    BY <1>8, <2>1, <2>2, <2>4
  <2>6. ASSUME NEW i \in 1 .. Len(s)
        PROVE  (a \o b)[Begin(m, k) + i] = s[i]
    <3>1. Len(f) + i \in 1 .. Len(b) /\ 4 + (Len(f) + i) = Begin(m, k) + i
      BY <2>3, <2>5, Zenon
    <3>2. (a \o b)[4 + (Len(f) + i)] = b[Len(f) + i]
      BY <1>7, <3>1, Zenon
    <3>3. b[Len(f) + i] = s[i]
      BY <2>1, <2>2, Zenon
    <3> QED
      BY <3>1, <3>2, <3>3, Zenon
  <2>7. /\ Begin(m, k) \in Nat /\ Begin(m, k + 1) \in Nat
        /\ Begin(m, k + 1) = Begin(m, k) + Len(s)
        /\ Begin(m, k + 1) <= 4 + Len(b)
    BY <1>8, <2>1, <2>2, <2>3, <2>4
  <2> QED
    BY <2>6, <2>7 DEF s
<1>10. Len(a \o b) >= 4
  BY <1>7, <1>8
<1> HIDE DEF b
<1> QED
  BY <1>4, <1>6, <1>7, <1>9, <1>10, Zenon DEF a

-----------------------------------------------------------------------------
(* A written message is read as it was: the sections read so far are its   *)
(* first ones, and the caret is where the next one begins, or the next     *)
(* document of a sequence.                                                 *)

SectionsSoFar(m) ==
  /\ flags = m.flags /\ Len(sections) <= Len(m.sections)
  /\ \A i \in 1 .. Len(sections) : sections[i] = m.sections[i]

Between(m) == SectionsSoFar(m) /\ caret.pos = Begin(m, Len(sections) + 1)

DocumentsSoFar(m, s) ==
  LET t == section.section
      j == Len(t.documents)
  IN
  /\ IsSequence(s)
  /\ t.identifier = s.identifier /\ j <= Len(s.documents)
  /\ \A i \in 1 .. j : t.documents[i] = s.documents[i]
  /\ section.size = 4 + Len(SequenceContent(s))
  /\ section.progress = 4 + Len(s.identifier) + 1 + Len(First(s.documents, j))
  /\ caret.pos = Begin(m, Len(sections) + 1) + 1 + section.progress

Inside(m) ==
  /\ SectionsSoFar(m) /\ Len(sections) + 1 <= Len(m.sections)
  /\ DocumentsSoFar(m, m.sections[Len(sections) + 1])

ReadSoFar(m) ==
  /\ ~caret.error
  /\ \/ pc = "flags" /\ caret.pos = 0
     \/ pc = "sections" /\ Between(m)
     \/ pc = "sequence" /\ Inside(m)
     \/ pc = "parsed" /\ Between(m) /\ Len(sections) = Len(m.sections)

(* The data never change. *)
LEMMA SameData ==
  ASSUME NEW c, Within(c)
  PROVE  /\ SetError(c).data = c.data
         /\ \A n : Inc(c, n).data = c.data
         /\ ReadInt32(c).caret.data = c.data
         /\ Behind(ReadInt32(c)).data = c.data
<1>1. \A x : Within(x) => SetError(x).data = x.data /\ \A n : Inc(x, n).data = x.data
  BY DEF Within, CaretType, SetError, Inc
<1>2. ReadInt32(c).caret.data = c.data /\ Within(ReadInt32(c).caret)
  <2>1. Left(c) < 4 \/ Left(c) >= 4
    BY LeftType
  <2> QED
    BY <1>1, <2>1, ReadInt32Type
<1> QED
  BY <1>1, <1>2 DEF Behind

LEMMA DataKept ==
  ASSUME Inv, [Next]_vars
  PROVE  caret'.data = caret.data
<1>1. Within(caret)
  BY InvWithin DEF Inv
<1>2. CASE ReadFlags
  BY <1>1, <1>2, SameData DEF ReadFlags
<1>3. CASE ReadBody
  <2>1. Within(Inc(caret, 1))
    BY <1>1, <1>3, AtCharLeft, IncType DEF ReadBody, AtSection
  <2>2. /\ Behind(ReadInt32(Inc(caret, 1))).data = caret.data
        /\ SetError(ReadInt32(Inc(caret, 1)).caret).data = caret.data
    BY <1>1, <2>1, SameData, ReadInt32Type
  <2> QED
    BY <1>3, <2>2 DEF ReadBody, Push
<1>4. CASE OpenSequence
  <2> DEFINE r == ReadInt32(Inc(caret, 1))
             n == NulOffset(r.caret)
  <2>1. Within(Inc(caret, 1))
    BY <1>1, <1>4, AtCharLeft, IncType DEF OpenSequence, AtSection
  <2>2. Within(r.caret) /\ r.caret.data = caret.data
    BY <1>1, <2>1, SameData, ReadInt32Type
  <2>3. Within(Inc(r.caret, n)) /\ Inc(r.caret, n).data = caret.data
    BY <2>2, SameData, NulOffsetType, IncType
  <2>4. Inc(r.caret, n + 1).data = caret.data
    BY <2>2, SameData
  <2>5. /\ SetError(r.caret).data = caret.data
        /\ SetError(Inc(r.caret, n)).data = caret.data
    BY <2>2, <2>3, SameData
  <2> HIDE DEF r, n
  <2> QED
    BY <1>4, <2>4, <2>5 DEF OpenSequence, Push, r, n
<1>5. CASE ReadDocument
  <2>1. /\ Behind(ReadInt32(caret)).data = caret.data
        /\ SetError(ReadInt32(caret).caret).data = caret.data
    BY <1>1, SameData, ReadInt32Type
  <2> QED
    BY <1>5, <2>1 DEF ReadDocument, Push
<1>6. CASE CloseSequence
  BY <1>6 DEF CloseSequence, Push
<1>7. CASE UnknownSection
  BY <1>1, <1>7, SameData DEF UnknownSection
<1>8. CASE EndOfMessage \/ Finished \/ UNCHANGED vars
  BY <1>8 DEF EndOfMessage, Finished, vars
<1> QED
  BY <1>2, <1>3, <1>4, <1>5, <1>6, <1>7, <1>8 DEF Next, Step

(* What the caret is at between two sections. *)
LEMMA AtNext ==
  ASSUME Inv, NEW m, IsMessage(m), caret.data = OpMsgBytes(m), ~caret.error, Between(m)
  PROVE  /\ Len(sections) \in Nat
         /\ Len(sections) = Len(m.sections) => ~CanContinue(caret)
         /\ Len(sections) < Len(m.sections) =>
              LET sb == SectionBytes(m.sections[Len(sections) + 1]) IN
              /\ Len(sections) + 1 \in 1 .. Len(m.sections)
              /\ sb \in Seq(BsonByte) /\ Len(sb) >= 1 /\ Len(sb) <= Left(caret)
              /\ CanContinue(caret) /\ CurrByte(caret) = sb[1]
              /\ \A i \in 1 .. Len(sb) : caret.data[caret.pos + i] = sb[i]
              /\ caret.pos + Len(sb) = Begin(m, Len(sections) + 2)
<1>1. Len(sections) \in Nat /\ Within(caret) /\ Len(m.sections) \in Nat
  BY InvWithin, PartsType DEF Inv, TypeOK
<1>2. caret.pos = Begin(m, Len(sections) + 1)
  BY DEF Between
<1>3. ASSUME Len(sections) = Len(m.sections)
      PROVE  ~CanContinue(caret)
  <2>1. caret.pos = Len(caret.data)
    BY <1>2, <1>3, MessageBytes
  <2> QED
    BY <1>1, <2>1 DEF CanContinue, DataSize, Within, CaretType
<1>4. ASSUME Len(sections) < Len(m.sections)
      PROVE  LET sb == SectionBytes(m.sections[Len(sections) + 1]) IN
             /\ Len(sections) + 1 \in 1 .. Len(m.sections)
             /\ sb \in Seq(BsonByte) /\ Len(sb) >= 1 /\ Len(sb) <= Left(caret)
             /\ CanContinue(caret) /\ CurrByte(caret) = sb[1]
             /\ \A i \in 1 .. Len(sb) : caret.data[caret.pos + i] = sb[i]
             /\ caret.pos + Len(sb) = Begin(m, Len(sections) + 2)
  <2> DEFINE k  == Len(sections) + 1
             s  == m.sections[k]
             sb == SectionBytes(s)
  <2>1. k \in 1 .. Len(m.sections) /\ k + 1 = Len(sections) + 2
    BY <1>1, <1>4
  <2>2. (s \in BodyType /\ s.document # Null) \/ IsSequence(s)
    BY <2>1, PartsType, SectionType
  <2>3. sb \in Seq(BsonByte) /\ Len(sb) >= 1
    <3>1. CASE s \in BodyType /\ s.document # Null
      BY <3>1, BodyBytes
    <3>2. CASE IsSequence(s)
      BY <3>2, SequenceBytes, ContentBytes
    <3> QED
      BY <2>2, <3>1, <3>2
  <2>4. /\ Begin(m, k) \in Nat
        /\ Begin(m, k + 1) = Begin(m, k) + Len(sb)
        /\ Begin(m, k + 1) <= Len(OpMsgBytes(m))
        /\ \A i \in 1 .. Len(sb) : OpMsgBytes(m)[Begin(m, k) + i] = sb[i]
    BY <2>1, MessageBytes
  <2> HIDE DEF k, sb
  <2>5. caret.pos = Begin(m, k) /\ Len(sb) \in Nat
    BY <1>2, <2>3 DEF k
  <2>6. \A i \in 1 .. Len(sb) : caret.data[caret.pos + i] = sb[i]
    BY <2>4, <2>5
  <2>7. Left(caret) = Len(OpMsgBytes(m)) - caret.pos /\ Len(OpMsgBytes(m)) \in Nat
    BY MessageBytes DEF Left, DataSize
  <2>8. Len(sb) <= Left(caret) /\ caret.pos < DataSize(caret)
    BY <2>3, <2>4, <2>5, <2>7 DEF DataSize, Left
  <2>9. CurrByte(caret) = sb[1]
    BY <2>3, <2>5, <2>6 DEF CurrByte
  <2>10. caret.pos + Len(sb) = Begin(m, Len(sections) + 2)
    BY <2>1, <2>4, <2>5
  <2> QED
    BY <2>1, <2>3, <2>6, <2>8, <2>9, <2>10 DEF CanContinue, sb, k
<1> QED
  BY <1>1, <1>3, <1>4

(* A section of the message has been read. *)
LEMMA PushedSoFar ==
  ASSUME Inv, NEW m, IsMessage(m), ~caret.error, SectionsSoFar(m),
         Len(sections) < Len(m.sections),
         NEW c, Push(m.sections[Len(sections) + 1], c), ~c.error,
         c.pos = Begin(m, Len(sections) + 2)
  PROVE  ReadSoFar(m)'
<1> DEFINE s == m.sections[Len(sections) + 1]
<1>1. /\ caret' = c /\ sections' = Append(sections, s) /\ pc' = "sections"
      /\ flags' = flags
  BY DEF Push
<1>2. sections \in Seq(BodyType \cup SequenceType)
  BY DEF Inv, TypeOK
<1>3. Len(m.sections) \in Nat /\ DOMAIN m.sections = 1 .. Len(m.sections)
  BY PartsType
<1>4. Len(sections) \in Nat /\ Len(sections) + 1 \in DOMAIN m.sections
  BY <1>2, <1>3
<1>5. s \in BodyType \cup SequenceType
  BY <1>4, SectionType DEF IsSequence
<1> HIDE DEF s
<1>6. /\ Len(sections') = Len(sections) + 1
      /\ \A i \in 1 .. Len(sections) : sections'[i] = sections[i]
      /\ sections'[Len(sections) + 1] = s
  BY <1>1, <1>2, <1>5, AppendProperties
<1>7. \A i \in 1 .. Len(sections') : sections'[i] = m.sections[i]
  <2> SUFFICES ASSUME NEW i \in 1 .. Len(sections')
               PROVE  sections'[i] = m.sections[i]
    OBVIOUS
  <2>1. CASE i = Len(sections) + 1
    BY <1>6, <2>1 DEF s
  <2>2. CASE i # Len(sections) + 1
    <3>1. i \in 1 .. Len(sections)
      BY <1>4, <1>6, <2>2
    <3> QED
      BY <1>6, <3>1 DEF SectionsSoFar
  <2> QED
    BY <2>1, <2>2
<1>8. Len(sections') <= Len(m.sections) /\ Len(sections') + 1 = Len(sections) + 2
  BY <1>3, <1>4, <1>6
<1>9. SectionsSoFar(m)'
  BY <1>1, <1>7, <1>8 DEF SectionsSoFar
<1> QED
  BY <1>1, <1>8, <1>9 DEF ReadSoFar, Between

LEMMA ReadFlagsSoFar ==
  ASSUME Inv, NEW m, IsMessage(m), caret.data = OpMsgBytes(m), ReadSoFar(m), ReadFlags
  PROVE  ReadSoFar(m)'
<1> DEFINE r == ReadInt32(caret)
           n == FlagBits(m.flags)
<1>1. /\ Within(caret) /\ sections = <<>> /\ caret.pos = 0 /\ ~caret.error
      /\ pc = "flags"
  BY InvWithin DEF Inv, ReadFlags, ReadSoFar
<1>2. m.flags \in Flags
  BY DEF IsMessage
<1>3. n \in Int /\ -MaxInt32 - 1 <= n /\ n <= MaxInt32
  <2>1. n \in Nat /\ n <= 65539
    BY <1>2, FlagBitsRange
  <2> HIDE DEF n
  <2> QED
    BY <2>1 DEF MaxInt32
<1>4. Left(caret) >= 4
  BY <1>1, MessageBytes DEF Left, DataSize
<1>5. \A i \in 1 .. 4 : caret.data[caret.pos + i] = Int32Bytes(n)[i]
  <2>1. \A i \in 1 .. 4 : caret.data[i] = Int32Bytes(n)[i]
    BY MessageBytes
  <2>2. \A i \in 1 .. 4 : caret.pos + i = i
    BY <1>1
  <2> HIDE DEF n
  <2> QED
    BY <2>1, <2>2
<1>6. r.value = n /\ r.caret = Inc(caret, 4)
  <2> HIDE DEF n
  <2> QED
    BY <1>1, <1>3, <1>4, <1>5, ReadAt
<1>7. Inc(caret, 4).pos = 4 /\ ~Inc(caret, 4).error
  <2>1. 4 \in Nat /\ 4 <= Left(caret)
    BY <1>1, <1>4, LeftType
  <2> QED
    BY <1>1, <2>1, IncType
<1>8. flags' = m.flags
  <2> HIDE DEF n, r
  <2>1. flags' = [ checksumPresent |-> IsSet(n, FLAG_CHECKSUM_PRESENT),
                   moreToCome      |-> IsSet(n, FLAG_MORE_TO_COME),
                   exhaustAllowed  |-> IsSet(n, FLAG_EXHAUST_ALLOWED) ]
    BY <1>6 DEF ReadFlags, r
  <2>2. /\ IsSet(n, FLAG_CHECKSUM_PRESENT) = m.flags.checksumPresent
        /\ IsSet(n, FLAG_MORE_TO_COME) = m.flags.moreToCome
        /\ IsSet(n, FLAG_EXHAUST_ALLOWED) = m.flags.exhaustAllowed
    BY <1>2, FlagBitsRange DEF n
  <2> QED
    BY <1>2, <2>1, <2>2 DEF Flags
<1>9. caret' = Inc(caret, 4) /\ pc' = "sections" /\ sections' = <<>>
  BY <1>1, <1>6 DEF ReadFlags
<1>10. Begin(m, Len(sections') + 1) = 4
  <2>1. First(Parts(m), 0) = <<>>
    BY FirstNone
  <2>2. Len(sections') + 1 - 1 = 0 /\ Len(<<>>) = 0
    BY <1>9
  <2> QED
    BY <2>1, <2>2 DEF Begin
<1>11. SectionsSoFar(m)'
  <2>1. Len(sections') = 0
    BY <1>9
  <2>2. Len(m.sections) \in Nat
    BY PartsType
  <2> QED
    BY <1>8, <2>1, <2>2 DEF SectionsSoFar
<1> QED
  BY <1>7, <1>9, <1>10, <1>11 DEF ReadSoFar, Between

LEMMA ReadBodySoFar ==
  ASSUME Inv, NEW m, IsMessage(m), caret.data = OpMsgBytes(m), ReadSoFar(m), ReadBody
  PROVE  ReadSoFar(m)'
<1> DEFINE k  == Len(sections) + 1
           s  == m.sections[k]
           sb == SectionBytes(s)
           c  == Inc(caret, 1)
           r  == ReadInt32(c)
<1>1. /\ Within(caret) /\ ~caret.error /\ Between(m) /\ SectionsSoFar(m)
      /\ CanContinue(caret) /\ CurrByte(caret) = TYPE_BODY /\ Left(caret) >= 1
  BY InvWithin, AtCharLeft DEF Inv, ReadBody, ReadSoFar, AtSection, AtChar, Between
<1>2. Len(sections) \in Nat /\ Len(m.sections) \in Nat /\ Len(sections) <= Len(m.sections)
  BY <1>1, PartsType DEF SectionsSoFar, Inv, TypeOK
<1>3. Len(sections) < Len(m.sections)
  BY <1>1, <1>2, AtNext
<1>4. /\ k \in 1 .. Len(m.sections) /\ sb[1] = TYPE_BODY
      /\ sb \in Seq(BsonByte) /\ Len(sb) <= Left(caret)
      /\ \A i \in 1 .. Len(sb) : caret.data[caret.pos + i] = sb[i]
      /\ caret.pos + Len(sb) = Begin(m, Len(sections) + 2)
  BY <1>1, <1>3, AtNext
<1>5. /\ s \in BodyType /\ s.document # Null /\ Good(s)
  <2>1. Good(s) /\ ((s \in BodyType /\ s.document # Null) \/ IsSequence(s))
    BY <1>4, PartsType, SectionType
  <2>2. IsSequence(s) => FALSE
    BY <1>4, SequenceBytes DEF TYPE_BODY, TYPE_DOCUMENT_SEQUENCE
  <2> QED
    BY <2>1, <2>2
<1> DEFINE doc == s.document
<1>6. /\ doc \in Seq(BsonByte) /\ Len(sb) = 1 + Len(doc)
      /\ \A i \in 1 .. Len(doc) : sb[1 + i] = doc[i]
      /\ s = Body(doc)
  <2>1. s = Body(doc)
    BY <1>5 DEF BodyType, Body
  <2> QED
    BY <1>5, <2>1, BodyBytes
<1>7. Counts(doc)
  <2>1. s.type = TYPE_BODY
    BY <1>5 DEF BodyType
  <2>2. \A j \in DOMAIN <<doc>> : Counts(<<doc>>[j])
    BY <1>5, <2>1 DEF Good, Documents
  <2> HIDE DEF doc
  <2>3. 1 \in DOMAIN <<doc>> /\ <<doc>>[1] = doc
    OBVIOUS
  <2> QED
    BY <2>2, <2>3
<1> HIDE DEF doc, sb, s, k
<1>8. Len(doc) \in Nat /\ caret.pos \in Nat
  BY <1>1, <1>6 DEF Within, CaretType
<1>9. /\ Within(c) /\ c.data = caret.data /\ c.pos = caret.pos + 1 /\ ~c.error
      /\ Left(c) = Left(caret) - 1
  <2>1. 1 \in Nat /\ 1 <= Left(caret)
    BY <1>1, LeftType
  <2> QED
    BY <1>1, <2>1, IncType
<1>10. Len(doc) <= Left(c)
  BY <1>1, <1>4, <1>6, <1>8, <1>9, LeftType
<1> HIDE DEF c
<1>11. \A i \in 1 .. Len(doc) : c.data[c.pos + i] = doc[i]
  <2> SUFFICES ASSUME NEW i \in 1 .. Len(doc)
               PROVE  c.data[c.pos + i] = doc[i]
    OBVIOUS
  <2>1. c.pos + i = caret.pos + (1 + i) /\ 1 + i \in 1 .. Len(sb)
    <3>1. Len(sb) = 1 + Len(doc) /\ c.pos = caret.pos + 1 /\ i \in Nat /\ 1 <= i /\ i <= Len(doc)
      BY <1>6, <1>8, <1>9
    <3> QED
      BY <1>8, <3>1
  <2>2. caret.data[caret.pos + (1 + i)] = sb[1 + i]
    BY <1>4, <2>1
  <2> QED
    BY <1>6, <1>9, <2>1, <2>2
<1>12. r.value = Len(doc) /\ Fits(r) /\ CurrBytes(c, Len(doc)) = doc
  BY <1>6, <1>7, <1>9, <1>10, <1>11, DocumentAt
<1>13. /\ Behind(r).pos = c.pos + Len(doc) /\ ~Behind(r).error
  <2>1. /\ Behind(ReadInt32(c)).pos = c.pos + ReadInt32(c).value
        /\ Behind(ReadInt32(c)).error = c.error
    BY <1>9, <1>12, BehindAt
  <2> QED
    BY <1>9, <1>12, <2>1
<1>14. Behind(r).pos = Begin(m, Len(sections) + 2)
  BY <1>4, <1>6, <1>8, <1>9, <1>13
<1>15. Push(Body(CurrBytes(c, r.value)), Behind(r))
  BY <1>12 DEF ReadBody, c
<1>16. Push(s, Behind(r))
  BY <1>6, <1>12, <1>15
<1>17. Push(m.sections[Len(sections) + 1], Behind(r))
  BY <1>16 DEF s, k
<1> HIDE DEF r
<1> QED
  BY <1>1, <1>3, <1>13, <1>14, <1>17, PushedSoFar

(* The first byte of a sequence, its size, identifier and terminator. *)
LEMMA OpenSequenceSoFar ==
  ASSUME Inv, NEW m, IsMessage(m), caret.data = OpMsgBytes(m), ReadSoFar(m), OpenSequence
  PROVE  ReadSoFar(m)'
<1> DEFINE k  == Len(sections) + 1
           s  == m.sections[k]
           sb == SectionBytes(s)
           sc == SequenceContent(s)
           id == s.identifier
           l  == Len(id)
           v  == 4 + Len(sc)
           c  == Inc(caret, 1)
           r  == ReadInt32(c)
<1>1. /\ Within(caret) /\ ~caret.error /\ Between(m) /\ SectionsSoFar(m)
      /\ CanContinue(caret) /\ CurrByte(caret) = TYPE_DOCUMENT_SEQUENCE /\ Left(caret) >= 1
  BY InvWithin, AtCharLeft DEF Inv, OpenSequence, ReadSoFar, AtSection, AtChar, Between
<1>2. Len(sections) \in Nat /\ Len(m.sections) \in Nat /\ Len(sections) <= Len(m.sections)
  BY <1>1, PartsType DEF SectionsSoFar, Inv, TypeOK
<1>3. Len(sections) < Len(m.sections)
  BY <1>1, <1>2, AtNext
<1>4. /\ k \in 1 .. Len(m.sections) /\ sb[1] = TYPE_DOCUMENT_SEQUENCE
      /\ sb \in Seq(BsonByte) /\ Len(sb) <= Left(caret)
      /\ \A i \in 1 .. Len(sb) : caret.data[caret.pos + i] = sb[i]
      /\ caret.pos + Len(sb) = Begin(m, Len(sections) + 2)
  BY <1>1, <1>3, AtNext
<1>5. IsSequence(s) /\ IsWritable(s)
  <2>1. IsWritable(s) /\ ((s \in BodyType /\ s.document # Null) \/ IsSequence(s))
    BY <1>4, PartsType, SectionType
  <2>2. s \in BodyType /\ s.document # Null => FALSE
    BY <1>4, BodyBytes DEF TYPE_BODY, TYPE_DOCUMENT_SEQUENCE
  <2> QED
    BY <2>1, <2>2
<1>6. /\ id \in Seq(BsonByte) /\ l \in Nat /\ sc \in Seq(BsonByte)
      /\ Len(sc) = l + 1 + Len(FlattenSeq(s.documents))
      /\ Len(FlattenSeq(s.documents)) \in Nat
      /\ \A i \in 1 .. l : sc[i] = id[i]
      /\ sc[l + 1] = 0
  <2>1. s.documents \in Seq(Seq(BsonByte)) /\ id \in Seq(BsonByte)
    BY <1>5, ContentBytes
  <2>2. FlattenSeq(s.documents) \in Seq(BsonByte)
    BY <2>1, FlattenType
  <2> QED
    BY <1>5, <2>1, <2>2, ContentBytes, NaturalType
<1>7. /\ Len(sb) = 5 + Len(sc)
      /\ \A i \in 1 .. 4 : sb[1 + i] = Int32Bytes(v)[i]
      /\ \A i \in 1 .. Len(sc) : sb[5 + i] = sc[i]
  BY <1>5, SequenceBytes
<1>8. v <= MaxInt32 /\ \A j \in 1 .. l : id[j] # 0
  <2>1. s.type = TYPE_DOCUMENT_SEQUENCE
    BY <1>5 DEF IsSequence, SequenceType
  <2>2. DOMAIN id = 1 .. l
    BY <1>6
  <2> QED
    BY <1>5, <2>1, <2>2 DEF IsWritable
<1> HIDE DEF sb, sc, id, s, k
<1>9. Len(sc) \in Nat /\ Len(sc) >= l + 1 /\ caret.pos \in Nat
  <2>1. caret.pos \in Nat
    BY <1>1 DEF Within, CaretType
  <2> QED
    BY <1>6, <2>1
<1>10. /\ Within(c) /\ c.data = caret.data /\ c.pos = caret.pos + 1 /\ ~c.error
       /\ Left(c) = Left(caret) - 1
  <2>1. 1 \in Nat /\ 1 <= Left(caret)
    BY <1>1, LeftType
  <2> QED
    BY <1>1, <2>1, IncType
<1>11. Left(caret) \in Nat /\ Left(c) >= 4 + Len(sc)
  <2>1. Left(caret) \in Nat /\ Len(sb) <= Left(caret) /\ Len(sb) = 5 + Len(sc)
        /\ Left(c) = Left(caret) - 1
    BY <1>1, <1>4, <1>7, <1>10, LeftType
  <2> QED
    BY <1>9, <2>1
<1> HIDE DEF c
<1>12. \A i \in 1 .. 4 : c.data[c.pos + i] = Int32Bytes(v)[i]
  <2> SUFFICES ASSUME NEW i \in 1 .. 4
               PROVE  c.data[c.pos + i] = Int32Bytes(v)[i]
    OBVIOUS
  <2>1. c.pos + i = caret.pos + (1 + i) /\ 1 + i \in 1 .. Len(sb)
    <3>1. Len(sb) = 5 + Len(sc) /\ c.pos = caret.pos + 1
      BY <1>7, <1>10
    <3> QED
      BY <1>9, <3>1
  <2>2. caret.data[caret.pos + (1 + i)] = sb[1 + i]
    BY <1>4, <2>1
  <2> QED
    BY <1>7, <1>10, <2>1, <2>2
<1>13. r.value = v /\ r.caret = Inc(c, 4)
  <2>1. v \in Int /\ Left(c) >= 4 /\ v >= 0
    <3>1. Left(c) \in Nat
      BY <1>10, LeftType
    <3> QED
      BY <1>9, <1>11, <3>1
  <2>2. \A n \in Int : n >= 0 => -MaxInt32 - 1 <= n
    BY SMT DEF MaxInt32
  <2> HIDE DEF v
  <2> QED
    BY <1>8, <1>10, <1>12, <2>1, <2>2, ReadAt
<1> DEFINE d == r.caret
<1>14. /\ Within(d) /\ d.data = caret.data /\ d.pos = caret.pos + 5 /\ ~d.error
       /\ Left(d) >= Len(sc) /\ Left(d) \in Nat
  <2>1. 4 \in Nat /\ 4 <= Left(c)
    <3>1. Left(c) \in Nat
      BY <1>10, LeftType
    <3> QED
      BY <1>9, <1>11, <3>1
  <2>2. /\ Within(Inc(c, 4)) /\ Inc(c, 4).data = c.data /\ Inc(c, 4).pos = c.pos + 4
        /\ Inc(c, 4).error = c.error /\ Left(Inc(c, 4)) = Left(c) - 4
    BY <1>10, <2>1, IncType
  <2>3. Within(d) /\ d.data = caret.data /\ ~d.error
    BY <1>10, <1>13, <2>2
  <2>4. d.pos = c.pos + 4 /\ Left(d) = Left(c) - 4 /\ c.pos = caret.pos + 1
    BY <1>10, <1>13, <2>2
  <2>5. Left(c) \in Nat
    BY <1>10, LeftType
  <2> HIDE DEF d
  <2> QED
    BY <1>9, <1>11, <2>3, <2>4, <2>5
<1>15. Fits(r)
  BY <1>9, <1>13, <1>14 DEF Fits
<1> HIDE DEF d
<1>16. ASSUME NEW i \in 1 .. Len(sc)
       PROVE  d.data[d.pos + i] = sc[i]
  <2>1. d.pos + i = caret.pos + (5 + i) /\ 5 + i \in 1 .. Len(sb)
    <3>1. Len(sb) = 5 + Len(sc) /\ d.pos = caret.pos + 5
      BY <1>7, <1>14
    <3> QED
      BY <1>9, <3>1
  <2>2. caret.data[caret.pos + (5 + i)] = sb[5 + i]
    BY <1>4, <2>1
  <2> QED
    BY <1>7, <1>14, <2>1, <2>2
<1>17. NulOffset(d) = l
  <2>1. d.data[d.pos + l + 1] = 0
    <3>1. l + 1 \in 1 .. Len(sc) /\ d.pos + (l + 1) = d.pos + l + 1
      <4>1. d.pos \in Nat /\ l \in Nat
        BY <1>6, <1>14 DEF Within, CaretType
      <4> HIDE DEF l
      <4> QED
        BY <1>9, <4>1
    <3> QED
      BY <1>6, <1>16, <3>1
  <2>2. \A j \in 1 .. l : d.data[d.pos + j] # 0
    <3>1. \A j \in 1 .. l : j \in 1 .. Len(sc)
      BY <1>6, <1>9
    <3> QED
      BY <1>6, <1>8, <1>16, <3>1
  <2>3. l \in Nat /\ l < Left(d)
    BY <1>6, <1>9, <1>14
  <2> HIDE DEF l
  <2> QED
    BY <1>14, <2>1, <2>2, <2>3, NulAt
<1>18. CurrBytes(d, l) = id
  <2>1. l \in Nat /\ l <= Left(d)
    BY <1>6, <1>9, <1>14
  <2>2. /\ CurrBytes(d, l) \in Seq(BsonByte) /\ Len(CurrBytes(d, l)) = l
        /\ \A i \in 1 .. l : CurrBytes(d, l)[i] = d.data[d.pos + i]
    BY <1>14, <2>1, CurrBytesType
  <2>3. \A i \in 1 .. l : i \in 1 .. Len(sc)
    BY <1>6, <1>9
  <2>4. \A i \in 1 .. l : CurrBytes(d, l)[i] = id[i]
    BY <1>6, <1>16, <2>2, <2>3
  <2> QED
    BY <1>6, <2>2, <2>4, SeqEqual
<1>19. l < Left(d)
  BY <1>6, <1>9, <1>14
<1>20. /\ caret' = Inc(d, l + 1)
       /\ section' = [ section |-> Sequence(id, <<>>), size |-> v, progress |-> Progress(id) ]
       /\ pc' = "sequence" /\ UNCHANGED <<flags, sections>>
  <2>1. NulOffset(d) # Left(d)
    BY <1>14, <1>17, <1>19
  <2> HIDE DEF l, v, r
  <2> QED
    BY <1>13, <1>15, <1>17, <1>18, <1>19, <2>1 DEF OpenSequence, c, d, r
<1>21. Inc(d, l + 1).pos = d.pos + (l + 1) /\ ~Inc(d, l + 1).error
  <2>1. l + 1 \in Nat /\ l + 1 <= Left(d)
    BY <1>6, <1>14, <1>19
  <2> QED
    BY <1>14, <2>1, IncType
<1>22. caret'.pos = Begin(m, k) + 1 + (4 + l + 1)
  <2>1. caret'.pos = d.pos + (l + 1) /\ d.pos = caret.pos + 5 /\ caret.pos = Begin(m, k)
    BY <1>1, <1>14, <1>20, <1>21 DEF Between, k
  <2> QED
    BY <1>6, <1>9, <2>1
<1>23. /\ section'.section.identifier = id /\ section'.section.documents = <<>>
       /\ section'.size = v /\ section'.progress = 4 + l + 1
  BY <1>20 DEF Sequence, Progress
<1>24. 4 + l + 1 = 4 + l + 1 + Len(First(s.documents, 0))
  <2>1. First(s.documents, 0) = <<>> /\ Len(<<>>) = 0
    BY FirstNone
  <2> QED
    BY <1>6, <2>1
<1>25. DocumentsSoFar(m, s)'
  <2>1. Len(section'.section.documents) = 0 /\ 0 <= Len(s.documents)
    <3>1. s.documents \in Seq(Seq(BsonByte))
      BY <1>5, ContentBytes
    <3> QED
      BY <1>23, <3>1
  <2>2. /\ section'.size = 4 + Len(SequenceContent(s))
        /\ section'.section.identifier = s.identifier
    BY <1>23 DEF id, sc
  <2>3. section'.progress = 4 + Len(s.identifier) + 1 + Len(First(s.documents, 0))
    BY <1>23, <1>24 DEF id
  <2>4. caret'.pos = Begin(m, Len(sections') + 1) + 1 + section'.progress
    BY <1>20, <1>22, <1>23 DEF k
  <2>5. \A i \in 1 .. 0 : section'.section.documents[i] = s.documents[i]
    OBVIOUS
  <2>6. s' = s
    BY <1>20 DEF s, k
  <2> HIDE DEF v, l
  <2> QED
    BY <1>5, <2>1, <2>2, <2>3, <2>4, <2>5, <2>6 DEF DocumentsSoFar
<1>26. SectionsSoFar(m)' /\ Len(sections') + 1 <= Len(m.sections)
  BY <1>1, <1>2, <1>3, <1>20 DEF SectionsSoFar
<1> QED
  BY <1>20, <1>21, <1>25, <1>26 DEF ReadSoFar, Inside, s, k

(* What the caret is at between two documents of a sequence. *)
Ahead(m, s, j) ==
  LET doc == s.documents[j + 1] IN
  /\ j + 1 \in 1 .. Len(s.documents)
  /\ doc \in Seq(BsonByte) /\ Counts(doc) /\ Len(doc) <= Left(caret)
  /\ \A i \in 1 .. Len(doc) : caret.data[caret.pos + i] = doc[i]
  /\ section.progress + Len(doc) <= section.size
  /\ Len(First(s.documents, j + 1)) = Len(First(s.documents, j)) + Len(doc)

LEMMA AtDocument ==
  ASSUME Inv, NEW m, IsMessage(m), caret.data = OpMsgBytes(m), Inside(m),
         NEW s, s = m.sections[Len(sections) + 1],
         NEW j, j = Len(section.section.documents)
  PROVE  /\ IsSequence(s) /\ j \in Nat /\ Len(s.documents) \in Nat /\ j <= Len(s.documents)
         /\ j = Len(s.documents) => /\ section.progress = section.size
                                   /\ caret.pos = Begin(m, Len(sections) + 2)
         /\ j < Len(s.documents) => Ahead(m, s, j)
<1> DEFINE k   == Len(sections) + 1
           b   == Begin(m, k)
           sb  == SectionBytes(s)
           sc  == SequenceContent(s)
           l   == Len(s.identifier)
           ds  == s.documents
           fl  == FlattenSeq(ds)
           F   == Len(First(ds, j))
<1>1. /\ Within(caret) /\ IsSequence(s) /\ j <= Len(ds)
      /\ section.size = 4 + Len(sc) /\ section.progress = 4 + l + 1 + F
      /\ caret.pos = b + 1 + section.progress
      /\ Len(sections) \in Nat /\ k <= Len(m.sections)
  <2>1. Within(caret) /\ Len(sections) \in Nat
    BY InvWithin DEF Inv, TypeOK
  <2>2. k <= Len(m.sections) /\ DocumentsSoFar(m, s)
    BY DEF Inside
  <2>3. /\ IsSequence(s) /\ j <= Len(ds)
        /\ section.size = 4 + Len(sc) /\ section.progress = 4 + l + 1 + F
        /\ caret.pos = b + 1 + section.progress
    BY <2>2 DEF DocumentsSoFar
  <2> HIDE DEF k, b, sc, l, ds, F
  <2> QED
    BY <2>1, <2>2, <2>3
<1>2. section.section \in SequenceType
  BY DEF Inv, TypeOK
<1>3. j \in Nat
  BY <1>2 DEF SequenceType
<1>4. /\ s.identifier \in Seq(BsonByte) /\ ds \in Seq(Seq(BsonByte))
      /\ sc \in Seq(BsonByte)
      /\ Len(sc) = l + 1 + Len(fl)
      /\ \A i \in 1 .. Len(fl) : sc[l + 1 + i] = fl[i]
  BY <1>1, ContentBytes
<1>5. fl \in Seq(BsonByte)
  BY <1>4, FlattenType
<1>6. /\ l \in Nat /\ Len(fl) \in Nat /\ Len(ds) \in Nat
  BY <1>4, <1>5
<1>7. k \in 1 .. Len(m.sections) /\ k + 1 = Len(sections) + 2
  BY <1>1, PartsType
<1>8. /\ b \in Nat /\ Begin(m, k + 1) = b + Len(sb)
      /\ Begin(m, k + 1) <= Len(OpMsgBytes(m))
      /\ \A i \in 1 .. Len(sb) : OpMsgBytes(m)[b + i] = sb[i]
  BY <1>7, MessageBytes
<1>9. /\ Len(sb) = 5 + Len(sc)
      /\ \A i \in 1 .. Len(sc) : sb[5 + i] = sc[i]
  BY <1>1, SequenceBytes
<1> HIDE DEF sb, sc, fl, l, b
<1>10. Len(sc) = l + 1 + Len(fl) /\ Len(sb) = 6 + l + Len(fl)
  <2>1. Len(sc) = l + 1 + Len(fl) /\ Len(sb) = 5 + Len(sc)
    BY <1>4, <1>9
  <2> QED
    BY <1>6, <2>1
<1>11. ASSUME NEW i \in 1 .. Len(fl)
       PROVE  caret.data[b + 6 + l + i] = fl[i]
  <2>1. /\ l + 1 + i \in 1 .. Len(sc) /\ 5 + (l + 1 + i) \in 1 .. Len(sb)
        /\ b + (5 + (l + 1 + i)) = b + 6 + l + i
    BY <1>6, <1>8, <1>10
  <2>2. OpMsgBytes(m)[b + (5 + (l + 1 + i))] = sb[5 + (l + 1 + i)]
    BY <1>8, <2>1
  <2>3. sb[5 + (l + 1 + i)] = sc[l + 1 + i]
    BY <1>9, <2>1
  <2> QED
    BY <1>4, <2>1, <2>2, <2>3
<1>12. F \in Nat
  <2>1. First(ds, j) \in Seq(BsonByte)
    <3>1. j \in 0 .. Len(ds)
      BY <1>1, <1>3, <1>6
    <3> QED
      BY <1>4, <3>1, FirstType
  <2> QED
    BY <2>1, NaturalType
<1>13. ASSUME j = Len(ds)
       PROVE  /\ section.progress = section.size
              /\ caret.pos = Begin(m, Len(sections) + 2)
  <2>1. F = Len(fl)
    BY <1>4, <1>13, FirstAll DEF fl
  <2>2. /\ section.size = 4 + Len(sc) /\ section.progress = 4 + l + 1 + F
        /\ caret.pos = b + 1 + section.progress
    BY <1>1
  <2>3. Begin(m, Len(sections) + 2) = b + Len(sb)
    BY <1>7, <1>8
  <2> HIDE DEF F
  <2>4. section.progress = section.size
    BY <1>6, <1>10, <2>1, <2>2
  <2>5. caret.pos = b + Len(sb)
    BY <1>6, <1>8, <1>10, <2>1, <2>2
  <2> QED
    BY <2>3, <2>4, <2>5
<1>14. ASSUME j < Len(ds)
       PROVE  Ahead(m, s, j)
  <2> DEFINE doc == ds[j + 1]
             G   == Len(First(ds, j + 1))
  <2>1. j + 1 \in 1 .. Len(ds) /\ (j + 1) - 1 = j
    BY <1>3, <1>6, <1>14
  <2>2. /\ doc \in Seq(BsonByte) /\ G = F + Len(doc) /\ G <= Len(fl)
        /\ \A i \in 1 .. Len(doc) : fl[F + i] = doc[i]
    <3> HIDE DEF ds, doc, G, F
    <3>1. ASSUME NEW n \in 1 .. Len(ds), n = j + 1
          PROVE  /\ ds[n] \in Seq(BsonByte)
                 /\ Len(First(ds, n)) = Len(First(ds, n - 1)) + Len(ds[n])
                 /\ Len(First(ds, n)) <= Len(FlattenSeq(ds))
                 /\ \A i \in 1 .. Len(ds[n]) :
                      FlattenSeq(ds)[Len(First(ds, n - 1)) + i] = ds[n][i]
      BY <1>4, PartOfWhole
    <3> QED
      BY <2>1, <3>1, Zenon DEF doc, G, F, fl
  <2>3. Counts(doc)
    <3>1. Good(s) /\ s.type = TYPE_DOCUMENT_SEQUENCE
      BY <1>1, <1>7, PartsType, SectionType DEF IsSequence, SequenceType
    <3>2. Documents(s) = ds
      BY <3>1 DEF Documents, TYPE_BODY, TYPE_DOCUMENT_SEQUENCE
    <3>3. j + 1 \in DOMAIN ds
      BY <1>4, <2>1
    <3> QED
      BY <3>1, <3>2, <3>3 DEF Good
  <2> HIDE DEF ds, doc, F, G
  <2>4. Len(doc) \in Nat
    BY <2>2
  <2>5. /\ section.size = 4 + Len(sc) /\ section.progress = 4 + l + 1 + F
        /\ caret.pos = b + 1 + section.progress
    BY <1>1 DEF F, ds
  <2>6. section.progress + Len(doc) <= section.size
    BY <1>6, <1>10, <1>12, <2>2, <2>4, <2>5
  <2>7. caret.pos = b + 6 + l + F
    BY <1>6, <1>8, <1>12, <2>5
  <2>8. Len(doc) <= Left(caret)
    <3>1. b + Len(sb) <= Len(OpMsgBytes(m)) /\ Len(OpMsgBytes(m)) \in Nat
      BY <1>8, MessageBytes
    <3>2. Left(caret) = Len(OpMsgBytes(m)) - caret.pos
      BY DEF Left, DataSize
    <3>3. F + Len(doc) <= Len(fl)
      BY <2>2
    <3> QED
      BY <1>6, <1>8, <1>10, <1>12, <2>4, <2>7, <3>1, <3>2, <3>3
  <2>9. ASSUME NEW i \in 1 .. Len(doc)
        PROVE  caret.data[caret.pos + i] = doc[i]
    <3>1. F + i \in 1 .. Len(fl) /\ b + 6 + l + (F + i) = caret.pos + i
      <4>1. F + Len(doc) <= Len(fl)
        BY <2>2
      <4> QED
        BY <1>6, <1>8, <1>12, <2>4, <2>7, <4>1
    <3>2. caret.data[b + 6 + l + (F + i)] = fl[F + i]
      BY <1>11, <3>1
    <3> QED
      BY <2>2, <3>1, <3>2
  <2> QED
    BY <2>1, <2>2, <2>3, <2>6, <2>8, <2>9 DEF Ahead, ds, doc, F, G
<1> QED
  BY <1>1, <1>3, <1>6, <1>13, <1>14

LEMMA ReadDocumentSoFar ==
  ASSUME Inv, NEW m, IsMessage(m), caret.data = OpMsgBytes(m), ReadSoFar(m), ReadDocument
  PROVE  ReadSoFar(m)'
<1> DEFINE s   == m.sections[Len(sections) + 1]
           t   == section.section
           j   == Len(t.documents)
           doc == s.documents[j + 1]
           r   == ReadInt32(caret)
<1>1. /\ Within(caret) /\ ~caret.error /\ Inside(m) /\ pc = "sequence"
      /\ section.progress < section.size
      /\ t \in SequenceType /\ section \in [section : SequenceType, size : Int, progress : Nat]
  BY InvWithin DEF Inv, TypeOK, ReadDocument, HasDocument, ReadSoFar
<1>2. /\ IsSequence(s) /\ j \in Nat /\ Len(s.documents) \in Nat /\ j <= Len(s.documents)
      /\ j = Len(s.documents) => section.progress = section.size
      /\ j < Len(s.documents) => Ahead(m, s, j)
  BY <1>1, AtDocument
<1>3. Ahead(m, s, j)
  <2>1. section.progress # section.size
    BY <1>1
  <2> HIDE DEF s, j
  <2> QED
    BY <1>2, <2>1
<1>4. /\ j + 1 \in 1 .. Len(s.documents)
      /\ doc \in Seq(BsonByte) /\ Counts(doc) /\ Len(doc) <= Left(caret)
      /\ \A i \in 1 .. Len(doc) : caret.data[caret.pos + i] = doc[i]
      /\ Len(First(s.documents, j + 1)) = Len(First(s.documents, j)) + Len(doc)
  BY <1>3 DEF Ahead
<1> HIDE DEF doc
<1>5. r.value = Len(doc) /\ Fits(r) /\ CurrBytes(caret, Len(doc)) = doc
  BY <1>1, <1>4, DocumentAt
<1>6. Behind(r).pos = caret.pos + Len(doc) /\ ~Behind(r).error
  <2>1. /\ Behind(ReadInt32(caret)).pos = caret.pos + ReadInt32(caret).value
        /\ Behind(ReadInt32(caret)).error = caret.error
    BY <1>1, <1>5, BehindAt
  <2> QED
    BY <1>1, <1>5, <2>1
<1>7. /\ caret' = Behind(r)
      /\ section' = [ section EXCEPT !.section.documents = Append(@, doc),
                                     !.progress = @ + Len(doc) ]
      /\ UNCHANGED <<flags, sections, pc>>
  BY <1>5 DEF ReadDocument
<1> HIDE DEF r
<1> DEFINE docs == Append(t.documents, doc)
           u    == [t EXCEPT !.documents = docs]
<1>8. /\ docs \in Seq(Seq(BsonByte)) /\ Len(docs) = j + 1
      /\ \A i \in 1 .. j : docs[i] = t.documents[i]
      /\ docs[j + 1] = doc
  <2>1. t.documents \in Seq(Seq(BsonByte))
    BY <1>1 DEF SequenceType
  <2> QED
    BY <1>4, <2>1, AppendProperties
<1>9. /\ section'.section.documents = docs /\ section'.section.identifier = t.identifier
      /\ section'.size = section.size /\ section'.progress = section.progress + Len(doc)
  <2>1. section' = [ section EXCEPT !.section = u, !.progress = section.progress + Len(doc) ]
    BY <1>7
  <2>2. u.documents = docs /\ u.identifier = t.identifier
    BY <1>1 DEF SequenceType
  <2> HIDE DEF u
  <2> QED
    BY <1>1, <2>1, <2>2
<1> HIDE DEF docs
<1>10. /\ t.identifier = s.identifier
       /\ \A i \in 1 .. j : t.documents[i] = s.documents[i]
       /\ section.size = 4 + Len(SequenceContent(s))
       /\ section.progress = 4 + Len(s.identifier) + 1 + Len(First(s.documents, j))
       /\ caret.pos = Begin(m, Len(sections) + 1) + 1 + section.progress
       /\ SectionsSoFar(m) /\ Len(sections) + 1 <= Len(m.sections)
  BY <1>1 DEF Inside, DocumentsSoFar
<1>11. \A i \in 1 .. j + 1 : docs[i] = s.documents[i]
  <2> SUFFICES ASSUME NEW i \in 1 .. j + 1
               PROVE  docs[i] = s.documents[i]
    OBVIOUS
  <2>1. CASE i = j + 1
    BY <1>8, <2>1 DEF doc
  <2>2. CASE i # j + 1
    <3>1. i \in 1 .. j
      BY <1>2, <2>2
    <3> QED
      BY <1>8, <1>10, <3>1
  <2> QED
    BY <2>1, <2>2
<1>12. /\ Len(doc) \in Nat /\ Len(s.identifier) \in Nat
       /\ Len(First(s.documents, j)) \in Nat /\ Begin(m, Len(sections) + 1) \in Nat
  <2>1. s.identifier \in Seq(BsonByte) /\ s.documents \in Seq(Seq(BsonByte))
    BY <1>2, ContentBytes
  <2>2. j \in 0 .. Len(s.documents)
    BY <1>2
  <2>3. First(s.documents, j) \in Seq(BsonByte)
    BY <2>1, <2>2, FirstType
  <2>4. Len(sections) + 1 \in 1 .. Len(m.sections)
    <3>1. Len(sections) \in Nat
      BY DEF Inv, TypeOK
    <3> QED
      BY <1>10, <3>1, PartsType
  <2>5. Begin(m, Len(sections) + 1) \in Nat
    BY <2>4, MessageBytes
  <2> HIDE DEF s, j
  <2> QED
    BY <1>4, <2>1, <2>3, <2>5, NaturalType
<1>13. /\ section'.progress = 4 + Len(s.identifier) + 1 + Len(First(s.documents, j + 1))
       /\ caret'.pos = Begin(m, Len(sections) + 1) + 1 + section'.progress
  <2> DEFINE A == Len(s.identifier)
             B == Len(First(s.documents, j))
             C == Len(First(s.documents, j + 1))
             D == Begin(m, Len(sections) + 1)
             E == Len(doc)
  <2>1. /\ A \in Nat /\ B \in Nat /\ D \in Nat /\ E \in Nat /\ C = B + E
        /\ section.progress = 4 + A + 1 + B
        /\ caret.pos = D + 1 + section.progress
        /\ section'.progress = section.progress + E
        /\ caret'.pos = caret.pos + E
    BY <1>4, <1>6, <1>7, <1>9, <1>10, <1>12
  <2> HIDE DEF A, B, C, D, E
  <2>2. section'.progress = 4 + A + 1 + C /\ caret'.pos = D + 1 + section'.progress
    BY <2>1
  <2> QED
    BY <2>2 DEF A, B, C, D, E
<1>14. s' = s /\ Len(section'.section.documents) = j + 1 /\ j + 1 <= Len(s.documents)
  BY <1>4, <1>7, <1>8, <1>9
<1>15. /\ section'.section.identifier = s.identifier
       /\ section'.size = 4 + Len(SequenceContent(s))
       /\ \A i \in 1 .. j + 1 : section'.section.documents[i] = s.documents[i]
       /\ caret'.pos = Begin(m, Len(sections') + 1) + 1 + section'.progress
  BY <1>7, <1>9, <1>10, <1>11, <1>13
<1>16. SectionsSoFar(m)' /\ Len(sections') + 1 <= Len(m.sections)
  BY <1>7, <1>10 DEF SectionsSoFar
<1>17. ~caret'.error /\ pc' = "sequence"
  BY <1>1, <1>6, <1>7
<1>18. DocumentsSoFar(m, s)'
  <2> HIDE DEF s, j
  <2> QED
    BY <1>2, <1>13, <1>14, <1>15 DEF DocumentsSoFar
<1> QED
  BY <1>16, <1>17, <1>18 DEF ReadSoFar, Inside

LEMMA CloseSequenceSoFar ==
  ASSUME Inv, NEW m, IsMessage(m), caret.data = OpMsgBytes(m), ReadSoFar(m), CloseSequence
  PROVE  ReadSoFar(m)'
<1> DEFINE s == m.sections[Len(sections) + 1]
           t == section.section
           j == Len(t.documents)
<1>1. /\ Within(caret) /\ ~caret.error /\ Inside(m) /\ pc = "sequence"
      /\ t \in SequenceType /\ Push(t, caret) /\ ~HasDocument
  BY InvWithin DEF Inv, TypeOK, CloseSequence, ReadSoFar
<1>2. /\ IsSequence(s) /\ j \in Nat /\ Len(s.documents) \in Nat /\ j <= Len(s.documents)
      /\ j = Len(s.documents) => caret.pos = Begin(m, Len(sections) + 2)
      /\ j < Len(s.documents) => Ahead(m, s, j)
  BY <1>1, AtDocument
<1>3. SectionsSoFar(m) /\ Len(sections) + 1 <= Len(m.sections) /\ DocumentsSoFar(m, s)
  BY <1>1 DEF Inside
<1>4. ~(j < Len(s.documents))
  <2> SUFFICES ASSUME Ahead(m, s, j)
               PROVE  FALSE
    BY <1>2
  <2> DEFINE doc == s.documents[j + 1]
  <2>1. /\ doc \in Seq(BsonByte) /\ Counts(doc) /\ Len(doc) <= Left(caret)
        /\ section.progress + Len(doc) <= section.size
    BY DEF Ahead
  <2> HIDE DEF doc
  <2>2. Len(doc) \in Nat /\ Len(doc) >= 5
    BY <2>1 DEF Counts
  <2>3. section.progress \in Nat /\ section.size \in Int
    BY DEF Inv, TypeOK
  <2>4. section.progress < section.size
    BY <2>1, <2>2, <2>3
  <2>5. CanContinue(caret)
    <3>1. Left(caret) \in Nat /\ Left(caret) >= 5
      BY <1>1, <2>1, <2>2, LeftType
    <3> QED
      BY <1>1, <3>1 DEF CanContinue, Left, DataSize, Within, CaretType
  <2> QED
    BY <1>1, <2>4, <2>5 DEF HasDocument
<1>5. j = Len(s.documents)
  BY <1>2, <1>4
<1>6. t = s
  <2>1. /\ t.identifier = s.identifier
        /\ \A i \in 1 .. j : t.documents[i] = s.documents[i]
    BY <1>3 DEF DocumentsSoFar
  <2>2. s \in SequenceType
    BY <1>2 DEF IsSequence
  <2>3. t.documents \in Seq(Seq(BsonByte)) /\ s.documents \in Seq(Seq(BsonByte))
    BY <1>1, <2>2 DEF SequenceType
  <2> HIDE DEF s, t
  <2>4. t.documents = s.documents
    BY <1>5, <2>1, <2>3, SeqEqual
  <2> QED
    BY <1>1, <2>1, <2>2, <2>4 DEF SequenceType
<1>7. Push(m.sections[Len(sections) + 1], caret)
  BY <1>1, <1>6
<1>8. Len(sections) < Len(m.sections)
  <2>1. Len(sections) \in Nat /\ Len(m.sections) \in Nat
    BY PartsType DEF Inv, TypeOK
  <2> QED
    BY <1>3, <2>1
<1>9. caret.pos = Begin(m, Len(sections) + 2)
  BY <1>2, <1>5
<1> QED
  BY <1>1, <1>3, <1>7, <1>8, <1>9, PushedSoFar

LEMMA UnknownSectionSoFar ==
  ASSUME Inv, NEW m, IsMessage(m), caret.data = OpMsgBytes(m), ReadSoFar(m), UnknownSection
  PROVE  FALSE
<1>1. /\ ~caret.error /\ Between(m) /\ CanContinue(caret)
      /\ CurrByte(caret) \notin {TYPE_BODY, TYPE_DOCUMENT_SEQUENCE}
  BY DEF UnknownSection, ReadSoFar
<1>2. Len(sections) \in Nat /\ Len(m.sections) \in Nat /\ Len(sections) <= Len(m.sections)
  BY <1>1, PartsType DEF Between, SectionsSoFar, Inv, TypeOK
<1>3. Len(sections) < Len(m.sections)
  BY <1>1, <1>2, AtNext
<1> DEFINE k == Len(sections) + 1
           s == m.sections[k]
<1>4. k \in 1 .. Len(m.sections) /\ CurrByte(caret) = SectionBytes(s)[1]
  BY <1>1, <1>3, AtNext
<1>5. (s \in BodyType /\ s.document # Null) \/ IsSequence(s)
  BY <1>4, PartsType, SectionType
<1> HIDE DEF s
<1> QED
  BY <1>1, <1>4, <1>5, BodyBytes, SequenceBytes

LEMMA EndOfMessageSoFar ==
  ASSUME Inv, NEW m, IsMessage(m), caret.data = OpMsgBytes(m), ReadSoFar(m), EndOfMessage
  PROVE  ReadSoFar(m)'
<1>1. /\ ~caret.error /\ Between(m) /\ ~CanContinue(caret) /\ pc' = "parsed"
      /\ UNCHANGED <<caret, flags, sections, section>>
  BY DEF EndOfMessage, ReadSoFar
<1>2. Len(sections) \in Nat /\ Len(m.sections) \in Nat /\ Len(sections) <= Len(m.sections)
  BY <1>1, PartsType DEF Between, SectionsSoFar, Inv, TypeOK
<1>3. Len(sections) = Len(m.sections)
  <2>1. ~(Len(sections) < Len(m.sections))
    BY <1>1, AtNext
  <2> QED
    BY <1>2, <2>1
<1> QED
  BY <1>1, <1>3 DEF ReadSoFar, Between, SectionsSoFar

LEMMA NextSoFar ==
  ASSUME Inv, NEW m, IsMessage(m), caret.data = OpMsgBytes(m), ReadSoFar(m), [Next]_vars
  PROVE  ReadSoFar(m)'
<1>1. CASE UNCHANGED vars
  BY <1>1 DEF vars, ReadSoFar, Between, Inside, SectionsSoFar, DocumentsSoFar
<1>2. CASE Finished
  BY <1>2 DEF Finished, vars, ReadSoFar, Between, Inside, SectionsSoFar, DocumentsSoFar
<1> QED
  BY <1>1, <1>2, ReadFlagsSoFar, ReadBodySoFar, OpenSequenceSoFar, ReadDocumentSoFar,
     CloseSequenceSoFar, UnknownSectionSoFar, EndOfMessageSoFar
     DEF Next, Step

(* What has been read when readFromCaret is done. *)
LEMMA ReadAsWritten ==
  ASSUME Inv, NEW m, IsMessage(m), caret.data = OpMsgBytes(m), ReadSoFar(m),
         pc \in {"parsed", "failed"}
  PROVE  pc = "parsed" /\ m = [flags |-> flags, sections |-> sections]
<1>1. /\ pc = "parsed" /\ flags = m.flags /\ Len(sections) = Len(m.sections)
      /\ \A i \in 1 .. Len(sections) : sections[i] = m.sections[i]
  BY DEF ReadSoFar, Between, SectionsSoFar
<1>2. sections \in Seq(BodyType \cup SequenceType)
  BY DEF Inv, TypeOK
<1>3. m \in [flags : Flags, sections : Seq(BodyType \cup SequenceType)]
  BY DEF IsMessage
<1>4. sections = m.sections
  BY <1>1, <1>2, <1>3, SeqEqual
<1> QED
  BY <1>1, <1>3, <1>4

Written == { m \in Messages : caret.data = OpMsgBytes(m) }

RoundTripInv == Inv /\ \A m \in Written : ReadSoFar(m)

LEMMA InitRoundTrip == Init => RoundTripInv
<1> SUFFICES ASSUME Init, NEW m
             PROVE  ReadSoFar(m)
  BY InitInv DEF RoundTripInv
<1>1. PICK d : caret = Caret(d)
  BY DEF Init
<1> QED
  BY <1>1 DEF Init, Caret, ReadSoFar

LEMMA NextRoundTrip ==
  ASSUME RoundTripInv, [Next]_vars
  PROVE  RoundTripInv'
<1>1. Inv /\ Inv' /\ caret'.data = caret.data
  BY NextInv, DataKept DEF RoundTripInv
<1>2. ASSUME NEW m \in Messages, caret'.data = OpMsgBytes(m)
      PROVE  ReadSoFar(m)'
  <2>1. IsMessage(m) /\ caret.data = OpMsgBytes(m)
    BY <1>1, <1>2, MessagesAssumption
  <2>2. ReadSoFar(m)
    BY <2>1 DEF RoundTripInv, Written
  <2> QED
    BY <1>1, <2>1, <2>2, NextSoFar
<1> QED
  BY <1>1, <1>2 DEF RoundTripInv, Written

LEMMA RoundTripMeaning == RoundTripInv => WrittenIsParsed
<1> SUFFICES ASSUME RoundTripInv, pc \in {"parsed", "failed"}, NEW m \in Messages,
                    OpMsgBytes(m) = caret.data
             PROVE  pc = "parsed" /\ m = [flags |-> flags, sections |-> sections]
  BY DEF WrittenIsParsed
<1>1. IsMessage(m) /\ ReadSoFar(m) /\ Inv
  BY MessagesAssumption DEF RoundTripInv, Written
<1> QED
  BY <1>1, ReadAsWritten

(* Whatever message writeToStream has written, with any flags and any      *)
(* number of bodies and of sequences with any number of documents,         *)
(* readFromCaret accepts, and what it reads is that message.               *)
THEOREM RoundTrip == Spec => []WrittenIsParsed
BY InitRoundTrip, NextRoundTrip, RoundTripMeaning, PTL DEF Spec

-----------------------------------------------------------------------------
(* The sections that have been read cover the data up to the caret.  What  *)
(* is said of them does not depend on where the caret is, only on the data *)
(* and the sections.                                                       *)

BytesAt(d, o, n) == SubSeq(d, o + 1, o + n)

StandsIn(d, s, o) ==
  LET bytes == SectionBytes(s)
      size  == ReadInt32(Inc(Caret(d), o + 1)).value
      last  == s.documents[Len(s.documents)]
  IN
  IF s.type = TYPE_BODY
  THEN BytesAt(d, o, Len(bytes)) = bytes
  ELSE /\ BytesAt(d, o, 1) = <<TYPE_DOCUMENT_SEQUENCE>>
       /\ BytesAt(d, o + 5, Len(bytes) - 5) = SequenceContent(s)
       /\ size <= Len(bytes) - 1
       /\ s.documents # <<>> => Len(bytes) - 1 - Len(last) < size

OffsetIn(ss, i) == 4 + Len(FlattenSeq([k \in 1 .. i - 1 |-> SectionBytes(ss[k])]))

(* A sequence that is being read. *)
StandsOpen(o) ==
  LET s    == section.section
      last == s.documents[Len(s.documents)]
  IN
  /\ BytesAt(caret.data, o, 1) = <<TYPE_DOCUMENT_SEQUENCE>>
  /\ BytesAt(caret.data, o + 5, Len(SequenceContent(s))) = SequenceContent(s)
  /\ section.progress = 4 + Len(SequenceContent(s))
  /\ caret.pos = o + 1 + section.progress
  /\ section.size = ReadInt32(Inc(Caret(caret.data), o + 1)).value
  /\ o + 1 + section.size <= Len(caret.data)
  /\ s.documents # <<>> => section.progress - Len(last) < section.size

Covered ==
  \A i \in DOMAIN sections : StandsIn(caret.data, sections[i], OffsetIn(sections, i))

Placed ==
  ~caret.error =>
    /\ Covered
    /\ pc = "flags" => caret.pos = 0
    /\ pc \in {"sections", "parsed"} => OffsetIn(sections, Len(sections) + 1) = caret.pos
    /\ pc = "sequence" => StandsOpen(OffsetIn(sections, Len(sections) + 1))
    /\ pc = "parsed" => Left(caret) = 0

LEMMA GoodBytes ==
  ASSUME NEW s \in BodyType \cup SequenceType, Good(s)
  PROVE  /\ SectionBytes(s) \in Seq(BsonByte)
         /\ (s \in BodyType /\ s.document # Null) \/ IsSequence(s)
<1>1. CASE s \in BodyType
  <2>1. s.document # Null
    BY <1>1 DEF Good, IsWhole, BodyType
  <2> QED
    BY <1>1, <2>1, BodyBytes
<1>2. CASE s \in SequenceType
  <2>1. s.type = TYPE_DOCUMENT_SEQUENCE /\ TYPE_DOCUMENT_SEQUENCE # TYPE_BODY
    BY <1>2 DEF SequenceType, TYPE_BODY, TYPE_DOCUMENT_SEQUENCE
  <2>2. IsSequence(s)
    BY <1>2, <2>1 DEF Good, IsWhole, IsSequence
  <2> QED
    BY <2>2, SequenceBytes
<1> QED
  BY <1>1, <1>2

(* The sections of a message that has been read without an error. *)
IsRead(ss) ==
  /\ ss \in Seq(BodyType \cup SequenceType)
  /\ \A i \in DOMAIN ss : Good(ss[i])

LEMMA ReadBytes ==
  ASSUME NEW ss, IsRead(ss), NEW n \in 0 .. Len(ss)
  PROVE  [k \in 1 .. n |-> SectionBytes(ss[k])] \in Seq(Seq(BsonByte))
<1>1. \A k \in 1 .. n : SectionBytes(ss[k]) \in Seq(BsonByte)
  <2> SUFFICES ASSUME NEW k \in 1 .. n
               PROVE  SectionBytes(ss[k]) \in Seq(BsonByte)
    OBVIOUS
  <2>1. k \in DOMAIN ss /\ ss[k] \in BodyType \cup SequenceType
    BY DEF IsRead
  <2> QED
    BY <2>1, GoodBytes DEF IsRead
<1> QED
  BY <1>1

LEMMA OffsetType ==
  ASSUME NEW ss, IsRead(ss), NEW i \in 1 .. Len(ss) + 1
  PROVE  OffsetIn(ss, i) \in Nat
<1> DEFINE t == [k \in 1 .. i - 1 |-> SectionBytes(ss[k])]
<1>1. i - 1 \in 0 .. Len(ss)
  BY DEF IsRead
<1>2. t \in Seq(Seq(BsonByte))
  BY <1>1, ReadBytes
<1> HIDE DEF t
<1>3. Len(FlattenSeq(t)) \in Nat
  BY <1>2, FlattenType, NaturalType
<1> QED
  BY <1>3 DEF OffsetIn, t

(* One section more leaves the others where they are. *)
LEMMA OffsetsKept ==
  ASSUME NEW ss, NEW tt, Len(ss) \in Nat, \A k \in 1 .. Len(ss) : tt[k] = ss[k],
         NEW i \in 1 .. Len(ss) + 1
  PROVE  OffsetIn(tt, i) = OffsetIn(ss, i)
<1>1. \A k \in 1 .. i - 1 : tt[k] = ss[k]
  OBVIOUS
<1>2. [k \in 1 .. i - 1 |-> SectionBytes(tt[k])] = [k \in 1 .. i - 1 |-> SectionBytes(ss[k])]
  BY <1>1
<1> QED
  BY <1>2 DEF OffsetIn

LEMMA OffsetNext ==
  ASSUME NEW ss, IsRead(ss), NEW n \in 1 .. Len(ss)
  PROVE  OffsetIn(ss, n + 1) = OffsetIn(ss, n) + Len(SectionBytes(ss[n]))
<1> DEFINE t == [k \in 1 .. n |-> SectionBytes(ss[k])]
           u == [k \in 1 .. n - 1 |-> SectionBytes(ss[k])]
<1>1. n \in 0 .. Len(ss) /\ n - 1 \in 0 .. Len(ss) /\ n \in Nat /\ n + 1 - 1 = n
  BY DEF IsRead
<1>2. t \in Seq(Seq(BsonByte)) /\ u \in Seq(Seq(BsonByte))
  BY <1>1, ReadBytes
<1>3. /\ Len(t) = n /\ Len(u) = n - 1 /\ t[n] = SectionBytes(ss[n])
      /\ \A k \in 1 .. n - 1 : t[k] = u[k]
  BY <1>1
<1> HIDE DEF t, u
<1>4. n \in 1 .. Len(t) /\ n - 1 \in 0 .. Len(t)
  BY <1>1, <1>3
<1>5. First(t, n) = First(t, n - 1) \o t[n] /\ First(t, n) = FlattenSeq(t)
  BY <1>2, <1>3, <1>4, FirstNext, FirstAll
<1>6. First(t, n - 1) = FlattenSeq(u)
  <2>1. n - 1 <= Len(u) /\ \A k \in 1 .. n - 1 : t[k] = u[k]
    BY <1>1, <1>3
  <2>2. First(t, n - 1) = First(u, n - 1)
    BY <1>2, <1>4, <2>1, FirstSame
  <2>3. First(u, Len(u)) = FlattenSeq(u)
    BY <1>2, FirstAll
  <2> QED
    BY <1>3, <2>2, <2>3
<1>7. FlattenSeq(t) = FlattenSeq(u) \o t[n]
  BY <1>5, <1>6
<1>8. FlattenSeq(u) \in Seq(BsonByte) /\ t[n] \in Seq(BsonByte)
  BY <1>2, <1>4, FlattenType, ElementOfSeq
<1>9. Len(FlattenSeq(t)) = Len(FlattenSeq(u)) + Len(t[n])
  BY <1>7, <1>8, ConcatType, Zenon
<1>10. Len(FlattenSeq(u)) \in Nat /\ Len(t[n]) \in Nat
  BY <1>8, NaturalType
<1>11. /\ OffsetIn(ss, n + 1) = 4 + Len(FlattenSeq(t))
       /\ OffsetIn(ss, n) = 4 + Len(FlattenSeq(u))
  BY <1>1 DEF OffsetIn, t, u
<1> QED
  BY <1>3, <1>9, <1>10, <1>11

(* A section has been read, and stands before the caret. *)
LEMMA PushPlaced ==
  ASSUME Inv, Inv', ~caret.error, Covered, caret'.data = caret.data,
         NEW s \in BodyType \cup SequenceType, NEW c, Push(s, c), ~c.error,
         NEW o, o = OffsetIn(sections, Len(sections) + 1),
         StandsIn(caret.data, s, o), c.pos = o + Len(SectionBytes(s))
  PROVE  Placed'
<1> DEFINE n == Len(sections) + 1
<1>1. sections' = Append(sections, s) /\ caret' = c /\ pc' = "sections"
  BY DEF Push
<1>2. sections \in Seq(BodyType \cup SequenceType)
  BY DEF Inv, TypeOK
<1>3. /\ Len(sections') = n /\ Len(sections) \in Nat
      /\ \A k \in 1 .. Len(sections) : sections'[k] = sections[k]
      /\ sections'[n] = s /\ DOMAIN sections' = 1 .. n
  BY <1>1, <1>2, AppendProperties
<1>4. IsRead(sections')
  BY <1>1 DEF Inv, TypeOK, IsRead
<1>5. \A i \in 1 .. n : OffsetIn(sections', i) = OffsetIn(sections, i)
  BY <1>3, OffsetsKept
<1>6. n \in 1 .. Len(sections')
  BY <1>3
<1>7. OffsetIn(sections', n + 1) = c.pos
  <2>1. OffsetIn(sections', n + 1) = OffsetIn(sections', n) + Len(SectionBytes(sections'[n]))
    BY <1>4, <1>6, OffsetNext
  <2>2. n \in 1 .. n
    BY <1>3
  <2> QED
    BY <1>3, <1>5, <2>1, <2>2
<1>8. ASSUME NEW i \in 1 .. n
      PROVE  StandsIn(caret.data, sections'[i], OffsetIn(sections', i))
  <2>1. CASE i = n
    BY <1>3, <1>5, <2>1
  <2>2. CASE i # n
    <3>1. i \in 1 .. Len(sections) /\ i \in DOMAIN sections
      BY <1>2, <1>3, <2>2
    <3> QED
      BY <1>3, <1>5, <3>1 DEF Covered
  <2> QED
    BY <2>1, <2>2
<1>9. Covered'
  BY <1>3, <1>8 DEF Covered
<1> QED
  BY <1>1, <1>3, <1>7, <1>9 DEF Placed

LEMMA BytesAtCaret ==
  ASSUME NEW c, Within(c), NEW n \in Nat, n <= Left(c), NEW o, o = c.pos
  PROVE  BytesAt(c.data, o, n) = CurrBytes(c, n)
BY DEF BytesAt, CurrBytes

(* The bytes of the data at an offset. *)
LEMMA BytesAre ==
  ASSUME NEW d \in Seq(BsonByte), NEW o \in Nat, NEW s \in Seq(BsonByte), o + Len(s) <= Len(d),
         \A i \in 1 .. Len(s) : d[o + i] = s[i]
  PROVE  BytesAt(d, o, Len(s)) = s
<1> DEFINE c == Inc(Caret(d), o)
<1>1. Len(s) \in Nat /\ Len(d) \in Nat
  BY NaturalType
<1>2. Within(Caret(d)) /\ Left(Caret(d)) = Len(d) /\ Caret(d).data = d /\ Caret(d).pos = 0
  BY <1>1 DEF Within, CaretType, Caret, Left, DataSize
<1>3. o <= Left(Caret(d))
  BY <1>1, <1>2
<1>4. Within(c) /\ c.data = d /\ c.pos = o /\ Left(c) = Len(d) - o
  <2>1. /\ Within(Inc(Caret(d), o)) /\ Left(Inc(Caret(d), o)) = Left(Caret(d)) - o
        /\ Inc(Caret(d), o).data = Caret(d).data /\ Inc(Caret(d), o).pos = Caret(d).pos + o
    BY <1>2, <1>3, IncType
  <2> HIDE DEF c
  <2> QED
    BY <1>2, <2>1 DEF c
<1> HIDE DEF c
<1>5. Len(s) <= Left(c)
  BY <1>1, <1>4
<1>6. /\ CurrBytes(c, Len(s)) \in Seq(BsonByte) /\ Len(CurrBytes(c, Len(s))) = Len(s)
      /\ \A i \in 1 .. Len(s) : CurrBytes(c, Len(s))[i] = c.data[c.pos + i]
  BY <1>1, <1>4, <1>5, CurrBytesType
<1>7. CurrBytes(c, Len(s)) = s
  BY <1>4, <1>6, SeqEqual
<1>8. BytesAt(c.data, o, Len(s)) = CurrBytes(c, Len(s))
  BY <1>1, <1>4, <1>5, BytesAtCaret
<1> QED
  BY <1>4, <1>7, <1>8

LEMMA CaretAt ==
  ASSUME NEW d \in Seq(BsonByte), NEW p \in Nat
  PROVE  Inc(Caret(d), p) = [data |-> d, pos |-> p, error |-> FALSE]
<1> DEFINE c == Caret(d)
<1>1. c \in CaretType /\ c.data = d /\ c.pos = 0 /\ c.error = FALSE
  BY DEF Caret, CaretType
<1> HIDE DEF c
<1>2. Inc(c, p) = [c EXCEPT !.pos = p]
  <2>1. c.pos + p = p
    BY <1>1
  <2> QED
    BY <2>1 DEF Inc
<1>3. /\ Inc(c, p) \in CaretType /\ Inc(c, p).data = d /\ Inc(c, p).pos = p
      /\ Inc(c, p).error = FALSE
  BY <1>1, <1>2 DEF CaretType
<1> QED
  BY <1>3 DEF CaretType, c

LEMMA ReadFlagsPlaced ==
  ASSUME Inv, Placed, ReadFlags
  PROVE  Placed'
<1> SUFFICES ASSUME ~caret'.error
             PROVE  Placed'
  BY DEF Placed
<1>1. /\ Within(caret) /\ sections = <<>> /\ pc = "flags" /\ pc' = "sections"
      /\ caret' = ReadInt32(caret).caret /\ sections' = <<>>
  BY InvWithin DEF Inv, ReadFlags
<1>2. Left(caret) >= 4
  <2>1. Left(caret) < 4 => ReadInt32(caret).caret.error
    BY <1>1, ReadInt32Type, SetErrorType
  <2> QED
    BY <1>1, <2>1, LeftType
<1>3. caret' = Inc(caret, 4)
  BY <1>1, <1>2, ReadInt32Type
<1>4. caret'.pos = caret.pos + 4 /\ caret'.error = caret.error
  <2>1. 4 \in Nat /\ 4 <= Left(caret)
    BY <1>1, <1>2, LeftType
  <2> QED
    BY <1>1, <1>3, <2>1, IncType
<1>5. caret'.pos = 4
  BY <1>1, <1>4 DEF Placed
<1>6. OffsetIn(<<>>, 1) = 4
  <2>1. [k \in 1 .. 1 - 1 |-> SectionBytes(<<>>[k])] = <<>>
    OBVIOUS
  <2>2. FlattenSeq(<<>>) = <<>>
    <3>1. <<>> \in Seq(BsonByte) /\ Len(<<>>) = 0
      OBVIOUS
    <3>2. First(<<>>, 0) = FlattenSeq(<<>>)
      BY <3>1, FirstAll
    <3> QED
      BY <3>2, FirstNone
  <2>3. Len(<<>>) = 0
    OBVIOUS
  <2> QED
    BY <2>1, <2>2, <2>3 DEF OffsetIn
<1>7. Len(sections') + 1 = 1 /\ DOMAIN sections' = {}
  BY <1>1
<1> QED
  BY <1>1, <1>5, <1>6, <1>7 DEF Placed, Covered

LEMMA ReadBodyPlaced ==
  ASSUME Inv, Inv', caret'.data = caret.data, Placed, ReadBody
  PROVE  Placed'
<1> SUFFICES ASSUME ~caret'.error
             PROVE  Placed'
  BY DEF Placed
<1> DEFINE c   == Inc(caret, 1)
           r   == ReadInt32(c)
           v   == r.value
           doc == CurrBytes(c, v)
           s   == Body(doc)
           sb  == SectionBytes(s)
           o   == OffsetIn(sections, Len(sections) + 1)
<1>1. /\ Within(caret) /\ ~caret.error /\ Left(caret) >= 1 /\ pc = "sections"
      /\ CurrByte(caret) = TYPE_BODY
  BY InvWithin, AtCharLeft DEF Inv, ReadBody, AtSection, AtChar
<1>2. Covered /\ caret.pos = o
  BY <1>1 DEF Placed
<1>3. /\ Within(c) /\ ~c.error /\ c.data = caret.data /\ c.pos = caret.pos + 1
      /\ Left(c) = Left(caret) - 1
  <2>1. 1 \in Nat /\ 1 <= Left(caret)
    BY <1>1, LeftType
  <2> QED
    BY <1>1, <2>1, IncType
<1>4. Fits(r) /\ Push(s, Behind(r))
  <2>1. Within(r.caret)
    BY <1>3, ReadInt32Type
  <2>2. SetError(r.caret).error
    BY <2>1, SetErrorType
  <2>3. CASE ~Fits(r)
    <3>1. caret' = SetError(r.caret)
      BY <2>3 DEF ReadBody, Push
    <3> QED
      BY <2>2, <3>1
  <2> QED
    BY <2>3 DEF ReadBody
<1>5. v \in Nat /\ v >= 5 /\ v <= Left(c)
  BY <1>3, <1>4, FitsLeft
<1>6. /\ doc \in Seq(BsonByte) /\ Len(doc) = v /\ Counts(doc)
      /\ \A i \in 1 .. v : doc[i] = c.data[c.pos + i]
  BY <1>3, <1>4, <1>5, CutCounts, CurrBytesType
<1>7. Behind(r).pos = c.pos + v /\ ~Behind(r).error
  <2>1. /\ Behind(ReadInt32(c)).pos = c.pos + ReadInt32(c).value
        /\ Behind(ReadInt32(c)).error = c.error
    BY <1>3, <1>4, BehindAt
  <2> QED
    BY <1>3, <2>1
<1>8. s \in BodyType /\ s.document = doc /\ s.type = TYPE_BODY /\ doc # Null
  BY <1>6, BodyGood, NullIsNoString DEF Body
<1> HIDE DEF s, doc, v, r, c
<1>9. /\ sb \in Seq(BsonByte) /\ Len(sb) = 1 + v /\ sb[1] = TYPE_BODY
      /\ \A i \in 1 .. v : sb[1 + i] = doc[i]
  BY <1>6, <1>8, BodyBytes
<1> HIDE DEF sb, o
<1>10. caret.data \in Seq(BsonByte) /\ o \in Nat /\ Left(caret) = Len(caret.data) - caret.pos
  BY <1>1, <1>2 DEF Within, CaretType, Left, DataSize
<1>11. o + Len(sb) <= Len(caret.data)
  <2>1. Len(caret.data) \in Nat
    BY <1>10, NaturalType
  <2>2. /\ Left(caret) = Len(caret.data) - caret.pos /\ caret.pos = o
        /\ Left(c) = Left(caret) - 1 /\ Len(sb) = 1 + v
    BY <1>2, <1>3, <1>9, <1>10
  <2> QED
    BY <1>5, <1>10, <2>1, <2>2
<1>12. \A i \in 1 .. Len(sb) : caret.data[o + i] = sb[i]
  <2> SUFFICES ASSUME NEW i \in 1 .. Len(sb)
               PROVE  caret.data[o + i] = sb[i]
    OBVIOUS
  <2>1. CASE i = 1
    BY <1>1, <1>2, <1>9, <2>1 DEF CurrByte
  <2>2. CASE i # 1
    <3>1. i - 1 \in 1 .. v /\ 1 + (i - 1) = i /\ c.pos + (i - 1) = o + i
      <4>1. Len(sb) = 1 + v /\ c.pos = o + 1
        BY <1>2, <1>3, <1>9
      <4> QED
        BY <1>5, <1>10, <2>2, <4>1
    <3>2. sb[1 + (i - 1)] = doc[i - 1]
      BY <1>9, <3>1
    <3>3. doc[i - 1] = c.data[c.pos + (i - 1)]
      BY <1>6, <3>1
    <3> QED
      BY <1>3, <3>1, <3>2, <3>3
  <2> QED
    BY <2>1, <2>2
<1>13. BytesAt(caret.data, o, Len(sb)) = sb
  BY <1>9, <1>10, <1>11, <1>12, BytesAre
<1>14. StandsIn(caret.data, s, o)
  BY <1>8, <1>13 DEF StandsIn, sb
<1>15. Behind(r).pos = o + Len(SectionBytes(s))
  <2>1. c.pos = o + 1 /\ Len(sb) = 1 + v /\ Behind(r).pos = c.pos + v
    BY <1>2, <1>3, <1>7, <1>9
  <2>2. Behind(r).pos = o + Len(sb)
    BY <1>5, <1>10, <2>1
  <2> QED
    BY <2>2 DEF sb
<1>16. s \in BodyType \cup SequenceType /\ o = OffsetIn(sections, Len(sections) + 1)
  BY <1>8 DEF o
<1> QED
  BY <1>1, <1>2, <1>4, <1>7, <1>14, <1>15, <1>16, PushPlaced

(* A sequence without documents. *)
LEMMA EmptyContent ==
  ASSUME NEW id \in Seq(BsonByte)
  PROVE  LET sc == SequenceContent(Sequence(id, <<>>)) IN
         /\ sc \in Seq(BsonByte) /\ Len(sc) = Len(id) + 1
         /\ \A i \in 1 .. Len(id) : sc[i] = id[i]
         /\ sc[Len(id) + 1] = 0
<1> DEFINE s == Sequence(id, <<>>)
<1>1. s.identifier = id /\ s.documents = <<>>
  BY DEF Sequence
<1>2. FlattenSeq(<<>>) = <<>>
  <2>1. <<>> \in Seq(BsonByte) /\ Len(<<>>) = 0
    OBVIOUS
  <2>2. First(<<>>, 0) = FlattenSeq(<<>>)
    BY <2>1, FirstAll
  <2> QED
    BY <2>2, FirstNone
<1>3. SequenceContent(s) = id \o <<0>> \o <<>>
  BY <1>1, <1>2 DEF SequenceContent
<1>4. 0 \in BsonByte
  BY DEF BsonByte
<1> DEFINE z == <<0>>
<1>5. z \in Seq(BsonByte) /\ Len(z) = 1 /\ z[1] = 0
  BY <1>4, OneByte
<1> HIDE DEF z
<1>6. /\ id \o z \in Seq(BsonByte) /\ Len(id \o z) = Len(id) + Len(z)
      /\ \A i \in 1 .. Len(id) : (id \o z)[i] = id[i]
      /\ \A i \in 1 .. Len(z) : (id \o z)[Len(id) + i] = z[i]
  BY <1>5, ConcatAt, Zenon
<1>7. id \o z \o <<>> = id \o z
  BY <1>6, ConcatEmptySeq
<1>8. 1 \in 1 .. 1
  OBVIOUS
<1>9. (id \o z)[Len(id) + 1] = 0
  BY <1>5, <1>6, <1>8, Zenon
<1>10. SequenceContent(s) = id \o z
  BY <1>3, <1>7 DEF z
<1> QED
  BY <1>5, <1>6, <1>9, <1>10, Zenon DEF s

LEMMA OpenSequencePlaced ==
  ASSUME Inv, Inv', caret'.data = caret.data, Placed, OpenSequence
  PROVE  Placed'
<1> SUFFICES ASSUME ~caret'.error
             PROVE  Placed'
  BY DEF Placed
<1> DEFINE c  == Inc(caret, 1)
           r  == ReadInt32(c)
           v  == r.value
           d  == r.caret
           n  == NulOffset(d)
           id == CurrBytes(d, n)
           s  == Sequence(id, <<>>)
           sc == SequenceContent(s)
           o  == OffsetIn(sections, Len(sections) + 1)
<1>1. /\ Within(caret) /\ ~caret.error /\ Left(caret) >= 1 /\ pc = "sections"
      /\ CurrByte(caret) = TYPE_DOCUMENT_SEQUENCE
  BY InvWithin, AtCharLeft DEF Inv, OpenSequence, AtSection, AtChar
<1>2. Covered /\ caret.pos = o
  BY <1>1 DEF Placed
<1>3. /\ Within(c) /\ ~c.error /\ c.data = caret.data /\ c.pos = caret.pos + 1
      /\ Left(c) = Left(caret) - 1
  <2>1. 1 \in Nat /\ 1 <= Left(caret)
    BY <1>1, LeftType
  <2> QED
    BY <1>1, <2>1, IncType
<1>4. Within(d) /\ n \in Nat /\ n <= Left(d)
  BY <1>3, ReadInt32Type, NulOffsetType
<1>5. SetError(d).error /\ SetError(Inc(d, n)).error
  BY <1>4, IncType, SetErrorType
<1>6. /\ Fits(r) /\ n < Left(d) /\ caret' = Inc(d, n + 1)
      /\ section' = [ section |-> s, size |-> v, progress |-> Progress(id) ]
      /\ pc' = "sequence" /\ UNCHANGED <<flags, sections>>
  <2> HIDE DEF s, id, d, n, v
  <2>1. caret' # SetError(d) /\ caret' # SetError(Inc(d, n))
    BY <1>5
  <2> QED
    BY <2>1 DEF OpenSequence, Push, s, id, d, n, v
<1>7. v \in Nat /\ v >= 5 /\ v <= Left(c)
  BY <1>3, <1>6, FitsLeft
<1>8. /\ d = Inc(c, 4) /\ d.pos = c.pos + 4 /\ d.data = caret.data /\ Left(d) = Left(c) - 4
  <2>1. 4 \in Nat /\ 4 <= Left(c)
    BY <1>3, <1>7, LeftType
  <2>2. d = Inc(c, 4)
    BY <1>3, <2>1, ReadInt32Type
  <2>3. Inc(c, 4).pos = c.pos + 4 /\ Inc(c, 4).data = c.data /\ Left(Inc(c, 4)) = Left(c) - 4
    BY <1>3, <2>1, IncType
  <2> HIDE DEF d
  <2> QED
    BY <1>3, <2>2, <2>3
<1>9. /\ id \in Seq(BsonByte) /\ Len(id) = n
      /\ \A i \in 1 .. n : id[i] = d.data[d.pos + i]
  BY <1>4, CurrBytesType
<1>10. d.data[d.pos + n + 1] = 0
  BY <1>4, <1>6, NulOffsetIs
<1>11. Inc(d, n + 1).pos = d.pos + (n + 1)
  <2>1. n + 1 \in Nat /\ n + 1 <= Left(d)
    BY <1>4, <1>6, LeftType
  <2> QED
    BY <1>4, <2>1, IncType
<1> HIDE DEF id
<1>12. /\ sc \in Seq(BsonByte) /\ Len(sc) = n + 1
       /\ \A i \in 1 .. n : sc[i] = id[i]
       /\ sc[n + 1] = 0
  BY <1>9, EmptyContent
<1>13. section'.section = s /\ section'.size = v /\ section'.progress = 4 + n + 1
  BY <1>6, <1>9 DEF Progress
<1> HIDE DEF sc, s, n, d, r, o
<1>14. /\ caret.data \in Seq(BsonByte) /\ o \in Nat /\ Len(caret.data) \in Nat
       /\ Left(caret) = Len(caret.data) - caret.pos
  BY <1>1, <1>2 DEF Within, CaretType, Left, DataSize
<1>15. /\ d.pos = o + 5 /\ Left(d) = Len(caret.data) - (o + 5) /\ caret'.pos = o + 6 + n
  <2>1. /\ c.pos = o + 1 /\ d.pos = c.pos + 4 /\ caret'.pos = d.pos + (n + 1)
        /\ Left(d) = Left(c) - 4 /\ Left(c) = Left(caret) - 1
        /\ Left(caret) = Len(caret.data) - o
    BY <1>2, <1>3, <1>6, <1>8, <1>11, <1>14
  <2> QED
    BY <1>4, <1>14, <2>1
<1>16. BytesAt(caret.data, o, 1) = <<TYPE_DOCUMENT_SEQUENCE>>
  <2> DEFINE b == <<TYPE_DOCUMENT_SEQUENCE>>
  <2>1. TYPE_DOCUMENT_SEQUENCE \in BsonByte
    BY DEF TYPE_DOCUMENT_SEQUENCE, BsonByte
  <2>2. b \in Seq(BsonByte) /\ Len(b) = 1 /\ b[1] = TYPE_DOCUMENT_SEQUENCE
    BY <2>1, OneByte
  <2>3. caret.data[o + 1] = TYPE_DOCUMENT_SEQUENCE
    BY <1>1, <1>2 DEF CurrByte
  <2>4. o + 1 <= Len(caret.data)
    BY <1>1, <1>2, <1>14
  <2> HIDE DEF b
  <2>5. \A i \in 1 .. Len(b) : caret.data[o + i] = b[i]
    <3>1. \A i \in 1 .. Len(b) : i = 1
      BY <2>2
    <3> QED
      BY <2>2, <2>3, <3>1
  <2>6. BytesAt(caret.data, o, Len(b)) = b
    BY <1>14, <2>2, <2>4, <2>5, BytesAre
  <2> QED
    BY <2>2, <2>6 DEF b
<1>17. BytesAt(caret.data, o + 5, Len(sc)) = sc
  <2>1. \A i \in 1 .. Len(sc) : caret.data[(o + 5) + i] = sc[i]
    <3> SUFFICES ASSUME NEW i \in 1 .. Len(sc)
                 PROVE  caret.data[(o + 5) + i] = sc[i]
      OBVIOUS
    <3>1. CASE i = n + 1
      <4>1. d.pos + n + 1 = (o + 5) + i
        BY <1>4, <1>14, <1>15, <3>1
      <4> QED
        BY <1>8, <1>10, <1>12, <3>1, <4>1
    <3>2. CASE i # n + 1
      <4>1. i \in 1 .. n
        BY <1>4, <1>12, <3>2
      <4>2. id[i] = d.data[d.pos + i] /\ sc[i] = id[i]
        BY <1>9, <1>12, <4>1
      <4> QED
        BY <1>8, <1>15, <4>2
    <3> QED
      BY <3>1, <3>2
  <2>2. (o + 5) + Len(sc) <= Len(caret.data) /\ o + 5 \in Nat
    <3>1. Left(d) = Len(caret.data) - (o + 5) /\ n < Left(d) /\ Len(sc) = n + 1
      BY <1>6, <1>12, <1>15
    <3> QED
      BY <1>4, <1>14, <3>1
  <2> QED
    BY <1>12, <1>14, <2>1, <2>2, BytesAre
<1>18. v = ReadInt32(Inc(Caret(caret.data), o + 1)).value
  <2>1. o + 1 \in Nat
    BY <1>14
  <2>2. Inc(Caret(caret.data), o + 1) = [data |-> caret.data, pos |-> o + 1, error |-> FALSE]
    BY <1>14, <2>1, CaretAt
  <2>3. c = [data |-> caret.data, pos |-> o + 1, error |-> FALSE]
    <3>1. c \in CaretType /\ c.data = caret.data /\ c.pos = o + 1 /\ c.error = FALSE
      BY <1>2, <1>3 DEF Within, CaretType
    <3> HIDE DEF c
    <3> QED
      BY <3>1 DEF CaretType
  <2> HIDE DEF c
  <2> QED
    BY <2>2, <2>3 DEF r
<1>19. o + 1 + v <= Len(caret.data)
  <2>1. v <= Left(c) /\ Left(c) = Left(caret) - 1 /\ Left(caret) = Len(caret.data) - o
    BY <1>2, <1>3, <1>7, <1>14
  <2> QED
    BY <1>7, <1>14, <2>1
<1>20. s.documents = <<>>
  BY DEF s, Sequence
<1> HIDE DEF v, c
<1>21. section'.progress = 4 + Len(sc) /\ caret'.pos = o + 1 + section'.progress
  <2>1. section'.progress = 4 + n + 1 /\ Len(sc) = n + 1 /\ caret'.pos = o + 6 + n
    BY <1>12, <1>13, <1>15
  <2> QED
    BY <1>4, <1>14, <2>1
<1>22. OffsetIn(sections, Len(sections) + 1)' = o
  BY <1>6 DEF o
<1>23. StandsOpen(OffsetIn(sections, Len(sections) + 1))'
  BY <1>13, <1>16, <1>17, <1>18, <1>19, <1>20, <1>21, <1>22 DEF StandsOpen, sc
<1>24. Covered'
  BY <1>2, <1>6 DEF Covered
<1> QED
  BY <1>6, <1>23, <1>24 DEF Placed

(* One document more at the end of a sequence. *)
LEMMA MoreContent ==
  ASSUME NEW s, IsSequence(s), NEW doc \in Seq(BsonByte), NEW t,
         t.identifier = s.identifier, t.documents = Append(s.documents, doc)
  PROVE  SequenceContent(t) = SequenceContent(s) \o doc
<1> DEFINE a  == s.identifier
           z  == <<0>>
           ds == s.documents
           es == Append(ds, doc)
           n  == Len(ds) + 1
<1>1. a \in Seq(BsonByte) /\ ds \in Seq(Seq(BsonByte))
  BY ContentBytes
<1>2. /\ es \in Seq(Seq(BsonByte)) /\ Len(es) = n /\ es[n] = doc /\ Len(ds) \in Nat
      /\ \A i \in 1 .. Len(ds) : es[i] = ds[i]
  BY <1>1, AppendProperties
<1> HIDE DEF es, ds
<1>3. n \in 1 .. Len(es) /\ n - 1 = Len(ds)
  BY <1>2
<1>4. First(es, n) = First(es, n - 1) \o es[n] /\ First(es, n) = FlattenSeq(es)
  BY <1>2, <1>3, FirstNext, FirstAll
<1>5. First(es, n - 1) = FlattenSeq(ds)
  <2>1. n - 1 \in 0 .. Len(es) /\ n - 1 <= Len(ds) /\ \A i \in 1 .. n - 1 : es[i] = ds[i]
    BY <1>2, <1>3
  <2>2. First(es, n - 1) = First(ds, n - 1)
    BY <1>1, <1>2, <2>1, FirstSame
  <2> QED
    BY <1>1, <1>3, <2>2, FirstAll
<1>6. FlattenSeq(es) = FlattenSeq(ds) \o doc
  BY <1>2, <1>4, <1>5
<1>7. FlattenSeq(ds) \in Seq(BsonByte)
  BY <1>1, FlattenType
<1>8. 0 \in BsonByte
  BY DEF BsonByte
<1>9. z \in Seq(BsonByte)
  BY <1>8, OneByte
<1> HIDE DEF a, z
<1>10. a \o z \in Seq(BsonByte)
  BY <1>1, <1>9, ConcatType, Zenon
<1>11. (a \o z) \o (FlattenSeq(ds) \o doc) = ((a \o z) \o FlattenSeq(ds)) \o doc
  <2>1. \A x, y, w \in Seq(BsonByte) : x \o (y \o w) = (x \o y) \o w
    BY ConcatAssociative
  <2> QED
    BY <1>7, <1>10, <2>1, Zenon
<1>12. t.documents = es /\ t.identifier = a
  BY DEF es, ds, a
<1>13. SequenceContent(t) = (a \o z) \o FlattenSeq(es)
  BY <1>12 DEF SequenceContent, z
<1>14. SequenceContent(s) = (a \o z) \o FlattenSeq(ds)
  BY DEF SequenceContent, a, z, ds
<1> QED
  BY <1>6, <1>11, <1>13, <1>14

LEMMA ReadDocumentPlaced ==
  ASSUME Inv, Inv', caret'.data = caret.data, Placed, ReadDocument
  PROVE  Placed'
<1> SUFFICES ASSUME ~caret'.error
             PROVE  Placed'
  BY DEF Placed
<1> DEFINE s   == section.section
           sc  == SequenceContent(s)
           r   == ReadInt32(caret)
           v   == r.value
           doc == CurrBytes(caret, v)
           u   == [s EXCEPT !.documents = Append(s.documents, doc)]
           tc  == SequenceContent(u)
           o   == OffsetIn(sections, Len(sections) + 1)
           d   == caret.data
<1>1. /\ Within(caret) /\ ~caret.error /\ pc = "sequence" /\ section.progress < section.size
      /\ s \in SequenceType /\ s.identifier # Null
      /\ section \in [section : SequenceType, size : Int, progress : Nat]
  BY InvWithin DEF Inv, TypeOK, ReadDocument, HasDocument
<1>2. Covered /\ StandsOpen(o) /\ IsSequence(s)
  BY <1>1 DEF Placed, IsSequence
<1>3. /\ BytesAt(d, o, 1) = <<TYPE_DOCUMENT_SEQUENCE>>
      /\ BytesAt(d, o + 5, Len(sc)) = sc
      /\ section.progress = 4 + Len(sc)
      /\ caret.pos = o + 1 + section.progress
      /\ section.size = ReadInt32(Inc(Caret(d), o + 1)).value
      /\ o + 1 + section.size <= Len(d)
  BY <1>2 DEF StandsOpen
<1>4. /\ Fits(r) /\ caret' = Behind(r)
      /\ section' = [ section EXCEPT !.section.documents = Append(@, doc),
                                     !.progress = @ + Len(doc) ]
      /\ UNCHANGED <<flags, sections, pc>>
  <2>1. SetError(r.caret).error
    BY <1>1, ReadInt32Type, SetErrorType
  <2>2. caret' # SetError(r.caret)
    BY <2>1
  <2> QED
    BY <2>2 DEF ReadDocument, Push
<1>5. /\ v \in Nat /\ v <= Left(caret) /\ doc \in Seq(BsonByte) /\ Len(doc) = v
  BY <1>1, <1>4, FitsLeft, CutCounts
<1>6. \A i \in 1 .. v : doc[i] = d[caret.pos + i]
  BY <1>1, <1>5, CurrBytesType
<1>7. caret'.pos = caret.pos + v
  BY <1>1, <1>4, BehindAt
<1> HIDE DEF doc, v, r
<1>8. section'.section = u /\ section'.size = section.size /\ section'.progress = section.progress + v
  <2>1. section' = [ section EXCEPT !.section = u, !.progress = section.progress + Len(doc) ]
    BY <1>4
  <2> HIDE DEF u
  <2> QED
    BY <1>1, <1>5, <2>1
<1>9. /\ u.identifier = s.identifier /\ u.documents = Append(s.documents, doc)
  BY <1>1 DEF SequenceType
<1> HIDE DEF u
<1>10. tc = sc \o doc
  BY <1>2, <1>5, <1>9, MoreContent
<1>11. sc \in Seq(BsonByte)
  BY <1>2, ContentBytes
<1> HIDE DEF sc, tc, o
<1>12. /\ tc \in Seq(BsonByte) /\ Len(tc) = Len(sc) + v
       /\ \A i \in 1 .. Len(sc) : tc[i] = sc[i]
       /\ \A i \in 1 .. v : tc[Len(sc) + i] = doc[i]
  <2>1. /\ sc \o doc \in Seq(BsonByte) /\ Len(sc \o doc) = Len(sc) + Len(doc)
        /\ \A i \in 1 .. Len(sc) : (sc \o doc)[i] = sc[i]
        /\ \A i \in 1 .. Len(doc) : (sc \o doc)[Len(sc) + i] = doc[i]
    BY <1>5, <1>11, ConcatAt, Zenon
  <2> QED
    BY <1>5, <1>10, <2>1, Zenon
<1>13. /\ d \in Seq(BsonByte) /\ Len(d) \in Nat /\ Left(caret) = Len(d) - caret.pos
       /\ caret.pos \in Nat
  BY <1>1 DEF Within, CaretType, Left, DataSize
<1>14. o \in Nat
  <2>1. IsRead(sections)
    BY <1>1 DEF Inv, TypeOK, IsRead
  <2>2. Len(sections) + 1 \in 1 .. Len(sections) + 1
    BY <2>1 DEF IsRead
  <2> QED
    BY <2>1, <2>2, OffsetType DEF o
<1>15. Len(sc) \in Nat /\ caret.pos = (o + 5) + Len(sc)
  <2>1. Len(sc) \in Nat
    BY <1>11, NaturalType
  <2> HIDE DEF d
  <2> QED
    BY <1>3, <1>14, <2>1
<1>16. \A i \in 1 .. Len(sc) : d[(o + 5) + i] = sc[i]
  <2> SUFFICES ASSUME NEW i \in 1 .. Len(sc)
               PROVE  d[(o + 5) + i] = sc[i]
    OBVIOUS
  <2> DEFINE c == Inc(Caret(d), o + 5)
             n == Len(sc)
  <2>1. o + 5 \in Nat
    BY <1>14
  <2>2. c = [data |-> d, pos |-> o + 5, error |-> FALSE]
    BY <1>13, <2>1, CaretAt
  <2>3. c.data = d /\ c.pos = o + 5 /\ c \in CaretType /\ Left(c) = Len(d) - (o + 5)
    <3>1. c.data = d /\ c.pos = o + 5
      BY <2>2
    <3>2. c \in CaretType
      <4>1. d \in Seq(BsonByte)
        BY <1>13
      <4> HIDE DEF c, d
      <4> QED
        BY <2>1, <2>2, <4>1 DEF CaretType
    <3> HIDE DEF c, d
    <3> QED
      BY <3>1, <3>2 DEF Left, DataSize
  <2> HIDE DEF c, d
  <2>4. Len(sc) <= Left(c) /\ Within(c)
    <3>1. caret.pos <= Len(d)
      BY <1>1 DEF Within, DataSize, d
    <3>2. o + 5 <= Len(d)
      BY <1>13, <1>14, <1>15, <3>1
    <3> QED
      BY <1>13, <1>14, <1>15, <2>3, <3>1, <3>2 DEF Within, DataSize
  <2>5. BytesAt(c.data, c.pos, n) = CurrBytes(c, n)
    BY <1>15, <2>4, BytesAtCaret
  <2>6. CurrBytes(c, n)[i] = c.data[c.pos + i]
    BY <1>15, <2>4, CurrBytesType
  <2> QED
    BY <1>3, <2>3, <2>5, <2>6
<1>17. BytesAt(d, o + 5, Len(tc)) = tc
  <2>1. \A i \in 1 .. Len(tc) : d[(o + 5) + i] = tc[i]
    <3> SUFFICES ASSUME NEW i \in 1 .. Len(tc)
                 PROVE  d[(o + 5) + i] = tc[i]
      OBVIOUS
    <3>1. CASE i <= Len(sc)
      <4>1. i \in 1 .. Len(sc)
        BY <1>15, <3>1
      <4> QED
        BY <1>12, <1>16, <4>1
    <3>2. CASE i > Len(sc)
      <4>1. i - Len(sc) \in 1 .. v /\ Len(sc) + (i - Len(sc)) = i
        BY <1>5, <1>12, <1>15, <3>2
      <4>2. caret.pos + (i - Len(sc)) = (o + 5) + i
        BY <1>14, <1>15
      <4>3. tc[i] = doc[i - Len(sc)]
        BY <1>12, <4>1
      <4>4. doc[i - Len(sc)] = d[caret.pos + (i - Len(sc))]
        BY <1>6, <4>1
      <4> QED
        BY <4>2, <4>3, <4>4
    <3> QED
      BY <1>15, <3>1, <3>2
  <2>2. (o + 5) + Len(tc) <= Len(d) /\ o + 5 \in Nat
    <3> HIDE DEF d
    <3>1. v <= Len(d) - caret.pos /\ Len(tc) = Len(sc) + v
      BY <1>5, <1>12, <1>13
    <3> QED
      BY <1>5, <1>13, <1>14, <1>15, <3>1
  <2> HIDE DEF d
  <2> QED
    BY <1>12, <1>13, <2>1, <2>2, BytesAre
<1>18. section'.progress = 4 + Len(tc) /\ caret'.pos = o + 1 + section'.progress
  <2>1. /\ section'.progress = section.progress + v /\ section.progress = 4 + Len(sc)
        /\ Len(tc) = Len(sc) + v /\ caret'.pos = caret.pos + v
        /\ caret.pos = o + 1 + section.progress
    BY <1>3, <1>7, <1>8, <1>12
  <2> QED
    BY <1>5, <1>14, <1>15, <2>1
<1>19. section'.progress - Len(doc) < section'.size /\ u.documents[Len(u.documents)] = doc
  <2>1. section'.progress - Len(doc) = section.progress
    <3>1. section.progress \in Nat /\ section'.progress = section.progress + v
      BY <1>1, <1>8
    <3> QED
      BY <1>5, <3>1
  <2>2. s.documents \in Seq(Seq(BsonByte))
    BY <1>1 DEF SequenceType
  <2>3. u.documents[Len(u.documents)] = doc
    BY <1>5, <1>9, <2>2, AppendProperties
  <2> QED
    BY <1>1, <1>8, <2>1, <2>3
<1>20. OffsetIn(sections, Len(sections) + 1)' = o /\ caret'.data = d
  BY <1>4 DEF o
<1>21. StandsOpen(OffsetIn(sections, Len(sections) + 1))'
  <2> HIDE DEF d
  <2> QED
    BY <1>3, <1>8, <1>17, <1>18, <1>19, <1>20 DEF StandsOpen, tc
<1>22. Covered' /\ pc' = "sequence"
  BY <1>1, <1>2, <1>4 DEF Covered
<1> QED
  BY <1>21, <1>22 DEF Placed

LEMMA CloseSequencePlaced ==
  ASSUME Inv, Inv', caret'.data = caret.data, Placed, CloseSequence
  PROVE  Placed'
<1> DEFINE s    == section.section
           sc   == SequenceContent(s)
           sb   == SectionBytes(s)
           last == s.documents[Len(s.documents)]
           o    == OffsetIn(sections, Len(sections) + 1)
           d    == caret.data
<1>1. /\ Within(caret) /\ ~caret.error /\ pc = "sequence" /\ ~HasDocument
      /\ Push(s, caret) /\ s \in SequenceType /\ s.identifier # Null
      /\ section.size \in Int /\ section.progress \in Nat
  BY InvWithin DEF Inv, TypeOK, CloseSequence
<1>2. Covered /\ StandsOpen(o) /\ IsSequence(s)
  BY <1>1 DEF Placed, IsSequence
<1>3. /\ BytesAt(d, o, 1) = <<TYPE_DOCUMENT_SEQUENCE>>
      /\ BytesAt(d, o + 5, Len(sc)) = sc
      /\ section.progress = 4 + Len(sc)
      /\ caret.pos = o + 1 + section.progress
      /\ section.size = ReadInt32(Inc(Caret(d), o + 1)).value
      /\ o + 1 + section.size <= Len(d)
      /\ s.documents # <<>> => section.progress - Len(last) < section.size
  BY <1>2 DEF StandsOpen
<1>4. /\ sc \in Seq(BsonByte) /\ Len(sb) = 5 + Len(sc)
  BY <1>2, ContentBytes, SequenceBytes
<1>5. s.type = TYPE_DOCUMENT_SEQUENCE /\ TYPE_DOCUMENT_SEQUENCE # TYPE_BODY
  BY <1>1 DEF SequenceType, TYPE_BODY, TYPE_DOCUMENT_SEQUENCE
<1>6. Len(sc) \in Nat
  BY <1>4, NaturalType
<1>7. o \in Nat
  <2>1. IsRead(sections)
    BY <1>1 DEF Inv, TypeOK, IsRead
  <2>2. Len(sections) + 1 \in 1 .. Len(sections) + 1
    BY <2>1 DEF IsRead
  <2> QED
    BY <2>1, <2>2, OffsetType DEF o
<1> HIDE DEF s, sc, sb, o, d, last
<1>8. Len(sb) - 5 = Len(sc) /\ Len(sb) - 1 = section.progress
  <2>1. Len(sb) = 5 + Len(sc) /\ section.progress = 4 + Len(sc)
    BY <1>3, <1>4
  <2> QED
    BY <1>6, <2>1
<1>9. section.size <= section.progress
  <2>1. CASE section.progress >= section.size
    BY <1>1, <2>1
  <2>2. CASE ~CanContinue(caret)
    <3>1. Len(d) <= caret.pos /\ Len(d) \in Nat
      BY <1>1, <2>2 DEF CanContinue, DataSize, Within, CaretType, d
    <3>2. caret.pos = o + 1 + section.progress /\ o + 1 + section.size <= Len(d)
      BY <1>3
    <3> QED
      BY <1>1, <1>7, <3>1, <3>2
  <2>3. section.progress >= section.size \/ section.progress < section.size
    BY <1>1
  <2> QED
    BY <1>1, <2>1, <2>2, <2>3 DEF HasDocument
<1>10. StandsIn(d, s, o)
  BY <1>3, <1>5, <1>8, <1>9 DEF StandsIn, sb, sc, last
<1>11. caret.pos = o + Len(sb)
  <2>1. Len(sb) = 5 + Len(sc) /\ section.progress = 4 + Len(sc) /\ caret.pos = o + 1 + section.progress
    BY <1>3, <1>4
  <2> QED
    BY <1>6, <1>7, <2>1
<1> QED
  BY <1>1, <1>2, <1>10, <1>11, PushPlaced DEF sb, o, d

LEMMA EndOfMessagePlaced ==
  ASSUME Inv, Placed, EndOfMessage
  PROVE  Placed'
<1> SUFFICES ASSUME ~caret.error
             PROVE  Placed'
  BY DEF Placed, EndOfMessage
<1>1. /\ pc = "sections" /\ ~CanContinue(caret) /\ pc' = "parsed"
      /\ UNCHANGED <<caret, flags, sections, section>>
  BY DEF EndOfMessage
<1>2. Within(caret)
  BY InvWithin DEF Inv
<1>3. Left(caret) = 0
  BY <1>1, <1>2 DEF CanContinue, Within, CaretType, Left, DataSize
<1> QED
  BY <1>1, <1>3 DEF Placed, Covered

LEMMA NextPlaced ==
  ASSUME Inv, Placed, [Next]_vars
  PROVE  Placed'
<1>1. Inv' /\ caret'.data = caret.data
  BY NextInv, DataKept
<1>2. CASE UNCHANGED vars \/ Finished
  BY <1>2 DEF Finished, vars, Placed, Covered, StandsOpen
<1>3. CASE UnknownSection
  <2>1. caret' = SetError(caret) /\ Within(caret)
    BY <1>3, InvWithin DEF UnknownSection, Inv
  <2>2. caret'.error
    BY <2>1, SetErrorType
  <2> QED
    BY <2>2 DEF Placed
<1> QED
  BY <1>1, <1>2, <1>3, ReadFlagsPlaced, ReadBodyPlaced, OpenSequencePlaced,
     ReadDocumentPlaced, CloseSequencePlaced, EndOfMessagePlaced
     DEF Next, Step

LEMMA InitPlaced == Init => Placed
<1> SUFFICES ASSUME Init
             PROVE  Placed
  OBVIOUS
<1>1. PICK d : caret = Caret(d)
  BY DEF Init
<1>2. caret.pos = 0 /\ sections = <<>> /\ pc = "flags"
  BY <1>1 DEF Init, Caret
<1> QED
  BY <1>2 DEF Placed, Covered

(* Where the caret is makes no difference. *)
LEMMA StandsSame ==
  ASSUME TypeOK, NEW s, NEW o \in Nat, StandsIn(caret.data, s, o)
  PROVE  StandsAt(s, o)
<1>1. caret.pos \in Nat /\ Within(caret)
  BY InvWithin DEF TypeOK
<1>2. ASSUME NEW p \in Nat, NEW n
      PROVE  DataAt(p, n) = BytesAt(caret.data, p, n)
  <2> DEFINE x == p - caret.pos
  <2>1. x \in Int /\ caret.pos + x = p
    BY <1>1
  <2> HIDE DEF x
  <2>2. Inc(caret, x) = [caret EXCEPT !.pos = p]
    BY <2>1 DEF Inc
  <2>3. Inc(caret, x).data = caret.data /\ Inc(caret, x).pos = p
    BY <1>1, <2>2 DEF Within, CaretType
  <2>4. DataAt(p, n) = CurrBytes(Inc(caret, x), n)
    BY DEF DataAt, x
  <2> QED
    BY <2>3, <2>4 DEF CurrBytes, BytesAt
<1>3. o + 5 \in Nat
  OBVIOUS
<1>4. \A n : DataAt(o, n) = BytesAt(caret.data, o, n)
  BY <1>2
<1>5. \A n : DataAt(o + 5, n) = BytesAt(caret.data, o + 5, n)
  BY <1>2, <1>3
<1> QED
  BY <1>4, <1>5 DEF StandsIn, StandsAt

LEMMA PlacedMeaning ==
  ASSUME Inv, Placed
  PROVE  Accounted
<1> SUFFICES ASSUME pc \in {"sections", "parsed"}, ~caret.error
             PROVE  /\ Offset(Len(sections) + 1) = caret.pos
                    /\ \A i \in DOMAIN sections : StandsAt(sections[i], Offset(i))
                    /\ pc = "parsed" => Left(caret) = 0
  BY DEF Accounted
<1>1. \A i : Offset(i) = OffsetIn(sections, i)
  BY DEF Offset, OffsetIn
<1>2. IsRead(sections) /\ TypeOK
  BY DEF Inv, TypeOK, IsRead
<1>3. ASSUME NEW i \in DOMAIN sections
      PROVE  StandsAt(sections[i], Offset(i))
  <2>1. i \in 1 .. Len(sections) + 1
    BY <1>2 DEF IsRead
  <2>2. OffsetIn(sections, i) \in Nat
    BY <1>2, <2>1, OffsetType
  <2>3. StandsIn(caret.data, sections[i], OffsetIn(sections, i))
    BY DEF Placed, Covered
  <2> QED
    BY <1>1, <1>2, <2>2, <2>3, StandsSame
<1> QED
  BY <1>1, <1>3 DEF Placed

(* Whatever bytes a message consists of: as long as there is no error, its *)
(* sections stand one behind the other in what has been read, and when     *)
(* readFromCaret returns true they are all of the data.                    *)
THEOREM AllAccounted == Spec => []Accounted
<1>1. Inv /\ Placed => Accounted
  BY PlacedMeaning
<1>2. Init => Inv /\ Placed
  BY InitInv, InitPlaced
<1>3. Inv /\ Placed /\ [Next]_vars => (Inv /\ Placed)'
  BY NextInv, NextPlaced
<1> QED
  BY <1>1, <1>2, <1>3, PTL DEF Spec
=============================================================================
