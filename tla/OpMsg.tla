-------------------------------- MODULE OpMsg --------------------------------
(***************************************************************************)
(* driver::wire::OpMsg: the data of a message as flags and sections.       *)
(*                                                                         *)
(* writeToStream cannot fail and is an operator, OpMsgBytes.               *)
(* readFromCaret, with the readFromCaret of the two kinds of section, is a *)
(* machine on a caret over any bytes.  pc says what happens next:          *)
(*   "flags"     OpMsg::readFromCaret is called                            *)
(*   "sections"  its loop                                                  *)
(*   "sequence"  the loop of DocumentSequenceSection::readFromCaret        *)
(*   "parsed"    it has returned true, "failed" it has returned false      *)
(***************************************************************************)
EXTENDS BsonFormat, SequencesExt

CONSTANTS
  Data,     \* byte strings OpMsg::readFromCaret is called on
  Messages  \* messages OpMsg::writeToStream is called on

ASSUME DataAssumption == Data \subseteq Seq(BsonByte)

TYPE_BODY              == 0
TYPE_DOCUMENT_SEQUENCE == 1

FLAG_CHECKSUM_PRESENT == 1
FLAG_MORE_TO_COME     == 2
FLAG_EXHAUST_ALLOWED  == 65536

(* A document is an oatpp::String, null until it has been read. *)
Null == <<-1>>

Flags == [checksumPresent : BOOLEAN, moreToCome : BOOLEAN, exhaustAllowed : BOOLEAN]

Body(doc) == [type |-> TYPE_BODY, document |-> doc]

Sequence(id, docs) ==
  [type |-> TYPE_DOCUMENT_SEQUENCE, identifier |-> id, documents |-> docs]

-----------------------------------------------------------------------------
(* OpMsg::writeToStream. *)

FlagBits(flags) ==
    (IF flags.checksumPresent THEN FLAG_CHECKSUM_PRESENT ELSE 0)
  + (IF flags.moreToCome      THEN FLAG_MORE_TO_COME     ELSE 0)
  + (IF flags.exhaustAllowed  THEN FLAG_EXHAUST_ALLOWED  ELSE 0)

(* What a sequence has after its size field; the size counts the field. *)
SequenceContent(s) == s.identifier \o <<0>> \o FlattenSeq(s.documents)

SectionBytes(s) ==
  IF s.type = TYPE_BODY
  THEN <<TYPE_BODY>> \o s.document
  ELSE <<TYPE_DOCUMENT_SEQUENCE>> \o Int32Bytes(4 + Len(SequenceContent(s)))
         \o SequenceContent(s)

OpMsgBytes(msg) ==
  Int32Bytes(FlagBits(msg.flags))
    \o FlattenSeq([i \in DOMAIN msg.sections |-> SectionBytes(msg.sections[i])])

-----------------------------------------------------------------------------
(* OpMsg::readFromCaret. *)

VARIABLES
  caret,
  flags,
  sections,
  section,  \* the sequence being read, with the locals overallSize, progress
  pc

vars == <<caret, flags, sections, section, pc>>

NoSection == [section |-> Sequence(Null, <<>>), size |-> 0, progress |-> 0]

Init ==
  /\ \E d \in Data : caret = Caret(d)
  /\ flags = [checksumPresent |-> FALSE, moreToCome |-> FALSE, exhaustAllowed |-> FALSE]
  /\ sections = <<>>
  /\ section = NoSection
  /\ pc = "flags"

IsSet(bits, flag) == (bits \div flag) % 2 = 1

(* Faulty: waits for the bytes that are missing. *)
ReadFlagsWaits ==
  LET r == ReadInt32(caret) IN
  /\ pc = "flags"
  /\ IF r.caret.error
     THEN UNCHANGED <<caret, pc>>
     ELSE caret' = r.caret /\ pc' = "sections"
  /\ UNCHANGED <<flags, sections, section>>

(* Too few bytes are no flags; the error ends the loop before it starts. *)
ReadFlags ==
  LET r == ReadInt32(caret) IN
  /\ pc = "flags"
  /\ caret' = r.caret
  /\ flags' = [ checksumPresent |-> IsSet(r.value, FLAG_CHECKSUM_PRESENT),
                moreToCome      |-> IsSet(r.value, FLAG_MORE_TO_COME),
                exhaustAllowed  |-> IsSet(r.value, FLAG_EXHAUST_ALLOWED) ]
  /\ pc' = "sections"
  /\ UNCHANGED <<sections, section>>

(* Faulty: an empty field is taken for a document. *)
FitsEmpty(r) == r.value >= 4 /\ r.value - 4 <= Left(r.caret)

(* What begins with the size field read as r, which counts itself, is not  *)
(* too short and ends within the data. *)
Fits(r) == r.value >= 5 /\ r.value - 4 <= Left(r.caret)

(* Faulty: the size field is skipped twice. *)
BehindTwice(r) == Inc(r.caret, r.value)

Behind(r) == Inc(r.caret, r.value - 4)

(* A section's readFromCaret returns.  Its result is ignored: the section  *)
(* is one of the message's, the loop ends if the caret has an error.       *)
Push(s, c) ==
  /\ caret' = c
  /\ sections' = Append(sections, s)
  /\ pc' = "sections"
  /\ UNCHANGED flags

AtSection(type) == pc = "sections" /\ AtChar(caret, type)

ReadBody ==
  LET c == Inc(caret, 1)
      r == ReadInt32(c)
  IN
  /\ AtSection(TYPE_BODY)
  /\ IF Fits(r)
     THEN Push(Body(CurrBytes(c, r.value)), Behind(r))
     ELSE Push(Body(Null), SetError(r.caret))
  /\ UNCHANGED section

(* Faulty: the size field is not counted. *)
IdentifierOnly(id) == Len(id) + 1

(* How much of a sequence has been read before its documents. *)
Progress(id) == 4 + Len(id) + 1

(* findChar(0) has moved to the end if there is none. *)
OpenSequence ==
  LET r  == ReadInt32(Inc(caret, 1))
      n  == NulOffset(r.caret)
      id == CurrBytes(r.caret, n)
  IN
  /\ AtSection(TYPE_DOCUMENT_SEQUENCE)
  /\ \/ /\ ~Fits(r)
        /\ Push(Sequence(Null, <<>>), SetError(r.caret))
        /\ UNCHANGED section
     \/ /\ Fits(r) /\ n = Left(r.caret)
        /\ Push(Sequence(Null, <<>>), SetError(Inc(r.caret, n)))
        /\ UNCHANGED section
     \/ /\ Fits(r) /\ n < Left(r.caret)
        /\ caret' = Inc(r.caret, n + 1)
        /\ section' = [ section  |-> Sequence(id, <<>>),
                        size     |-> r.value,
                        progress |-> Progress(id) ]
        /\ pc' = "sequence"
        /\ UNCHANGED <<flags, sections>>

(* Faulty: one more document fits. *)
HasOneMore == CanContinue(caret) /\ section.progress <= section.size

(* The loop looks at the announced size before a document, not after it. *)
HasDocument == CanContinue(caret) /\ section.progress < section.size

ReadDocument ==
  LET r   == ReadInt32(caret)
      doc == CurrBytes(caret, r.value)
  IN
  /\ pc = "sequence" /\ HasDocument
  /\ \/ /\ ~Fits(r)
        /\ Push(section.section, SetError(r.caret))
        /\ section' = NoSection
     \/ /\ Fits(r)
        /\ caret' = Behind(r)
        /\ section' = [ section EXCEPT !.section.documents = Append(@, doc),
                                       !.progress = @ + Len(doc) ]
        /\ UNCHANGED <<flags, sections, pc>>

CloseSequence ==
  /\ pc = "sequence" /\ ~HasDocument
  /\ Push(section.section, caret)
  /\ section' = NoSection

UnknownSection ==
  /\ pc = "sections" /\ CanContinue(caret)
  /\ CurrByte(caret) \notin {TYPE_BODY, TYPE_DOCUMENT_SEQUENCE}
  /\ caret' = SetError(caret)
  /\ pc' = "failed"
  /\ UNCHANGED <<flags, sections, section>>

EndOfMessage ==
  /\ pc = "sections" /\ ~CanContinue(caret)
  /\ pc' = IF caret.error THEN "failed" ELSE "parsed"
  /\ UNCHANGED <<caret, flags, sections, section>>

Finished == pc \in {"parsed", "failed"} /\ UNCHANGED vars

Step ==
  \/ ReadFlags \/ ReadBody \/ OpenSequence \/ ReadDocument \/ CloseSequence
  \/ UnknownSection \/ EndOfMessage

Next == Step \/ Finished

Spec == Init /\ [][Next]_vars
FairSpec == Spec /\ WF_vars(Step)

-----------------------------------------------------------------------------
BodyType     == [type : {TYPE_BODY}, document : Seq(BsonByte) \cup {Null}]
SequenceType == [ type : {TYPE_DOCUMENT_SEQUENCE},
                  identifier : Seq(BsonByte) \cup {Null},
                  documents : Seq(Seq(BsonByte)) ]

(* The caret never leaves its data, whatever the size fields in it say.    *)
TypeOK ==
  /\ caret \in [data : Seq(BsonByte), pos : Nat, error : BOOLEAN]
  /\ caret.pos <= DataSize(caret)
  /\ flags \in Flags
  /\ sections \in Seq(BodyType \cup SequenceType)
  /\ section \in [section : SequenceType, size : Int, progress : Nat]
  /\ pc \in {"flags", "sections", "sequence", "parsed", "failed"}

(* The documents of a section, and whether readFromCaret came to its end.  *)
Documents(s) ==
  IF s.type = TYPE_BODY THEN <<s.document>> ELSE s.documents

IsWhole(s) == IF s.type = TYPE_BODY THEN s.document # Null ELSE s.identifier # Null

Counts(doc) == Len(doc) >= 5 /\ ReadInt32(Caret(doc)).value = Len(doc)

(* A section kept in spite of an error is the last one.  Each document of  *)
(* the others is a document's length, and as long as its own size field    *)
(* says: what a caller hands on to the deserializer has not been cut off,  *)
(* nor has it a neighbour's bytes at its end.                              *)
SizedDocuments ==
  \A i \in DOMAIN sections :
    i < Len(sections) \/ ~caret.error =>
      /\ IsWhole(sections[i])
      /\ \A k \in DOMAIN Documents(sections[i]) : Counts(Documents(sections[i])[k])

(* Where a section begins in the data. *)
Offset(i) ==
  4 + Len(FlattenSeq([k \in 1 .. i - 1 |-> SectionBytes(sections[k])]))

DataAt(offset, n) == CurrBytes(Inc(caret, offset - caret.pos), n)

(* The bytes of section s at an offset: all of them but the size of a      *)
(* sequence are what the writer would make of s.  The size may be smaller: *)
(* a sequence is read up to the end of the document, or of the identifier, *)
(* in which it ends.                                                       *)
StandsAt(s, offset) ==
  LET bytes == SectionBytes(s)
      size  == ReadInt32(Inc(Caret(caret.data), offset + 1)).value
      last  == s.documents[Len(s.documents)]
  IN
  IF s.type = TYPE_BODY
  THEN DataAt(offset, Len(bytes)) = bytes
  ELSE /\ DataAt(offset, 1) = <<TYPE_DOCUMENT_SEQUENCE>>
       /\ DataAt(offset + 5, Len(bytes) - 5) = SequenceContent(s)
       /\ size <= Len(bytes) - 1
       /\ s.documents # <<>> => Len(bytes) - 1 - Len(last) < size

(* As long as there is no error the sections cover what has been read,     *)
(* without a gap and without an overlap, up to the last byte when          *)
(* readFromCaret returns true: no document of a message is lost, read      *)
(* twice or read from the bytes of its neighbour.                          *)
Accounted ==
  pc \in {"sections", "parsed"} /\ ~caret.error =>
    /\ Offset(Len(sections) + 1) = caret.pos
    /\ \A i \in DOMAIN sections : StandsAt(sections[i], Offset(i))
    /\ pc = "parsed" => Left(caret) = 0

(* What a message consists of when it is written: documents as long as     *)
(* their size fields say, names that a NUL can end, and sequences whose    *)
(* length an int32 can say.                                                *)
IsWritable(s) ==
  /\ IsWhole(s)
  /\ \A k \in DOMAIN Documents(s) : Counts(Documents(s)[k])
  /\ s.type = TYPE_DOCUMENT_SEQUENCE =>
       /\ \A j \in DOMAIN s.identifier : s.identifier[j] # 0
       /\ 4 + Len(SequenceContent(s)) <= MaxInt32

IsMessage(m) ==
  /\ m \in [flags : Flags, sections : Seq(BodyType \cup SequenceType)]
  /\ \A i \in DOMAIN m.sections : IsWritable(m.sections[i])

ASSUME MessagesAssumption == \A m \in Messages : IsMessage(m)

(* What writeToStream has written, readFromCaret reads as the same message. *)
WrittenIsParsed ==
  pc \in {"parsed", "failed"} =>
    \A m \in Messages :
      OpMsgBytes(m) = caret.data =>
        pc = "parsed" /\ m = [flags |-> flags, sections |-> sections]

(* readFromCaret returns. *)
Terminates == <>(pc \in {"parsed", "failed"})
=============================================================================
