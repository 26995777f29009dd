------------------------------- MODULE Driver -------------------------------
(***************************************************************************)
(* The commands of driver::command at work: a caller with command objects  *)
(* and a connection, and a peer that reads what they send.                 *)
(*                                                                         *)
(* A command collects documents, toMessage turns it into an OP_MSG message *)
(* and Connection::write sends it.  The caller is external and does what   *)
(* the code leaves to it: it numbers its requests, one at a time, waits    *)
(* for the answer that names the request, and may give up when a read has  *)
(* timed out before the first byte.  The answer then comes late.           *)
(*                                                                         *)
(* Messages travel whole, which is what module Wire makes of the bytes of  *)
(* a stream as long as no transfer breaks off.  The peer parses them with  *)
(* OpMsg::readFromCaret, all steps of which are steps of this module.      *)
(***************************************************************************)
EXTENDS WireMessage, SequencesExt

CONSTANTS
  Commands,    \* command objects
  Kind,        \* the class of each
  BodyOf,      \* the document the mapper writes for the DTO of each
  DocumentSet, \* documents addDocument may be called with
  Int32Range,  \* how many values an int32 has: 2^32 in the code
  MaxAdded,    \* bound on calls of addDocument, per command
  MaxMessages, \* bound on calls of toMessage
  MaxTimeouts  \* bound on calls the caller gives up

(* What a command names the sequence of its documents: "documents",        *)
(* "updates" and "delete".                                                 *)
Identifier ==
  [ Insert |-> <<100, 111, 99, 117, 109, 101, 110, 116, 115>>,
    Update |-> <<117, 112, 100, 97, 116, 101, 115>>,
    Delete |-> <<100, 101, 108, 101, 116, 101>> ]

HasDocuments(c) == Kind[c] \in DOMAIN Identifier

ASSUME DriverAssumption ==
  /\ Kind \in [Commands -> {"Find"} \cup DOMAIN Identifier]
  /\ BodyOf \in [Commands -> Seq(BsonByte)]
  /\ DocumentSet \subseteq Seq(BsonByte)
  /\ Int32Range \in Nat \ {0} /\ Int32Range % 2 = 0 /\ Int32Range \div 2 - 1 <= MaxInt32
  /\ MaxAdded \in Nat /\ MaxMessages \in Nat /\ MaxTimeouts \in Nat
  /\ MaxMessages <= MaxInt32

VARIABLES
  (* the caller *)
  documents,  \* m_documents->documents of each command
  message,    \* a message made and not yet sent, or NoMessage
  outcome,    \* how each call has ended, if it has
  (* the two directions of the connection *)
  toPeer, toCaller,
  (* the peer: the header of the message it is reading, and its parser *)
  serving, caret, flags, sections, section, pc,
  (* histories *)
  added,      \* what addDocument has been called with, per command
  meant,      \* what message was made for
  asked,      \* the requests write has accepted
  executed,   \* the requests the peer has parsed
  refused,    \* the lengths of the messages write has refused
  made, timeouts

callerVars == <<documents, message, outcome, added, meant, asked, refused, made, timeouts>>
peerVars   == <<serving, caret, flags, sections, section, pc, executed>>
vars       == <<callerVars, peerVars, toPeer, toCaller>>

Parser == INSTANCE OpMsg WITH Data <- Seq(BsonByte), Messages <- {}

(* What the mapper writes is as long as its size field says; addDocument   *)
(* does not look at what it is given, which must be the mapper's too.      *)
ASSUME DocumentsAssumption ==
  \A doc \in DocumentSet \cup {BodyOf[c] : c \in Commands} : Parser!Counts(doc)

NoMessage == Message(NewHeader(0), <<>>)
NoHeader  == NewHeader(0)
NoFlags   == [checksumPresent |-> FALSE, moreToCome |-> FALSE, exhaustAllowed |-> FALSE]

Init ==
  /\ documents = [c \in Commands |-> <<>>] /\ added = documents
  /\ message = NoMessage /\ meant = NoMessage
  /\ outcome = <<>> /\ asked = <<>> /\ executed = <<>> /\ refused = {}
  /\ toPeer = <<>> /\ toCaller = <<>>
  /\ serving = NoHeader
  /\ caret = Caret(<<>>) /\ flags = NoFlags
  /\ sections = <<>> /\ section = Parser!NoSection /\ pc = "idle"
  /\ made = 0 /\ timeouts = 0

-----------------------------------------------------------------------------
(* Commands. *)

(* Insert, Update and Delete have an addDocument, Find has none. *)
AddDocument(c, d) ==
  /\ HasDocuments(c)
  /\ Len(added[c]) < MaxAdded
  /\ documents' = [documents EXCEPT ![c] = Append(@, d)]
  /\ added' = [added EXCEPT ![c] = Append(@, d)]
  /\ UNCHANGED <<message, outcome, meant, asked, refused, made, timeouts,
                 peerVars, toPeer, toCaller>>

(* A body, and a section for the documents even if there are none. *)
OpMsgOf(c, docs) ==
  [ flags    |-> NoFlags,
    sections |-> IF HasDocuments(c)
                 THEN << Parser!Body(BodyOf[c]), Parser!Sequence(Identifier[Kind[c]], docs) >>
                 ELSE << Parser!Body(BodyOf[c]) >> ]

(* A number converted to v_int32, or computed as one. *)
Int32(n) == ((n + Int32Range \div 2) % Int32Range) - Int32Range \div 2

MessageOf(data) == Message(NewHeader(Int32(HeaderSize + Int32(Len(data)))), data)

(* Faulty: the documents are moved into the message. *)
ToMessageMoves(c) ==
  /\ message = NoMessage /\ made < MaxMessages
  /\ made' = made + 1
  /\ message' = MessageOf(Parser!OpMsgBytes(OpMsgOf(c, documents[c])))
  /\ documents' = [documents EXCEPT ![c] = <<>>]
  /\ meant' = OpMsgOf(c, added[c])
  /\ UNCHANGED <<outcome, added, asked, refused, timeouts, peerVars, toPeer, toCaller>>

(* The command keeps its documents, for every message made of it. *)
ToMessage(c) ==
  /\ message = NoMessage /\ made < MaxMessages
  /\ made' = made + 1
  /\ message' = MessageOf(Parser!OpMsgBytes(OpMsgOf(c, documents[c])))
  /\ meant' = OpMsgOf(c, added[c])
  /\ UNCHANGED <<documents, outcome, added, asked, refused, timeouts,
                 peerVars, toPeer, toCaller>>

-----------------------------------------------------------------------------
(* The caller and the connection. *)

Pending      == [status |-> "pending", answer |-> <<>>]
GivenUp      == [status |-> "given up", answer |-> <<>>]
Answered(by) == [status |-> "answered", answer |-> by]

Waiting == asked # <<>> /\ outcome[Len(asked)] = Pending

(* How a message travels. *)
Sent(header, data) == [header |-> HeaderBytes(header), data |-> data]

(* Faulty: the number is left as toMessage sets it. *)
NoId == 0

(* The caller's number for its next request. *)
NextId == Len(asked) + 1

(* Connection::write; a message that it refuses is dropped. *)
Write ==
  LET m == [message EXCEPT !.header.requestId = NextId] IN
  /\ message # NoMessage /\ ~Waiting
  /\ message' = NoMessage /\ meant' = NoMessage
  /\ IF LengthIsRight(m)
     THEN /\ toPeer' = Append(toPeer, Sent(m.header, m.data.bytes))
          /\ asked' = Append(asked, meant)
          /\ outcome' = Append(outcome, Pending)
          /\ UNCHANGED refused
     ELSE /\ refused' = refused \cup {HeaderSize + m.data.size}
          /\ UNCHANGED <<toPeer, asked, outcome>>
  /\ UNCHANGED <<documents, added, made, timeouts, peerVars, toCaller>>

(* Connection::read.  The caller reads on if the answer is not the one it  *)
(* waits for.                                                              *)
Read ==
  LET h == HeaderOf(Head(toCaller).header) IN
  /\ Waiting /\ toCaller # <<>>
  /\ toCaller' = Tail(toCaller)
  /\ outcome' = IF h.responseTo = Len(asked)
                THEN [outcome EXCEPT ![Len(asked)] = Answered(Head(toCaller).data)]
                ELSE outcome
  /\ UNCHANGED <<documents, message, added, meant, asked, refused, made, timeouts,
                 peerVars, toPeer>>

GiveUp ==
  /\ Waiting /\ timeouts < MaxTimeouts
  /\ timeouts' = timeouts + 1
  /\ outcome' = [outcome EXCEPT ![Len(asked)] = GivenUp]
  /\ UNCHANGED <<documents, message, added, meant, asked, refused, made,
                 peerVars, toPeer, toCaller>>

-----------------------------------------------------------------------------
(* The peer. *)

PeerReads ==
  LET m == Head(toPeer) IN
  /\ pc = "idle" /\ toPeer # <<>>
  /\ toPeer' = Tail(toPeer)
  /\ serving' = HeaderOf(m.header)
  /\ caret' = Caret(m.data)
  /\ pc' = "flags"
  /\ UNCHANGED <<flags, sections, section, executed, callerVars, toCaller>>

PeerParses ==
  /\ Parser!Step
  /\ UNCHANGED <<serving, executed, callerVars, toPeer, toCaller>>

(* The answer to a request tells what it was; it names the request and has *)
(* a number of the peer's own.                                             *)
Reply(request) == Parser!OpMsgBytes(request)

PeerAnswers ==
  LET request == [flags |-> flags, sections |-> sections]
      answer  == Reply(request)
      header  == [ NewHeader(HeaderSize + Len(answer)) EXCEPT
                     !.requestId  = -1 - Len(executed),
                     !.responseTo = serving.requestId ]
  IN
  /\ pc = "parsed"
  /\ executed' = Append(executed, request)
  /\ toCaller' = Append(toCaller, Sent(header, answer))
  /\ serving' = NoHeader
  /\ caret' = Caret(<<>>) /\ flags' = NoFlags
  /\ sections' = <<>> /\ section' = Parser!NoSection /\ pc' = "idle"
  /\ UNCHANGED <<callerVars, toPeer>>

-----------------------------------------------------------------------------
Next ==
  \/ \E c \in Commands, d \in DocumentSet : AddDocument(c, d)
  \/ \E c \in Commands : ToMessage(c)
  \/ Write \/ Read \/ GiveUp
  \/ PeerReads \/ PeerParses \/ PeerAnswers

Spec == Init /\ [][Next]_vars

(* The peer goes on, and a caller that waits reads; it need not give up.   *)
FairSpec ==
  /\ Spec
  /\ WF_vars(PeerReads \/ PeerParses \/ PeerAnswers)
  /\ WF_vars(Read)

-----------------------------------------------------------------------------
Request ==
  [flags : {NoFlags}, sections : Seq(Parser!BodyType \cup Parser!SequenceType)]

Outcome == [status : {"pending", "given up", "answered"}, answer : Seq(BsonByte)]

Packet == [header : Seq(BsonByte), data : Seq(BsonByte)]

(* A caller that waits has not been answered; the peer has a header while  *)
(* it parses.                                                              *)
TypeOK ==
  /\ documents \in [Commands -> Seq(DocumentSet)]
  /\ message \in MessageType
  /\ meant \in Request \cup {NoMessage} /\ (meant = NoMessage <=> message = NoMessage)
  /\ outcome \in Seq(Outcome) /\ Len(outcome) = Len(asked)
  /\ asked \in Seq(Request) /\ executed \in Seq(Request)
  /\ toPeer \in Seq(Packet) /\ toCaller \in Seq(Packet)
  /\ serving \in MessageHeader /\ (serving = NoHeader <=> pc = "idle")
  /\ pc = "idle" \/ Parser!TypeOK
  /\ refused \subseteq Nat

(* A length is computed in int32 and may wrap around, to a negative number *)
(* or to a small one.  What write lets pass nevertheless says how long it  *)
(* is, and what it refuses is longer than an int32 can say: no command is  *)
(* cut off by the peer, swallows the one behind it or is refused for       *)
(* nothing.                                                                *)
LengthsFit ==
  /\ \A i \in DOMAIN toPeer :
       HeaderOf(toPeer[i].header).messageLength = HeaderSize + Len(toPeer[i].data)
  /\ \A n \in refused : n >= Int32Range \div 2

Service == INSTANCE Calls
  WITH Requests <- { OpMsgOf(c, docs) : c \in Commands, docs \in SeqOf(DocumentSet, MaxAdded) }

(* The peer executes what toMessage was called for: the documents added to *)
(* the command before it, in order, those of its earlier messages included *)
(* and none that was added between toMessage and write; each request once. *)
(* A call that ends with an answer has the answer to its own request,      *)
(* whichever answers came late; and every call ends.                       *)
ImplementsCalls == Service!FairSpec
=============================================================================
