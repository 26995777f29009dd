----------------------------- MODULE BsonDocuments -----------------------------
(***************************************************************************)
(* What BSON documents are, of whatever types, independently of how the    *)
(* library makes them: how the bytes of a document divide into elements.   *)
(* No definition is recursive, so that proofs may speak of them: a         *)
(* document is one if a walk over its bytes does not go astray.            *)
(***************************************************************************)
EXTENDS BsonFormat

(* A place is an element at offset at of a document's contents (the bytes  *)
(* behind its size field), or the payload of such an element, with its     *)
(* code.  index is the number that the next key must be in an array, and   *)
(* NoIndex in any other document.                                          *)
NoIndex == -1

ElementAt(data, at, index) ==
  [kind |-> "element", data |-> data, at |-> at, code |-> 0, index |-> index]

PayloadAt(data, at, code, index) ==
  [kind |-> "payload", data |-> data, at |-> at, code |-> code, index |-> index]

Astray == [ElementAt(<<>>, 0, NoIndex) EXCEPT !.kind = "astray"]

FirstIndex(code) == IF code = DOCUMENT_ARRAY THEN 0 ELSE NoIndex

NextIndex(index) == IF index = NoIndex THEN NoIndex ELSE index + 1

KeyFits(key, index) == index = NoIndex \/ key = IndexKey(index)

(* The bytes behind the size field of a document. *)
ContentsAt(bytes, at, end, code) ==
  ElementAt(SubSeq(bytes, at + 5, end), 0, FirstIndex(code))

(* Nothing comes after the terminator, which is the last byte. *)
FromElement(p) ==
  LET n     == Len(p.data)
      start == AfterNul(p.data, p.at + 1)
  IN IF p.at = n - 1 /\ p.data[n] = 0 THEN {}
     ELSE IF \/ p.at \notin 0 .. n - 1 \/ start = 0
             \/ ~KeyFits(SubSeq(p.data, p.at + 2, start - 1), p.index)
     THEN {Astray}
     ELSE {PayloadAt(p.data, start, p.data[p.at + 1], NextIndex(p.index))}

(* The size of a string counts its terminator, that of a document itself   *)
(* and a terminator; a boolean is 0 or 1. *)
IsPayload(bytes, at, end, code) ==
  /\ code \in {STRING_CODE, DOCUMENT_EMBEDDED, DOCUMENT_ARRAY} => end - at >= 5
  /\ code = STRING_CODE  => bytes[end] = 0
  /\ code = BOOLEAN_CODE => bytes[end] \in {0, 1}

FromPayload(p) ==
  LET end == PayloadEnd(p.data, p.at, p.code) IN
  IF end = 0 THEN {Astray}
  ELSE IF ~IsPayload(p.data, p.at, end, p.code) THEN {Astray}
  ELSE {ElementAt(p.data, end, p.index)}
       \cup (IF p.code \in {DOCUMENT_EMBEDDED, DOCUMENT_ARRAY}
             THEN {ContentsAt(p.data, p.at, end, p.code)} ELSE {})

Leads(p) ==
  CASE p.kind = "astray"  -> {Astray}
    [] p.kind = "element" -> FromElement(p)
    [] p.kind = "payload" -> FromPayload(p)

(* The places n steps from p on. *)
Walk(p, n) ==
  LET step[i \in 0 .. n] ==
        IF i = 0 THEN {p} ELSE UNION { Leads(x) : x \in step[i - 1] }
  IN step[n]

(* A document or, with the code of one, an array, as far as n steps go. *)
IsDocument(bytes, code, n) ==
  /\ Len(bytes) >= 5
  /\ SizeAt(bytes, 0) = Len(bytes)
  /\ Astray \notin Walk(ContentsAt(bytes, 0, Len(bytes), code), n)
=============================================================================
