------------------------------- MODULE MCOpMsg -------------------------------
(***************************************************************************)
(* Instances of OpMsg for TLC: what the writer makes of messages with up   *)
(* to three sections, and damaged forms of it.                             *)
(***************************************************************************)
EXTENDS OpMsg

EmptyDoc == DocumentBytes(<<>>)
NullDoc  == DocumentBytes(KeyBytes(NULL_VALUE, <<97>>))

Identifiers == {<<>>, <<100>>}

MCSections ==
  {Body(EmptyDoc), Body(NullDoc)}
    \cup { Sequence(id, docs) :
             id \in Identifiers,
             docs \in {<<>>, <<EmptyDoc>>, <<NullDoc, EmptyDoc>>} }

MCFlags(c, m, e) == [checksumPresent |-> c, moreToCome |-> m, exhaustAllowed |-> e]

NoFlags == MCFlags(FALSE, FALSE, FALSE)

(* The messages of commands have one body, alone or before a sequence. *)
MCMessages ==
  { [flags |-> f, sections |-> <<>>] : f \in Flags }
  \cup { [flags |-> NoFlags, sections |-> s] :
           s \in UNION { [1 .. n -> MCSections] : n \in 1 .. 2 } }
  \cup { [ flags    |-> MCFlags(TRUE, FALSE, TRUE),
           sections |-> <<Body(EmptyDoc), Sequence(<<100>>, <<NullDoc>>), s>> ] :
           s \in MCSections }

Damaged ==
  LET of == { OpMsgBytes(m) : m \in
                { [flags |-> NoFlags, sections |-> <<Body(NullDoc), s>>] : s \in MCSections }
                \cup { [ flags    |-> NoFlags,
                         sections |-> <<Sequence(<<100>>, <<NullDoc, EmptyDoc>>), s>> ] :
                         s \in MCSections } }
  IN UNION { { SubSeq(b, 1, n) : n \in 0 .. Len(b) }
             \cup { [b EXCEPT ![i] = v] : i \in DOMAIN b, v \in {0, 1, 2, 4, 5, 127, 255} }
             \cup { [b EXCEPT ![i] = @ + d] : i \in { j \in DOMAIN b : b[j] \in 1 .. 99 }, d \in {-1, 1} }
             : b \in of }

(* With the checksum that no writer of this library adds. *)
WithChecksum ==
  { OpMsgBytes([flags |-> MCFlags(TRUE, FALSE, FALSE), sections |-> <<Body(EmptyDoc)>>])
      \o sum : sum \in [1 .. 4 -> {0, 1, 5}] }

AllData == { OpMsgBytes(m) : m \in MCMessages } \cup Damaged \cup WithChecksum

MCData == AllData
=============================================================================
