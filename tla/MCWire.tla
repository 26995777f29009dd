------------------------------- MODULE MCWire -------------------------------
(***************************************************************************)
(* An instance of Wire for TLC: messages without data and with a little,   *)
(* and one whose header does not say its length.                           *)
(***************************************************************************)
EXTENDS Wire

MCHeader(length, id) ==
  [messageLength |-> length, requestId |-> id, responseTo |-> 0, opCode |-> OP_CODE]

(* The data of one message looks like the beginning of a header. *)
AllMessages ==
  { Message(MCHeader(16, 1), <<>>),
    Message(MCHeader(22, 2), <<17, 0, 0, 0, 1, 16>>),
    Message(MCHeader(17, 3), <<5, 0>>) }

MCMessages == AllMessages

AllHeaders == { MCHeader(5, 7), MCHeader(16, 0) }

MCHeaders == AllHeaders
=============================================================================
