--------------------------- MODULE MessageChannel ---------------------------
(***************************************************************************)
(* What two ends of a driver::wire::Connection promise each other: every   *)
(* message sent is delivered, once, in order and unchanged, until one of   *)
(* the ends has been told of a failure.  Then nothing is promised, and the *)
(* variables are frozen.                                                   *)
(***************************************************************************)
EXTENDS Naturals, Sequences

CONSTANT Messages

VARIABLES
  sent,       \* messages, in the order they were sent
  delivered,  \* messages delivered
  failed      \* whether an end has been told of a failure

vars == <<sent, delivered, failed>>

Init == sent = <<>> /\ delivered = <<>> /\ ~failed

Send ==
  /\ ~failed
  /\ \E m \in Messages : sent' = Append(sent, m)
  /\ UNCHANGED <<delivered, failed>>

Deliver ==
  /\ ~failed /\ Len(delivered) < Len(sent)
  /\ delivered' = Append(delivered, sent[Len(delivered) + 1])
  /\ UNCHANGED <<sent, failed>>

Fail == ~failed /\ failed' = TRUE /\ UNCHANGED <<sent, delivered>>

Next == Send \/ Deliver \/ Fail

Spec     == Init /\ [][Next]_vars
FairSpec == Spec /\ WF_vars(Deliver)
=============================================================================
