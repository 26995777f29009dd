-------------------------------- MODULE Calls --------------------------------
(***************************************************************************)
(* What a caller of MongoDB commands expects of a connection: requests are *)
(* executed in the order in which they were made, each once and as it was  *)
(* meant; a call ends, with the answer to its own request or because the   *)
(* caller has given it up.                                                 *)
(***************************************************************************)
EXTENDS Naturals, Sequences

CONSTANTS
  Requests,
  Reply(_)  \* the answer to a request

VARIABLES
  asked,     \* the requests made, in order
  executed,  \* the requests the peer has executed, in order
  outcome    \* how each call has ended, if it has

vars == <<asked, executed, outcome>>

Pending      == [status |-> "pending", answer |-> <<>>]
GivenUp      == [status |-> "given up", answer |-> <<>>]
Answered(by) == [status |-> "answered", answer |-> by]

Waiting == asked # <<>> /\ outcome[Len(asked)] = Pending

Init == asked = <<>> /\ executed = <<>> /\ outcome = <<>>

Ask ==
  /\ ~Waiting
  /\ \E r \in Requests : asked' = Append(asked, r)
  /\ outcome' = Append(outcome, Pending)
  /\ UNCHANGED executed

Execute ==
  /\ Len(executed) < Len(asked)
  /\ executed' = Append(executed, asked[Len(executed) + 1])
  /\ UNCHANGED <<asked, outcome>>

End ==
  /\ Waiting
  /\ \/ /\ Len(executed) = Len(asked)
        /\ outcome' = [outcome EXCEPT ![Len(asked)] = Answered(Reply(asked[Len(asked)]))]
     \/ outcome' = [outcome EXCEPT ![Len(asked)] = GivenUp]
  /\ UNCHANGED <<asked, executed>>

Next == Ask \/ Execute \/ End

Spec     == Init /\ [][Next]_vars
FairSpec == Spec /\ WF_vars(Execute) /\ WF_vars(End)
=============================================================================
