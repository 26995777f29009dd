------------------------------ MODULE UniqueIds ------------------------------
(***************************************************************************)
(* What a generator of document identifiers promises its callers: every   *)
(* call returns once, with a value no earlier call returned.  Nothing is  *)
(* said of how the value is made; module ObjectIds shows that the         *)
(* constructor of bson::type::ObjectId keeps the promise as long as one   *)
(* process draws no more values than its 24-bit counter has.              *)
(***************************************************************************)
CONSTANTS Calls,  \* the calls ever made
          Ids     \* the values a call may return

VARIABLE assigned \* the pairs <<call, value returned>>

Issue(c, id) ==
  /\ c \in Calls /\ id \in Ids
  /\ \A a \in assigned : a[1] # c /\ a[2] # id
  /\ assigned' = assigned \cup {<<c, id>>}

Init == assigned = {}

(* A step answers one call.  The pair is sought in the new value of        *)
(* assigned, not in Calls \X Ids, which is too large to enumerate.         *)
Next == \E a \in assigned' : Issue(a[1], a[2])

Spec == Init /\ [][Next]_assigned
=============================================================================
