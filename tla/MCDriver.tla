------------------------------ MODULE MCDriver ------------------------------
(***************************************************************************)
(* An instance of Driver for TLC: a Find, and a command with documents.    *)
(* An int32 has 128 values, so that two documents may be too many for a    *)
(* message, and a long one makes its length wrap around to a small number. *)
(***************************************************************************)
EXTENDS Driver

CONSTANTS find, insert

MCCommands == {find, insert}

MCKind == [c \in MCCommands |-> IF c = find THEN "Find" ELSE "Insert"]

EmptyDoc == DocumentBytes(<<>>)

NullDoc == DocumentBytes(KeyBytes(NULL_VALUE, <<97>>))

MCBodyOf == [c \in MCCommands |-> IF c = find THEN NullDoc ELSE EmptyDoc]

Long(n) == DocumentBytes([i \in 1 .. n - 5 |-> 0])

AllDocuments == {EmptyDoc, Long(20), Long(100)}

MCDocuments == AllDocuments
=============================================================================
