----------------------------- MODULE MCObjectIds -----------------------------
(***************************************************************************)
(* Small instances of ObjectIds: bits for bytes, so that an identifier     *)
(* shows a counter of 2^3 values and seconds of 2^4, and a counter word    *)
(* of 2^4 values, which the seeds place just before each of its wraps.     *)
(***************************************************************************)
EXTENDS ObjectIds

CONSTANTS p1, p2, t1, t2, t3

MCSeeds == {5, 12}

MCProcessUniques == {<<0, 0, 0, 0, 0>>, <<0, 0, 0, 0, 1>>}

OneUnique == {<<0, 1, 1, 0, 1>>}

(* Two threads of one process. *)
SharedOwner == [t \in {t1, t2} |-> p1]

(* Two threads of one process and one of another. *)
MixedOwner == [t \in {t1, t2, t3} |-> IF t = t3 THEN p2 ELSE p1]
=============================================================================
