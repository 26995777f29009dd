----------------------------- MODULE MCByteOrder -----------------------------
(***************************************************************************)
(* An instance of ByteOrder for TLC: every kind of host, and numbers whose *)
(* bytes differ and have their high bits set in every combination.         *)
(***************************************************************************)
EXTENDS ByteOrder

MCHosts == Host

Bytes4 == [1 .. 4 -> {0, 1, 127, 128, 255}]

(* Each half of eight bytes has a byte of its own. *)
Bytes8 ==
  { [i \in 1 .. 8 |-> IF i = p THEN x ELSE IF i = q THEN y ELSE 0] :
      p \in 1 .. 4, q \in 5 .. 8, x \in {1, 128}, y \in {1, 64, 255} }

MCNumbers == [k \in Kind |-> IF k = "Int32" THEN Bytes4 ELSE Bytes8]
=============================================================================
