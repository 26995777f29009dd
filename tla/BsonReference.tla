---------------------------- MODULE BsonReference ----------------------------
(***************************************************************************)
(* Which BSON document stands for a value, independently of how the        *)
(* library makes and reads it.  Only the runs use this module: its         *)
(* definitions are recursive.                                              *)
(***************************************************************************)
EXTENDS BsonFormat, SequencesExt

(* The value whose bytes stand for v: an Any, an Enum or an interpreted    *)
(* type stands for the value it holds, if it holds one; a null pointer of  *)
(* an interpreted type may. *)
RECURSIVE Essence(_)
Essence(v) ==
  IF v.class \in {"Any", "Enum", "NotNullEnum", "Interpreted"} /\ v.items # <<>>
  THEN Essence(v.items[1].value) ELSE v

(* What a field with a typeSelector holds. *)
FieldValue(e) ==
  IF e.select = "none" \/ e.value.null THEN e.value ELSE e.value.items[1].value

(* Entries whose pointer is null are left out unless they are asked for. *)
WrittenItems(v, includeNullFields) ==
  SelectSeq(v.items, LAMBDA e : includeNullFields \/ ~FieldValue(e).null)

RECURSIVE PayloadOf(_, _)
RECURSIVE DocumentOf(_, _)

ElementCode(value) ==
  LET v == Essence(value) IN
  CASE v.null                                     -> NULL_VALUE
    [] ~v.null /\ v.class \in ScalarClass         -> ScalarCode[v.class]
    [] ~v.null /\ v.class \in {"Collection", "InlineArray"} -> DOCUMENT_ARRAY
    [] OTHER                                      -> DOCUMENT_EMBEDDED

(* Nothing follows code and key of a null. *)
PayloadOf(value, includeNullFields) ==
  LET v == Essence(value) IN
  CASE v.null                             -> <<>>
    [] ~v.null /\ v.class \in ScalarClass -> ScalarBytes(v)
    [] OTHER                              -> DocumentOf(v, includeNullFields)

ElementOf(key, value, includeNullFields) ==
  KeyBytes(ElementCode(value), key) \o PayloadOf(value, includeNullFields)

(* The elements of the entries written, numbered if they have no names. *)
DocumentOf(value, includeNullFields) ==
  LET v     == Essence(value)
      items == WrittenItems(v, includeNullFields)
  IN IF v.class \in {"InlineDocument", "InlineArray"} THEN v.bytes
     ELSE DocumentBytes(FlattenSeq(
            [ i \in 1 .. Len(items) |->
                ElementOf(IF v.class = "Collection" THEN IndexKey(i - 1)
                          ELSE items[i].key,
                          FieldValue(items[i]), includeNullFields) ]))
=============================================================================
