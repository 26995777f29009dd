----------------------------- MODULE MCSerializer -----------------------------
(***************************************************************************)
(* Small instances of Serializer: a root object with two fields, the first *)
(* of which ranges over every class of value and over collections, maps    *)
(* and objects of up to two such values, so that compounds nest in         *)
(* compounds, nulls and failures occur at every depth and before or after  *)
(* something has been written.                                             *)
(***************************************************************************)
EXTENDS Serializer, BsonReference

MCPrefix == <<7>>

a == <<97>>
b == <<98>>

Str     == Value("String", <<104, 105>>, <<>>)
NullStr == NullOf("String")
Num     == Value("Int32", <<1, 0, 0, 0>>, <<>>)
Bool    == Value("Boolean", <<1>>, <<>>)
Date    == Value("DateTime", <<5, 0, 0, 0, 0, 0, 0, 0>>, <<>>)

Wrap(class, v) == Value(class, <<>>, <<Entry(a, v)>>)

InlineDoc    == Value("InlineDocument", <<5, 0, 0, 0, 0>>, <<>>)
BadInlineDoc == Value("InlineDocument", <<6, 0, 0, 0, 0>>, <<>>)
ShortArray   == Value("InlineArray", <<4, 0, 0, 0>>, <<>>)
Unknown      == Value("Unknown", <<>>, <<>>)

(* Every method, each of its outcomes. *)
Leaves ==
  { Str, NullStr, Num, Bool, Date, InlineDoc, BadInlineDoc, ShortArray,
    NullOf("InlineDocument"), Wrap("Any", Num), Wrap("Any", NullStr),
    NullOf("Any"), Wrap("Enum", Num), NullOf("Enum"),
    Wrap("NotNullEnum", Str), NullOf("Map"), Wrap("Interpreted", Str), Unknown }
  \cup { [NullOf("NotNullEnum") EXCEPT !.items = <<Entry(a, NullStr)>>],
         [NullOf("Interpreted") EXCEPT !.items = <<Entry(a, Str)>>] }

(* The ones that leave the rest of a document to be written. *)
FewLeaves == { Num, NullStr, Wrap("Any", NullStr) }

(* A union TLC keeps as a formula, written out as a set. *)
Listed(S) == { v \in S : TRUE }

Items(S) == { <<>> } \cup { <<Entry(a, x)>> : x \in S }
            \cup { <<Entry(a, x), Entry(a, y)>> : x \in S, y \in S }

Collections(S) == { Value("Collection", <<>>, i) : i \in Items(S) }

(* Maps and objects with the keys of ks, which may be null in a map. *)
Keyed(class, ks, S) ==
  { Value(class, <<>>, <<Entry(ks[1], x), Entry(ks[2], y)>>) : x \in S, y \in S }

Select(e, s) == [e EXCEPT !.select = s]

(* Objects whose only field has a typeSelector. *)
Polymorphic ==
  { Value("Object", <<>>, <<Select(Entry(a, x), s)>>) :
      x \in { Wrap("Any", Num), Wrap("Any", NullStr), NullOf("Any") },
      s \in { "match", "mismatch" } }

Nested ==
  UNION { Leaves, Collections(Leaves), Collections(Collections(FewLeaves)),
          Keyed("Map", <<a, b>>, Leaves), Polymorphic,
          Keyed("Object", <<a, b>>, FewLeaves \cup Collections(FewLeaves)) }

Documents == Keyed("Object", <<b, a>>, {Num})
             \cup { Value("Object", <<>>, <<Entry(b, x), Entry(a, y)>>) :
                    x \in Nested, y \in {Num, NullStr} }

AllRoots == Listed(Documents \cup Leaves \cup Collections(FewLeaves))

(* A map whose first key is null. *)
NullKeyRoots ==
  { Value("Object", <<>>, <<Entry(b, m)>>) :
      m \in Keyed("Map", <<NullKey, b>>, Leaves \cup Collections(FewLeaves)) }

UnknownRoots ==
  { Value("Object", <<>>, <<Entry(a, x), Entry(b, y)>>) :
      x \in FewLeaves, y \in {Unknown, Str} \cup Collections({Num, Unknown}) }

Holding(S) ==
  S \cup UNION { { v.items[i].value : i \in DOMAIN v.items } : v \in S }

(* The roots nest four deep. *)
HeldBy(roots) ==
  Listed({ NullOf("Object") } \cup Holding(Holding(Holding(Holding(roots)))))

(* TLC evaluates these once, but what the cfg substitutes for a constant   *)
(* at every use. *)
AllValues        == HeldBy(AllRoots)
AllNullKeyValues == HeldBy(NullKeyRoots)
AllUnknownValues == HeldBy(UnknownRoots)

MCRoots       == AllRoots
MCValues      == AllValues
NullKeyValues == AllNullKeyValues
UnknownValues == AllUnknownValues

(* The encodings by the reference. *)
MCEncoding ==
  [ nulls \in BOOLEAN |->
      [ v \in Values |->
          Element(ElementCode(v), PayloadOf(v, nulls)) ] ]

-----------------------------------------------------------------------------
(* Every call ends, by returning or by throwing. *)
Terminates == <>(pc \in Failures \cup {"done"})

(* Serializer.hpp, of throwOnUnknownTypes: "If `true` - insert string      *)
(* "<unknown-type>" in bson field value in case unknown field found." *)
UnknownTypesInserted ==
  config.throwOnUnknownTypes => pc # "unknown type"

(* Serializer.cpp: "The key can't be null."  Inside a document nothing is  *)
(* written without a key: the call throws, or passes it on to another.     *)
NullKeysRefused ==
  [][ pc = "call" /\ stack # <<>> /\ call.key = NullKey
      => pc' \in Failures \cup {"call"} ]_vars
=============================================================================
