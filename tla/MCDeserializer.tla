---------------------------- MODULE MCDeserializer ----------------------------
(***************************************************************************)
(* Small instances of Deserializer: documents that stand for a value (by   *)
(* the reference encoding, which runs of MCSerializer show the serializer  *)
(* to produce), the same with elements the type does not know, and         *)
(* documents damaged in one byte, cut short or followed by other bytes.    *)
(***************************************************************************)
EXTENDS Deserializer, BsonReference

Type(class, item) ==
  [ class |-> class, item |-> item, fields |-> <<>>, entries |-> {},
    stringKeys |-> TRUE ]

Field(name, type) ==
  [name |-> <<name>>, type |-> type, select |-> "none", cases |-> {}]

Red == <<114>>
One == <<1, 0, 0, 0>>

(* A DTO with a field of every kind; a field's name is its number, but for *)
(* the three with a typeSelector, 16, 17 and 19.  That of the last looks   *)
(* at the String 2, as the one of ObjectTest's PolymorphicDto does; "Blob" *)
(* is a class without a method, as Void is. *)
DtoFields ==
  << Field(1, "Int32"), Field(2, "String"), Field(3, "Any"), Field(4, "Dto"),
     Field(5, "List<Int32>"), Field(6, "Fields<Any>"), Field(7, "Int8"),
     Field(8, "Float32"), Field(9, "DateTime"), Field(10, "InlineDocument"),
     Field(11, "Color"), Field(12, "Wrapped"), Field(13, "List<Size>"),
     Field(14, "Boolean"), Field(15, "ObjectId"),
     [Field(200, "Any") EXCEPT !.select = "String"],
     [Field(201, "Any") EXCEPT !.select = "Dto"],
     Field(18, "UInt32"),
     [Field(202, "Any") EXCEPT
        !.select = "String",
        !.cases = { [field |-> <<2>>, bytes |-> Red, type |-> "Int32"],
                    [field |-> <<2>>, bytes |-> <<>>, type |-> "Blob"] }] >>

(* What cannot be read into: a class without a method, a map without       *)
(* String keys, a NotNull enum for a null. *)
OddFields == << Field(1, "Blob"), Field(2, "Map<Int32>"), Field(3, "Size") >>

Names ==
  { DtoFields[i].type : i \in DOMAIN DtoFields } \cup GuessedTypes
  \cup {"Odd", "Blob", "Map<Int32>", "Size"}

(* Bytes that could and bytes that could not end a document. *)
MCBehind == { [i \in 1 .. 16 |-> b] : b \in {0, 255} }

Descriptors ==
  [ t \in Names |->
      CASE t = "Dto"         -> [Type("Object", "Int32") EXCEPT !.fields = DtoFields]
        [] t = "Odd"         -> [Type("Object", "Int32") EXCEPT !.fields = OddFields]
        [] t = "List<Any>"   -> Type("Collection", "Any")
        [] t = "List<Int32>" -> Type("Collection", "Int32")
        [] t = "List<Size>"  -> Type("Collection", "Size")
        [] t = "Fields<Any>" -> Type("Map", "Any")
        [] t = "Map<Int32>"  -> [Type("Map", "Int32") EXCEPT !.stringKeys = FALSE]
        [] t = "Color"       -> [Type("Enum", "String") EXCEPT !.entries = {Red}]
        [] t = "Size"        -> [Type("NotNullEnum", "Int32") EXCEPT !.entries = {One}]
        [] t = "Wrapped"     -> Type("Interpreted", "String")
        [] OTHER             -> Type(t, "Int32") ]

(* TLC evaluates Names and Descriptors once, but what the cfg substitutes  *)
(* for a constant at every use. *)
MCTypes    == Names
MCTypeInfo == Descriptors

-----------------------------------------------------------------------------
(* Values. *)

Num(n) == Value("Int32", <<n, 0, 0, 0>>, <<>>)
Str    == Value("String", Red, <<>>)
Long   == Value("Int64", <<1, 2, 0, 0, 0, 0, 0, 128>>, <<>>)

Holding(class, v) == Value(class, <<>>, <<Entry(<<>>, v)>>)
AnyOf(v) == Holding("Any", v)

List(s)      == Value("Collection", <<>>, [i \in DOMAIN s |-> Entry(<<>>, s[i])])
Named(k1, v1, k2, v2) == Value("Map", <<>>, <<Entry(k1, v1), Entry(k2, v2)>>)

EmptyDto == Value("Object", <<>>, NewItems("Dto"))

With(dto, name, v) == [dto EXCEPT !.items[name].value = v]
Dto(name, v)       == With(EmptyDto, name, v)

Minus1      == Value("Int8", <<255, 255, 255, 255>>, <<>>)
Largest     == Value("Float32", <<0, 0, 0, 224, 255, 255, 239, 199>>, <<>>)
Inline5     == Value("InlineDocument", <<5, 0, 0, 0, 0>>, <<>>)
TwelveBytes == [i \in 1 .. 12 |-> i]

(* Each field with the values it is given. *)
FieldValues ==
  { <<1, Num(7)>>, <<2, Str>>, <<2, Value("String", <<>>, <<>>)>>,
    <<3, AnyOf(Num(1))>>, <<3, AnyOf(Str)>>, <<3, AnyOf(Long)>>,
    <<3, AnyOf(Value("Boolean", <<1>>, <<>>))>>,
    <<3, AnyOf(Value("Float64", <<1, 0, 0, 0, 0, 0, 240, 127>>, <<>>))>>,
    <<3, AnyOf(List(<<AnyOf(Num(3)), NullOf("Any")>>))>>,
    <<3, AnyOf(Named(<<2>>, AnyOf(Str), <<1>>, AnyOf(List(<<>>))))>>,
    <<4, EmptyDto>>, <<4, Dto(1, Num(4))>>, <<4, Dto(4, Dto(16, AnyOf(Str)))>>,
    <<5, List(<<>>)>>, <<5, List(<<Num(5), NullOf("Int32"), Num(6)>>)>>,
    <<6, Named(<<1>>, AnyOf(Str), <<9, 9>>, NullOf("Any"))>>,
    <<7, Minus1>>, <<8, Largest>>,
    <<9, Value("DateTime", <<0, 1, 0, 0, 0, 0, 0, 0>>, <<>>)>>,
    <<10, Inline5>>, <<11, Holding("Enum", Value("String", Red, <<>>))>>,
    <<12, Holding("Interpreted", Str)>>,
    <<13, List(<<Holding("NotNullEnum", Num(1)), Holding("NotNullEnum", Num(1))>>)>>,
    <<14, Value("Boolean", <<0>>, <<>>)>>,
    <<15, Value("ObjectId", TwelveBytes, <<>>)>>,
    <<16, AnyOf(Str)>>, <<17, AnyOf(Dto(16, AnyOf(Str)))>>,
    <<18, Value("UInt32", <<1, 2, 3, 255, 0, 0, 0, 0>>, <<>>)>> }

OneField == { Dto(f[1], f[2]) : f \in FieldValues }

(* A field whose element is set aside or nested, and another before or     *)
(* after it. *)
TwoFields ==
  { With(Dto(f[1], f[2]), g[1], g[2]) :
      f \in { <<4, Dto(4, Dto(16, AnyOf(Str)))>>, <<16, AnyOf(Str)>> },
      g \in FieldValues }

(* The type of field 19 goes with the value of field 2, which may come     *)
(* before it or after it in the document. *)
Swapped(dto) == [dto EXCEPT !.items = Reverse(@)]

Selecting ==
  { Dto(19, AnyOf(Str)), With(Dto(2, Value("String", <<66>>, <<>>)), 19, AnyOf(Str)),
    With(Dto(2, Str), 19, AnyOf(Num(7))),
    With(With(Dto(2, Str), 19, AnyOf(Num(7))), 16, AnyOf(Str)) }

Lists == { List(<<>>), List(<<AnyOf(Str), NullOf("Any"), AnyOf(List(<<AnyOf(Num(1))>>))>>) }

(* Keys of an array that strtol takes for 0: "0", "", " +00" and "-0". *)
ZeroKeys == { <<48>>, <<>>, <<32, 43, 48, 48>>, <<45, 48>> }
OneItem(key) == DocumentBytes(KeyBytes(INT_32, key) \o One)

-----------------------------------------------------------------------------
(* Elements of every type code, under a name no DTO has. *)

Payloads ==
  { <<DOUBLE, TwelveBytes, 8>>, <<STRING_CODE, <<2, 0, 0, 0, 65, 0>>, 6>>,
    <<DOCUMENT_EMBEDDED, <<8, 0, 0, 0, 10, 65, 0, 0>>, 8>>,
    <<DOCUMENT_ARRAY, <<5, 0, 0, 0, 0>>, 5>>,
    <<BINARY, <<2, 0, 0, 0, 128, 0, 1>>, 7>>, <<UNDEFINED, <<>>, 0>>,
    <<OBJECT_ID, TwelveBytes, 12>>, <<BOOLEAN_CODE, <<1>>, 1>>,
    <<DATE_TIME, TwelveBytes, 8>>, <<NULL_VALUE, <<>>, 0>>,
    <<REGEXP, <<65, 66, 0, 67, 0>>, 5>>, <<REGEXP, <<0, 0>>, 2>>,
    <<BD_POINTER, <<1, 0, 0, 0, 0>> \o TwelveBytes, 17>>,
    <<JAVASCRIPT_CODE, <<1, 0, 0, 0, 0>>, 5>>, <<SYMBOL, <<1, 0, 0, 0, 0>>, 5>>,
    <<JAVASCRIPT_CODE_WS, <<14, 0, 0, 0, 1, 0, 0, 0, 0, 5, 0, 0, 0, 0>>, 14>>,
    <<INT_32, One, 4>>, <<TIMESTAMP, TwelveBytes, 8>>, <<INT_64, TwelveBytes, 8>>,
    <<DECIMAL_128, TwelveBytes \o One, 16>>, <<MAX_KEY, <<>>, 0>>,
    <<MIN_KEY, <<>>, 0>> }

ElementBytes(name, p) == KeyBytes(p[1], <<name>>) \o SubSeq(p[2], 1, p[3])

UnknownElements == { ElementBytes(99, p) : p \in Payloads }

Elements(doc) == SubSeq(doc, 5, Len(doc) - 1)

(* In front of the known elements, after them, in a nested document. *)
Extended(doc, u) ==
  { DocumentBytes(u \o Elements(doc)), DocumentBytes(Elements(doc) \o u) }

Nested(doc) == DocumentBytes(KeyBytes(DOCUMENT_EMBEDDED, <<4>>) \o doc)

(* What comes back: entries that were left out are gone; of the nulls that *)
(* were written, one of a field with a typeSelector is an Any that holds a *)
(* null, and one of an interpreted type interprets a null. *)
RECURSIVE ReadBack(_, _)
ReadBack(v, includeNullFields) ==
  LET items == IF v.class = "Object" \/ includeNullFields THEN v.items
               ELSE SelectSeq(v.items, LAMBDA e : ~e.value.null)
      back(e) ==
        CASE ~(e.value.null /\ includeNullFields) ->
               ReadBack(e.value, includeNullFields)
          [] e.value.null /\ includeNullFields /\ e.select # "none" ->
               AnyOf(NullOf(IF e.key = <<201>> THEN "Object" ELSE "String"))
          [] e.value.null /\ includeNullFields /\ e.value.class = "Interpreted" ->
               Wrap("Interpreted", NullOf("String"))
          [] OTHER -> e.value
  IN [v EXCEPT !.items = [i \in DOMAIN items |-> [items[i] EXCEPT !.value = back(items[i])]]]

(* expect says what is known of the outcome: the value; the value unless   *)
(* unknown fields are refused; nothing. *)
Request(type, data, value, expect) ==
  [type |-> type, data |-> data, value |-> value, expect |-> expect]

Encoded(type, v, n) ==
  Request(type, DocumentOf(v, n), ReadBack(v, n), "value")

(* With nulls written, every field is. *)
Sound ==
  { Encoded("Dto", v, FALSE) : v \in OneField \cup TwoFields }
  \cup { Encoded("Dto", v, TRUE) : v \in { Dto(f[1], f[2]) : f \in
           { x \in FieldValues : x[1] \in {3, 5, 6, 17} } } }
  \cup { Encoded("Dto", v, FALSE) : v \in Selecting }
  \cup { Request("Dto", DocumentOf(Swapped(v), FALSE), v, "value") : v \in Selecting }
  \cup { Request("List<Int32>", OneItem(key), List(<<Num(1)>>), "value") : key \in ZeroKeys }
  \cup { Encoded("List<Any>", v, n) : v \in Lists, n \in BOOLEAN }
  \cup { Encoded("Fields<Any>", f[2], n) :
           f \in { x \in FieldValues : x[1] = 6 }, n \in BOOLEAN }

WithUnknown ==
  UNION { LET doc == DocumentOf(v, FALSE) IN
          { Request("Dto", d, v, "known") : d \in Extended(doc, u) }
          \cup { Request("Dto", Nested(d), Dto(4, v), "known") : d \in Extended(doc, u) } :
          v \in {EmptyDto, Dto(1, Num(7)), Dto(16, AnyOf(Str))}, u \in UnknownElements }

(* One byte replaced, the end cut off, something behind it. *)
Damaged(doc) ==
  { [doc EXCEPT ![i] = b] : i \in DOMAIN doc, b \in {0, 2, 6, 9, 255} }
  \cup { [doc EXCEPT ![i] = (@ + 1) % 256] : i \in DOMAIN doc }
  \cup { SubSeq(doc, 1, n) : n \in 0 .. Len(doc) - 1 }
  \cup { doc \o <<0, 1>> }

DamagedDtos(dtos) ==
  UNION { { Request("Dto", d, Nil, "nothing") : d \in Damaged(DocumentOf(v, FALSE)) } :
          v \in dtos }

PlainDtos ==
  { Dto(f[1], f[2]) : f \in { x \in FieldValues :
      x[1] \notin {16, 17} /\ x[2] # Dto(4, Dto(16, AnyOf(Str))) } }
  \cup { With(Dto(2, Str), 5, List(<<Num(5), Num(6)>>)) }

(* An unknown element whose size field leads back to its own first byte. *)
Backwards(code) ==
  DocumentBytes(KeyBytes(code, <<99>>)
                \o << 249 - AdditionalBytes(code), 255, 255, 255 >>)

Refused ==
  { Request("Dto", Backwards(code), Nil, "nothing") : code \in Sized \ {BD_POINTER} }
  \cup
  { Request("Odd", DocumentBytes(ElementBytes(n, p)), Nil, "nothing") :
      n \in {1, 2, 3}, p \in Payloads }
  \cup { Request(t, DocumentBytes(<<>>), Nil, "nothing") : t \in Names }
  \cup { Request("Dto", DocumentOf(With(Dto(2, Value("String", <<>>, <<>>)), 19, AnyOf(Str)),
                                   FALSE), Nil, "nothing") }
  \cup { Request("List<Int32>", OneItem(key), Nil, "nothing") :
           key \in { <<48, 32>>, <<43>>, <<49>> } }

(* Fields with a typeSelector, damaged. *)
PolymorphRequests ==
  DamagedDtos({Dto(16, AnyOf(Str)), Dto(17, AnyOf(Dto(1, Num(4))))})

AllRequests ==
  { r \in UNION { Sound, WithUnknown, DamagedDtos(PlainDtos), Refused, PolymorphRequests } : TRUE }

MCRequests == AllRequests

(* Maps of Any that hold a value of each class with a wire form. *)
MapsOfAny ==
  { Value("Map", <<>>, <<Entry(<<1>>, AnyOf(v)), Entry(<<2>>, AnyOf(Num(2)))>>) :
      v \in { f[2] : f \in { x \in FieldValues : x[1] \in {1, 2, 9, 14, 15} } } }

AnyRequests ==
  UNION { { Request("Fields<Any>", DocumentOf(v, n), v, "value") : n \in BOOLEAN } :
          v \in MapsOfAny }

-----------------------------------------------------------------------------
Ended == pc \in {"done", "threw"}

Succeeded == pc = "done" /\ ~caret.error

(* What the serializer wrote is read back as it was, and elements of any   *)
(* type code whose name the type does not know change nothing, or are all  *)
(* refused if unknown fields are not allowed. *)
ReadsValue ==
  Ended /\ request.expect # "nothing" =>
    IF request.expect = "value" \/ config.allowUnknownFields
    THEN Succeeded /\ ret = request.value
    ELSE pc = "done" /\ caret.error

RECURSIVE Missing(_)
Missing(v) == v = Nil \/ \E i \in DOMAIN v.items : Missing(v.items[i].value)

(* The error messages of the deserializer, "Type-code doesn't match        *)
(* string." of deserializeString for one: a value that does not match the  *)
(* type it is read into is an error. *)
PolymorphErrorsReported == Succeeded => ~Missing(ret)

(* ObjectMapper.hpp: "Serialized/Deserializes oatpp DTO objects to/from    *)
(* BSON."  What the mapper has written of an Any can be read into an Any.  *)
AnyIsReadBack == ReadsValue

(* Every read ends, whatever the bytes are. *)
Terminates == <>Ended
=============================================================================
