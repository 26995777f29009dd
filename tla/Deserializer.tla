----------------------------- MODULE Deserializer -----------------------------
(***************************************************************************)
(* bson::mapping::Deserializer: one call of ObjectMapper::read, which is   *)
(* deserialize(caret, type, DOCUMENT_ROOT).                                *)
(*                                                                         *)
(* As in Serializer the activation records of the recursion are a stack.   *)
(* A frame has the local innerCaret, over the bytes that are its part of   *)
(* the caller's buffer, or, for a field with a typeSelector, the polyCaret *)
(* over the bytes set aside for it.  pc says what happens next:            *)
(*   "call"       deserialize with the arguments in call, on the innermost *)
(*                caret                                                    *)
(*   "returned"   the value in ret has been returned to the innermost frame*)
(*   "iterate"    the innermost frame's loop over elements                 *)
(*   "polymorphs" the loop of deserializeObject over the elements set aside*)
(*   "done"       read has returned                                        *)
(*   "threw"      it has thrown                                            *)
(***************************************************************************)
EXTENDS BsonFormat

CONSTANTS
  Types,    \* names of C++ types
  TypeInfo, \* what the type descriptor of each says
  Requests, \* what read is called with: records with a type and data
  Behind,   \* what may lie in memory behind a document
  Depth     \* how deep NothingMissing looks into what was read

Compound == {"Collection", "Map", "Object"}
Inline   == {"InlineDocument", "InlineArray"}
Enums    == {"Enum", "NotNullEnum"}

(* item is the type of a collection's items, a map's values, an enum's or  *)
(* an interpreted type's interpretation; entries are an enum's names or    *)
(* numbers.  A field with a typeSelector is an Any; a case of the selector *)
(* is a type it chooses for a value of another field, select its choice in *)
(* any other case. *)
Choice    == [ field : Seq(BsonByte), bytes : Seq(BsonByte), type : Types ]
FieldInfo == [ name : Seq(BsonByte), type : Types, select : Types \cup {"none"},
               cases : SUBSET Choice ]

Info == [ class : STRING, item : Types, fields : Seq(FieldInfo),
          entries : SUBSET Seq(BsonByte), stringKeys : BOOLEAN ]

Class(t)  == TypeInfo[t].class
Item(t)   == TypeInfo[t].item
Fields(t) == TypeInfo[t].fields

(* guessType: the types of what an Any may hold, by type code. *)
GuessedType(code) ==
  CASE code \in {DOCUMENT_ROOT, DOCUMENT_EMBEDDED} -> "Fields<Any>"
    [] code = DOCUMENT_ARRAY -> "List<Any>"
    [] code = DOUBLE         -> "Float64"
    [] code = STRING_CODE    -> "String"
    [] code = OBJECT_ID      -> "ObjectId"
    [] code = BOOLEAN_CODE   -> "Boolean"
    [] code = INT_32         -> "Int32"
    [] code = TIMESTAMP      -> "UInt64"
    [] code = INT_64         -> "Int64"
    [] OTHER                 -> "none"

GuessedTypes == { GuessedType(code) : code \in BsonByte } \ {"none"}

ASSUME TypesAssumption ==
  /\ TypeInfo \in [Types -> Info]
  /\ GuessedTypes \subseteq Types /\ "none" \notin Types
  /\ \A t \in Types :
       /\ Class(t) # "Nothing"
       /\ Class(t) \in Enums => Class(Item(t)) \in ScalarClass
       /\ \A i \in DOMAIN Fields(t) :
            Fields(t)[i].select # "none" => Class(Fields(t)[i].type) = "Any"
       /\ \A i, j \in DOMAIN Fields(t) : Fields(t)[i].name = Fields(t)[j].name => i = j

ASSUME RequestsAssumption ==
  \A r \in Requests : r.type \in Types /\ r.data \in Seq(BsonByte)

(* More than skipElement can move a caret over the end of its buffer. *)
ASSUME BehindAssumption ==
  /\ Behind # {} /\ Behind \subseteq Seq(BsonByte)
  /\ \A b \in Behind : Len(b) >= 16

VARIABLES
  config,  \* Deserializer::Config: allowUnknownFields
  request, \* the arguments of read
  caret,   \* the caller's caret
  stack,   \* frames, the innermost last
  call,    \* arguments of the pending deserialize, and what its value will
           \* be wrapped in: Any, interpreted types
  ret,     \* the value returned
  pc

vars == <<config, request, caret, stack, call, ret, pc>>

(* What a method returns with an error: nullptr, or a number that was      *)
(* never assigned.  No type has this class, so that it differs from a null *)
(* that was read. *)
Nil == NullOf("Nothing")

Init ==
  /\ config \in [allowUnknownFields : BOOLEAN]
  /\ request \in Requests
  /\ caret = Caret(request.data)
  /\ stack = <<>>
  /\ call = [type |-> request.type, code |-> DOCUMENT_ROOT, wraps |-> <<>>]
  /\ ret = Nil
  /\ pc = "call"

-----------------------------------------------------------------------------
(* Returning. *)

Top        == stack[Len(stack)]
Below(stk) == SubSeq(stk, 1, Len(stk) - 1)

(* The caret a method is given: that of the innermost frame of stk. *)
CaretOf(stk) == IF stk = <<>> THEN caret ELSE stk[Len(stk)].inner

PutCaret(stk, c) ==
  /\ caret' = IF stk = <<>> THEN c ELSE caret
  /\ stack' = IF stk = <<>> THEN stk ELSE [stk EXCEPT ![Len(stk)].inner = c]

(* An Any holds a value and its type, an interpreted value stands for one. *)
Wrap(class, v) ==
  [ class |-> class, null |-> v.null /\ class # "Any", bytes |-> <<>>,
    items |-> <<Entry(<<>>, v)>> ]

Wrapped(wraps, v) ==
  LET w[i \in 0 .. Len(wraps)] ==
        IF i = 0 THEN v ELSE Wrap(wraps[Len(wraps) + 1 - i], w[i - 1])
  IN w[Len(wraps)]

Return(stk, c, wraps, v) ==
  /\ PutCaret(stk, c)
  /\ ret' = Wrapped(wraps, v)
  /\ pc' = "returned"
  /\ UNCHANGED <<config, request, call>>

(* A method that sets an error on its caret c and returns. *)
Fail(c) == Return(stack, SetError(c), call.wraps, Nil)

(* Faulty: the inner caret's error goes out of scope with it. *)
FailInsideSilently(c) ==
  LET below == Below(stack) IN
  Return(below, Inc(CaretOf(below), c.pos), Top.wraps, Nil)

(* A method that gives up in the middle of its document: the caller's      *)
(* caret is moved to where innerCaret stands and takes over its error. *)
FailInside(c) ==
  LET below == Below(stack) IN
  Return(below, SetError(Inc(CaretOf(below), c.pos)), Top.wraps, Nil)

Throw ==
  /\ pc' = "threw"
  /\ UNCHANGED <<config, request, caret, stack, call, ret>>

Here             == CaretOf(stack)
Calling(classes) == pc = "call" /\ Class(call.type) \in classes

-----------------------------------------------------------------------------
(* deserializePrimitive, deserializeBoolean, deserializeDateTime,          *)
(* deserializeString and deserializeObjectId: the value and the caret.     *)

(* checkLimitsAndAssign, on the wire form: what the narrow class keeps of  *)
(* the wide one determines the rest.  A Float32 is any finite number up to *)
(* its largest, whose double has the magnitude MaxFloat32; it loses        *)
(* precision, which a wire form does not show. *)
KeptBytes == [ Int8 |-> 1, UInt8 |-> 1, Int16 |-> 2, UInt16 |-> 2, UInt32 |-> 4 ]
MaxFloat32 == <<71, 239, 255, 255, 224, 0, 0, 0>>

Magnitude(b) == [i \in 1 .. 8 |-> IF i = 1 THEN b[8] % 128 ELSE b[9 - i]]

NotAbove(x, y) ==
  \/ x = y
  \/ \E i \in 1 .. 8 : x[i] < y[i] /\ \A j \in 1 .. i - 1 : x[j] = y[j]

WithinLimits(class, b) ==
  CASE class \in DOMAIN KeptBytes ->
         LET n == KeptBytes[class]
             fill == IF class \in {"Int8", "Int16"} /\ b[n] >= 128 THEN 255 ELSE 0
         IN \A i \in n + 1 .. Len(b) : b[i] = fill
    [] class = "Float32" -> NotAbove(Magnitude(b), MaxFloat32)
    [] OTHER -> TRUE

Read(v, c)   == [value |-> v, caret |-> c]
ReadError(c) == Read(Nil, SetError(c))

ReadFixed(class, c) ==
  LET n == ScalarWidth(ScalarCode[class])
      b == CurrBytes(c, n) IN
  IF Left(c) < n THEN ReadError(c)
  ELSE IF class = "Boolean" /\ b[1] > 1 THEN ReadError(c)
  ELSE IF ~WithinLimits(class, b) THEN ReadError(Inc(c, n))
  ELSE Read(Value(class, b, <<>>), Inc(c, n))

(* The size counts a terminator, which is not looked at. *)
ReadString(c) ==
  LET size == ReadInt32(c) IN
  IF size.value > Left(size.caret) \/ size.value < 1
  THEN ReadError(size.caret)
  ELSE Read(Value("String", CurrBytes(size.caret, size.value - 1), <<>>),
            Inc(size.caret, size.value))

ReadScalar(class, c, code) ==
  CASE code = NULL_VALUE -> Read(NullOf(class), c)
    [] code # NULL_VALUE /\ code # ScalarCode[class] -> ReadError(c)
    [] code = ScalarCode[class] /\ class = "String" -> ReadString(c)
    [] OTHER -> ReadFixed(class, c)

DeserializeScalar ==
  LET r == ReadScalar(Class(call.type), Here, call.code) IN
  /\ Calling(ScalarClass)
  /\ Return(stack, r.caret, call.wraps, r.value)

(* The class of the result follows the type code, not the type. *)
ReadInline(class, c, code) ==
  LET size == ReadInt32(c) IN
  IF code = NULL_VALUE THEN Read(NullOf(class), c)
  ELSE IF code \notin {DOCUMENT_EMBEDDED, DOCUMENT_ARRAY} THEN ReadError(c)
  ELSE IF size.value - 4 > Left(size.caret) \/ size.value < 5
  THEN ReadError(size.caret)
  ELSE Read(Value(IF code = DOCUMENT_ARRAY THEN "InlineArray" ELSE "InlineDocument",
                  CurrBytes(c, size.value), <<>>),
            Inc(c, size.value))

DeserializeInlineDocs ==
  LET r == ReadInline(Class(call.type), Here, call.code) IN
  /\ Calling(Inline)
  /\ Return(stack, r.caret, call.wraps, r.value)

-----------------------------------------------------------------------------
(* skipElement *)

FixedWidth(code) ==
  CASE code \in {UNDEFINED, NULL_VALUE, MIN_KEY, MAX_KEY}  -> 0
    [] code = BOOLEAN_CODE                                 -> 1
    [] code = INT_32                                       -> 4
    [] code \in {DOUBLE, DATE_TIME, TIMESTAMP, INT_64}     -> 8
    [] code = OBJECT_ID                                    -> 12
    [] code = DECIMAL_128                                  -> 16
    [] OTHER                                               -> -1

(* Faulty: a JAVASCRIPT_CODE_WS is sized as a string is. *)
AdditionalBytesWithoutWS(code) ==
  CASE code \in {DOCUMENT_EMBEDDED, DOCUMENT_ARRAY} -> -4
    [] code = BINARY     -> 1
    [] code = BD_POINTER -> 12
    [] OTHER             -> 0

(* What follows an element's size field, besides what the size counts. *)
Sized == { STRING_CODE, JAVASCRIPT_CODE, SYMBOL, DOCUMENT_EMBEDDED,
           DOCUMENT_ARRAY, JAVASCRIPT_CODE_WS, BINARY, BD_POINTER }

AdditionalBytes(code) ==
  CASE code \in {DOCUMENT_EMBEDDED, DOCUMENT_ARRAY, JAVASCRIPT_CODE_WS} -> -4
    [] code = BINARY     -> 1
    [] code = BD_POINTER -> 12
    [] OTHER             -> 0

(* Faulty: a size may lead anywhere in the buffer, backwards too. *)
SkipSizedElementBackwards(c, additional) ==
  LET size == ReadInt32(c)
      n    == size.value + additional
      bad  == n > Left(size.caret) \/ size.caret.pos + n < 0
  IN Inc(IF bad THEN SetError(size.caret) ELSE size.caret, n)

(* The error does not keep the caret from moving.  (size - 4 in an int32:  *)
(* for one of the four smallest sizes the result is undefined.  It is      *)
(* taken for the negative number it should be; if it wraps around, the     *)
(* caret leaves its buffer and the document fails for that instead.)       *)
SkipSizedElement(c, additional) ==
  LET size == ReadInt32(c)
      n    == size.value + additional
      bad  == n > Left(size.caret) \/ n < 0
  IN Inc(IF bad THEN SetError(size.caret) ELSE size.caret, n)

SkipCString(c) ==
  LET found == Inc(c, NulOffset(c)) IN
  IF AtChar(found, 0) THEN Inc(found, 1) ELSE SetError(found)

SkipElement(c, code) ==
  CASE FixedWidth(code) >= 0 -> Inc(c, FixedWidth(code))
    [] code \in Sized        -> SkipSizedElement(c, AdditionalBytes(code))
    [] code = REGEXP         -> SkipCString(SkipCString(c))
    [] OTHER                 -> SetError(c)

(* Faulty: the code is read as a signed char. *)
ReadKeySigned(c) ==
  LET start == Inc(c, 1)
      n     == NulOffset(start)
      end   == Inc(start, n)
  IN [ code  |-> IF CurrByte(c) < 128 THEN CurrByte(c) ELSE CurrByte(c) - 256,
       key   |-> CurrBytes(start, n),
       caret |-> IF CanContinue(end) THEN Inc(end, 1) ELSE SetError(end) ]

(* Utils::readKey: the code is read where the loop has seen a byte. *)
ReadKey(c) ==
  LET start == Inc(c, 1)
      n     == NulOffset(start)
      end   == Inc(start, n)
  IN [ code  |-> CurrByte(c),
       key   |-> CurrBytes(start, n),
       caret |-> IF CanContinue(end) THEN Inc(end, 1) ELSE SetError(end) ]

-----------------------------------------------------------------------------
(* Types that stand for others. *)

(* Without a guess the Any is null and the payload stays where it is. *)
DeserializeAny ==
  LET guess == IF call.code = NULL_VALUE THEN "none" ELSE GuessedType(call.code) IN
  /\ Calling({"Any"})
  /\ \/ guess = "none" /\ Return(stack, Here, call.wraps, NullOf("Any"))
     \/ /\ guess # "none"
        /\ call' = [call EXCEPT !.type = guess, !.wraps = Append(@, "Any")]
        /\ UNCHANGED <<config, request, caret, stack, ret, pc>>

(* fromInterpretation throws for a name or a number the enum has not, and  *)
(* reports a null where null is not allowed. *)
DeserializeEnum ==
  LET class == Class(call.type)
      r == ReadScalar(Class(Item(call.type)), Here, call.code) IN
  /\ Calling(Enums)
  /\ \/ r.caret.error /\ Return(stack, r.caret, call.wraps, Nil)
     \/ /\ ~r.caret.error /\ r.value.null
        /\ IF class = "NotNullEnum" THEN Fail(r.caret)
           ELSE Return(stack, r.caret, call.wraps, NullOf(class))
     \/ /\ ~r.caret.error /\ ~r.value.null
        /\ IF r.value.bytes \in TypeInfo[call.type].entries
           THEN Return(stack, r.caret, call.wraps, Wrap(class, r.value))
           ELSE Throw

(* deserialize() itself: a class without a method. *)
DeserializeInterpreted ==
  /\ Calling({"Interpreted"})
  /\ call' = [call EXCEPT !.type = Item(call.type), !.wraps = Append(@, "Interpreted")]
  /\ UNCHANGED <<config, request, caret, stack, ret, pc>>

DeserializeUnknown ==
  /\ pc = "call"
  /\ Class(call.type) \notin
       ScalarClass \cup Inline \cup Compound \cup Enums \cup {"Any", "Interpreted"}
  /\ Throw

-----------------------------------------------------------------------------
(* deserializeCollection, deserializeMap and deserializeObject up to the   *)
(* loop. *)

(* createObject: an object's fields are null pointers of their types. *)
NewItems(t) ==
  [ i \in DOMAIN Fields(t) |->
      [ Entry(Fields(t)[i].name, NullOf(Class(Fields(t)[i].type))) EXCEPT
          !.select = IF Fields(t)[i].select = "none" THEN "none" ELSE "match" ] ]

NewFrame(data) ==
  [ type |-> call.type, wraps |-> call.wraps, inner |-> Caret(data),
    index |-> 0, key |-> <<>>, items |-> NewItems(call.type), polymorphs |-> <<>> ]

OpenCompound ==
  LET t    == call.type
      size == ReadInt32(Here)
      n    == size.value - 4 IN
  /\ Calling(Compound)
  /\ \/ /\ call.code = NULL_VALUE
        /\ Return(stack, Here, call.wraps, NullOf(Class(t)))
     \/ /\ call.code \notin {NULL_VALUE, DOCUMENT_ROOT, DOCUMENT_EMBEDDED, DOCUMENT_ARRAY}
        /\ Fail(Here)
     \/ /\ call.code \in {DOCUMENT_ROOT, DOCUMENT_EMBEDDED, DOCUMENT_ARRAY}
        /\ \/ (n > Left(size.caret) \/ n < 0) /\ Fail(size.caret)
           \/ /\ n \in 0 .. Left(size.caret)
              /\ Class(t) = "Map" /\ ~TypeInfo[t].stringKeys
              /\ Throw
           \/ /\ n \in 0 .. Left(size.caret)
              /\ Class(t) = "Map" => TypeInfo[t].stringKeys
              /\ caret' = IF stack = <<>> THEN size.caret ELSE caret
              /\ stack' = Append(
                   IF stack = <<>> THEN stack
                   ELSE [stack EXCEPT ![Len(stack)].inner = size.caret],
                   NewFrame(CurrBytes(size.caret, n)))
              /\ pc' = "iterate"
              /\ UNCHANGED <<config, request, call, ret>>

-----------------------------------------------------------------------------
(* The loops, one element at a time. *)

InLoop == pc = "iterate" /\ CanContinue(Top.inner) /\ Left(Top.inner) > 1

Element == ReadKey(Top.inner)

InClass(class) == Class(Top.type) = class

(* An element of the innermost frame, its key read. *)
AtElement(class) == InLoop /\ InClass(class) /\ ~Element.caret.error

KeyFails ==
  /\ InLoop /\ Element.caret.error
  /\ FailInside(Element.caret)

Deserialize(type, key) ==
  /\ call' = [type |-> type, code |-> Element.code, wraps |-> <<>>]
  /\ stack' = [stack EXCEPT ![Len(stack)].inner = Element.caret,
                            ![Len(stack)].key = key]
  /\ pc' = "call"
  /\ UNCHANGED <<config, request, caret, ret>>

(* strToInt32(key) = index, all of the key being used: blanks, a sign and  *)
(* leading zeros do no harm, and an empty key is zero.  (A number that     *)
(* wraps around in int32 is left out.)                                     *)
Blanks == {32} \cup 9 .. 13
Signs(index) == IF index = 0 THEN {<<>>, <<43>>, <<45>>} ELSE {<<>>, <<43>>}

IsIndex(key, index) ==
  \/ key = <<>> /\ index = 0
  \/ \E b, z \in 0 .. Len(key), sign \in Signs(index) :
       /\ \A i \in 1 .. b : key[i] \in Blanks
       /\ SubSeq(key, b + 1, Len(key)) = sign \o [i \in 1 .. z |-> 48] \o IndexKey(index)

CollectionElement ==
  /\ AtElement("Collection")
  /\ IF IsIndex(Element.key, Top.index) THEN Deserialize(Item(Top.type), Element.key)
     ELSE FailInside(Element.caret)

MapElement ==
  /\ AtElement("Map")
  /\ Deserialize(Item(Top.type), Element.key)

IsField(key) == \E i \in DOMAIN Fields(Top.type) : Fields(Top.type)[i].name = key

FieldOf(t, key) ==
  Fields(t)[CHOOSE i \in DOMAIN Fields(t) : Fields(t)[i].name = key]

FieldElement ==
  /\ AtElement("Object") /\ IsField(Element.key)
  /\ FieldOf(Top.type, Element.key).select = "none"
  /\ Deserialize(FieldOf(Top.type, Element.key).type, Element.key)

(* Skipped, whether it is set aside or unknown.  A caret that has left its *)
(* buffer, which the fixed widths of skipElement allow, ends the loop.     *)
Skipping(polymorphs) ==
  LET end == SkipElement(Element.caret, Element.code) IN
  IF end.error THEN FailInside(end)
  ELSE /\ stack' = [stack EXCEPT ![Len(stack)].inner = end,
                                 ![Len(stack)].polymorphs = polymorphs]
       /\ UNCHANGED <<config, request, caret, call, ret, pc>>

(* label.toString() copies up to the caret, wherever that is: then also    *)
(* what lies behind the document, which is the rest of the one around it,  *)
(* or memory that is none of the read's. *)
SetAside(behind) ==
  [ key  |-> Element.key, code |-> Element.code,
    data |-> SubSeq(Top.inner.data \o behind, Element.caret.pos + 1,
                    SkipElement(Element.caret, Element.code).pos) ]

PolymorphElement ==
  /\ AtElement("Object") /\ IsField(Element.key)
  /\ FieldOf(Top.type, Element.key).select # "none"
  /\ \E behind \in Behind : Skipping(Append(Top.polymorphs, SetAside(behind)))

UnknownElement ==
  /\ AtElement("Object") /\ ~IsField(Element.key)
  /\ IF config.allowUnknownFields THEN Skipping(Top.polymorphs)
     ELSE FailInside(Element.caret)

-----------------------------------------------------------------------------
(* After the loops. *)

(* Faulty: whatever ends the document is taken for its terminator. *)
AnyTerminator == CanContinue(Top.inner)

(* Faulty: the end of the bytes is as good as the terminator. *)
AtTerminatorOrEnd == Left(Top.inner) <= 0 \/ AtChar(Top.inner, 0)

(* canContinueAtChar(0, 1), looked at without the move. *)
AtTerminator == AtChar(Top.inner, 0)

(* Faulty: the caller's caret is not moved over the terminator. *)
ClosedBefore(c) == Inc(c, Top.inner.pos)

(* What the move leaves of the document is an error that does not end the  *)
(* method. *)
Closed(c) ==
  LET end == Inc(Top.inner, 1) IN
  IF end.pos # DataSize(end) THEN Inc(SetError(Inc(c, end.pos)), end.pos)
  ELSE Inc(c, end.pos)

CloseFails ==
  /\ pc = "iterate" /\ ~InLoop /\ ~AtTerminator
  /\ FailInside(Top.inner)

Close ==
  LET below == Below(stack)
      c     == Closed(CaretOf(below)) IN
  /\ pc = "iterate" /\ ~InLoop /\ AtTerminator
  /\ \/ /\ ~InClass("Object")
        /\ Return(below, c, Top.wraps, Value(Class(Top.type), <<>>, Top.items))
     \/ /\ InClass("Object")
        /\ caret' = IF below = <<>> THEN c ELSE caret
        /\ stack' = Append(IF below = <<>> THEN below
                           ELSE [below EXCEPT ![Len(below)].inner = c],
                           [Top EXCEPT !.inner = Inc(@, 1)])
        /\ pc' = "polymorphs"
        /\ UNCHANGED <<config, request, call, ret>>

(* selectType(object): which case it is depends on the values the object   *)
(* has by now. *)
CasesOf(t, key, items) ==
  { c \in FieldOf(t, key).cases : \E i \in DOMAIN items :
      /\ items[i].key = c.field /\ ~items[i].value.null
      /\ items[i].value.bytes = c.bytes }

(* Faulty: asked as soon as the object is made, when no field is set. *)
SelectTypeAtOnce(t, key, items) ==
  LET cases == CasesOf(t, key, NewItems(t)) IN
  IF cases = {} THEN FieldOf(t, key).select ELSE (CHOOSE c \in cases : TRUE).type

SelectType(t, key, items) ==
  LET cases == CasesOf(t, key, items) IN
  IF cases = {} THEN FieldOf(t, key).select ELSE (CHOOSE c \in cases : TRUE).type

(* One element set aside: on a caret of its own, with the type selected. *)
OpenPolymorph ==
  LET p == Head(Top.polymorphs) IN
  /\ pc = "polymorphs" /\ Top.polymorphs # <<>>
  /\ call' = [ type |-> SelectType(Top.type, p.key, Top.items), code |-> p.code,
               wraps |-> <<"Any">> ]
  /\ stack' = Append([stack EXCEPT ![Len(stack)].polymorphs = Tail(@)],
                     [ type |-> "none", wraps |-> <<>>, inner |-> Caret(p.data),
                       index |-> 0, key |-> p.key, items |-> <<>>,
                       polymorphs |-> <<>> ])
  /\ pc' = "call"
  /\ UNCHANGED <<config, request, caret, ret>>

ReturnObject ==
  LET below == Below(stack) IN
  /\ pc = "polymorphs" /\ Top.polymorphs = <<>>
  /\ Return(below, CaretOf(below), Top.wraps, Value("Object", <<>>, Top.items))

-----------------------------------------------------------------------------
(* What the caller does with the value returned. *)

Set(items, key, v) ==
  [ i \in DOMAIN items |->
      IF items[i].key = key THEN [items[i] EXCEPT !.value = v] ELSE items[i] ]

Receiving(class) == pc = "returned" /\ stack # <<>> /\ Top.type # "none" /\ InClass(class)

Keep(frame) ==
  /\ stack' = [stack EXCEPT ![Len(stack)] = frame]
  /\ pc' = "iterate"
  /\ UNCHANGED <<config, request, caret, call, ret>>

ReceiveItem ==
  /\ Receiving("Collection")
  /\ IF Top.inner.error THEN FailInside(Top.inner)
     ELSE Keep([Top EXCEPT !.items = Append(@, Entry(<<>>, ret)), !.index = @ + 1])

(* The error, if there is one, ends the loop. *)
ReceiveValue ==
  /\ Receiving("Map")
  /\ Keep([Top EXCEPT !.items = Append(@, Entry(Top.key, ret))])

ReceiveField ==
  /\ Receiving("Object")
  /\ Keep([Top EXCEPT !.items = Set(@, Top.key, ret)])

(* polyCaret goes out of scope, and its error with it. *)
ReceivePolymorph ==
  LET below == Below(stack) IN
  /\ pc = "returned" /\ stack # <<>> /\ Top.type = "none"
  /\ stack' = [below EXCEPT ![Len(below)].items = Set(@, Top.key, ret)]
  /\ pc' = "polymorphs"
  /\ UNCHANGED <<config, request, caret, call, ret>>

ReadReturns ==
  /\ pc = "returned" /\ stack = <<>>
  /\ pc' = "done"
  /\ UNCHANGED <<config, request, caret, stack, call, ret>>

-----------------------------------------------------------------------------
Step ==
  \/ DeserializeScalar \/ DeserializeInlineDocs \/ DeserializeAny
  \/ DeserializeEnum \/ DeserializeInterpreted \/ DeserializeUnknown
  \/ OpenCompound \/ KeyFails \/ CollectionElement \/ MapElement
  \/ FieldElement \/ PolymorphElement \/ UnknownElement
  \/ CloseFails \/ Close \/ OpenPolymorph \/ ReturnObject
  \/ ReceiveItem \/ ReceiveValue \/ ReceiveField \/ ReceivePolymorph
  \/ ReadReturns

Finished == pc \in {"done", "threw"} /\ UNCHANGED vars

Next == Step \/ Finished

Spec == Init /\ [][Next]_vars
FairSpec == Spec /\ WF_vars(Step)

-----------------------------------------------------------------------------
CaretState == [data : Seq(BsonByte), pos : Int, error : BOOLEAN]

PolymorphData == [key : Seq(BsonByte), code : BsonByte, data : Seq(BsonByte)]

(* Carets hold bytes, those set aside whatever bytes they are; a loop runs *)
(* only where there is a frame for it. *)
TypeOK ==
  /\ config \in [allowUnknownFields : BOOLEAN]
  /\ request \in Requests
  /\ caret \in CaretState
  /\ call.type \in Types /\ call.code \in BsonByte
  /\ \A i \in DOMAIN stack :
       /\ stack[i].type \in Types \cup {"none"}
       /\ stack[i].inner \in CaretState
       /\ stack[i].index \in Nat
       /\ stack[i].key \in Seq(BsonByte)
       /\ stack[i].polymorphs \in Seq(PolymorphData)
  /\ pc \in {"call", "returned", "iterate", "polymorphs", "done", "threw"}
  /\ pc \in {"iterate", "polymorphs"} => stack # <<>> /\ Top.type # "none"

(* A read without an error has consumed exactly the document: the caret,   *)
(* which several inner carets have moved over, stands where the document's *)
(* own size field says it ends, and inside the buffer.                     *)
WholeDocument ==
  pc = "done" /\ ~caret.error =>
    /\ caret.pos = ReadInt32(Caret(request.data)).value
    /\ Left(caret) >= 0

(* p is an element of the document with these bytes: code, key and the     *)
(* payload up to where it ends. *)
ElementIn(p, bytes) ==
  \E at \in 0 .. Len(bytes) - 1 :
    LET start == AfterNul(bytes, at + 1)
        end   == PayloadEnd(bytes, start, p.code)
    IN /\ p.code = bytes[at + 1] /\ start # 0
       /\ p.key = SubSeq(bytes, at + 2, start - 1) /\ end # 0
       /\ p.data = SubSeq(bytes, start + 1, end)

(* When the elements set aside are read, each is a whole element of this   *)
(* object's own document: the bytes that skipElement and the copy may take *)
(* from behind the document are never looked at.                           *)
SetAsideWhole ==
  pc = "polymorphs" =>
    \A i \in DOMAIN Top.polymorphs : ElementIn(Top.polymorphs[i], Top.inner.data)

(* What x holds, but for its fields with a typeSelector; and what v holds  *)
(* n levels down. *)
Held(x) ==
  { x.items[i].value : i \in { j \in DOMAIN x.items : x.items[j].select = "none" } }

Parts(v, n) ==
  LET level[i \in 0 .. n] ==
        IF i = 0 THEN {v} ELSE UNION { Held(x) : x \in level[i - 1] }
  IN level[n]

ASSUME DepthAssumption == Depth \in Nat

(* A read without an error returns a value every part of which was read:   *)
(* an error in a nested caret always reaches the caller's, unless it is    *)
(* that of a field with a typeSelector. *)
NothingMissing ==
  pc = "done" /\ ~caret.error => \A n \in 0 .. Depth : Nil \notin Parts(ret, n)

(* How a document's bytes divide into elements, given the type it is read  *)
(* into.  A place is an element at offset at of a document's contents (the *)
(* bytes behind its size field) read into type doc, or the payload of such *)
(* an element, with its code and the type it is read into: "none" if it is *)
(* not looked at, in an unknown field or one with a typeSelector.          *)
ElementAt(doc, data, at) ==
  [ kind |-> "element", doc |-> doc, data |-> data, at |-> at,
    code |-> 0, type |-> "none" ]

PayloadAt(doc, data, at, code, type) ==
  [ kind |-> "payload", doc |-> doc, data |-> data, at |-> at,
    code |-> code, type |-> type ]

Astray == [ElementAt("none", <<>>, 0) EXCEPT !.kind = "astray"]

ElementType(t, key) ==
  IF Class(t) # "Object" THEN Item(t)
  ELSE IF \E i \in DOMAIN Fields(t) : Fields(t)[i].name = key
          /\ Fields(t)[i].select = "none"
  THEN FieldOf(t, key).type ELSE "none"

(* The codes of a payload that is of one piece. *)
Matches(type, code) ==
  LET class == Class(IF Class(type) \in Enums THEN Item(type) ELSE type) IN
  \/ class \in ScalarClass /\ code = ScalarCode[class]
  \/ class \in Inline /\ code \in {DOCUMENT_EMBEDDED, DOCUMENT_ARRAY}

(* What must come after a payload that ends at end. *)
After(p, end) ==
  IF end = 0 THEN {Astray}
  ELSE IF p.doc = "none" THEN {}
  ELSE {ElementAt(p.doc, p.data, end)}

(* Nothing comes after the terminator, which is the last byte. *)
FromElement(p) ==
  LET n     == Len(p.data)
      start == AfterNul(p.data, p.at + 1)
  IN IF p.at = n - 1 /\ p.data[n] = 0 THEN {}
     ELSE IF p.at \notin 0 .. n - 1 \/ start = 0 THEN {Astray}
     ELSE {PayloadAt(p.doc, p.data, start, p.data[p.at + 1],
             ElementType(p.doc, SubSeq(p.data, p.at + 2, start - 1)))}

(* What is read into a type: null by any; the payload of an Any without a  *)
(* guess is not skipped, and elements are read from its first byte on.     *)
FromTyped(p) ==
  LET class == Class(p.type)
      guess == GuessedType(p.code)
      size  == PayloadEnd(p.data, p.at, DOCUMENT_EMBEDDED)
  IN CASE class = "Interpreted" -> {[p EXCEPT !.type = Item(p.type)]}
       [] class = "Any" ->
            IF guess = "none" THEN {ElementAt(p.doc, p.data, p.at)}
            ELSE {[p EXCEPT !.type = guess]}
       [] class \in Compound /\ p.code \in {DOCUMENT_ROOT, DOCUMENT_EMBEDDED,
                                            DOCUMENT_ARRAY} ->
            After(p, size)
            \cup {ElementAt(p.type, SubSeq(p.data, p.at + 5, size), 0)}
       [] class \in ScalarClass \cup Inline \cup Enums /\ Matches(p.type, p.code) ->
            After(p, PayloadEnd(p.data, p.at, p.code))
       [] OTHER -> {Astray}

FromPayload(p) ==
  IF p.type = "none" THEN After(p, PayloadEnd(p.data, p.at, p.code))
  ELSE IF p.code = NULL_VALUE THEN {ElementAt(p.doc, p.data, p.at)}
  ELSE FromTyped(p)

Leads(p) ==
  CASE p.kind = "astray"  -> {Astray}
    [] p.kind = "element" -> FromElement(p)
    [] p.kind = "payload" -> FromPayload(p)

(* The places n steps from p on. *)
Walk(p, n) ==
  LET step[i \in 0 .. n] ==
        IF i = 0 THEN {p} ELSE UNION { Leads(x) : x \in step[i - 1] }
  IN step[n]

(* A read without an error was given a document: every size field read, in *)
(* nested documents too, counts its document up to its terminator, every   *)
(* element's code is one of the type it is read into, and it ends where    *)
(* the next begins.  Not looked at: what is inside an InlineDocument, an   *)
(* unknown field or one with a typeSelector.                               *)
OnlyDocuments ==
  pc = "done" /\ ~caret.error =>
    Astray \notin Walk(PayloadAt("none", request.data, 0, DOCUMENT_ROOT, request.type),
                       Depth * Len(request.data))
=============================================================================
