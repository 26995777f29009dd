------------------------------ MODULE Serializer ------------------------------
(***************************************************************************)
(* bson::mapping::Serializer: one call of serializeToStream.               *)
(*                                                                         *)
(* The C++ is recursive.  Its activation records are the sequence stack:   *)
(* a frame per open collection, map or object, with the local innerStream  *)
(* and the entries the loop has still to visit.  pc says what happens next:*)
(*   "call"     serialize(stream, key, polymorph) with the arguments in    *)
(*              call; stream is the innermost frame's innerStream, the     *)
(*              caller's stream if there is no frame                       *)
(*   "iterate"  the innermost frame's loop                                 *)
(*   "done"     serializeToStream has returned                             *)
(*   a Failure  it has thrown; the name says which exception               *)
(***************************************************************************)
EXTENDS BsonDocuments, SequencesExt

CONSTANTS
  Values,  \* values that may be written: closed under "is held by"
  Roots,   \* the values serializeToStream is called with
  Prefix,  \* what the caller's stream holds before the call
  Steps    \* how far WellFormedOutput walks

Key == Seq(BsonByte) \cup {NullKey}

(* A typeSelector belongs to a field of type Any. *)
ValueEntry ==
  { e \in [ key : Key, value : Values, select : {"none", "match", "mismatch"} ] :
      e.select # "none" => e.value.class = "Any" }

Compound == {"Collection", "Map", "Object"}
Inline   == {"InlineDocument", "InlineArray"}
Wrapper  == {"Any", "Enum", "NotNullEnum", "Interpreted"}

ASSUME ValuesAssumption ==
  /\ Values \subseteq [ class : STRING, null : BOOLEAN, bytes : Seq(BsonByte),
                        items : Seq(ValueEntry) ]
  /\ NullOf("Object") \in Values
  /\ Roots \subseteq Values
  /\ Prefix \in Seq(BsonByte)

(* A wrapper that is not null holds a value, the one of an Enum is a       *)
(* scalar that is not null; a null pointer has an interpretation too. *)
ASSUME HeldAssumption ==
  \A v \in Values :
    /\ v.class \in Wrapper /\ (v.null => v.class = "Interpreted") =>
         v.items # <<>>
    /\ v.class \in {"Enum", "NotNullEnum"} /\ ~v.null =>
         v.items[1].value.class \in ScalarClass /\ ~v.items[1].value.null

(* A number has the width of its wire form, and a bool is 0 or 1. *)
ASSUME ScalarAssumption ==
  /\ Steps \in Nat
  /\ \A v \in Values :
       v.class \in ScalarClass \ {"String"} /\ ~v.null =>
         /\ Len(v.bytes) = ScalarWidth(ScalarCode[v.class])
         /\ v.class = "Boolean" => v.bytes[1] \in {0, 1}

Failures == { "null key", "null object with null key", "invalid inline object",
              "enum constraint", "type selector", "unknown type" }

VARIABLES
  config,  \* Serializer::Config
  root,    \* the argument of serializeToStream
  stream,  \* the caller's stream
  stack,   \* open collections, maps and objects, the innermost last
  call,    \* arguments of the pending serialize
  pc

vars == <<config, root, stream, stack, call, pc>>

Config == [includeNullFields : BOOLEAN, throwOnUnknownTypes : BOOLEAN]

Init ==
  /\ config \in Config
  /\ root \in Roots
  /\ stream = Prefix
  /\ stack = <<>>
  /\ call = [key |-> NullKey, value |-> root]
  /\ pc = "call"

-----------------------------------------------------------------------------
(* Writing bytes to the stream a call was given, and returning from it.    *)

PutOn(stk, bytes) ==
  IF stk = <<>> THEN stk ELSE [stk EXCEPT ![Len(stk)].inner = @ \o bytes]

(* Faulty: everything is written through to the caller's stream. *)
PutThrough(stk, bytes) == stream \o bytes

PutOut(stk, bytes) == IF stk = <<>> THEN stream \o bytes ELSE stream

(* Faulty: the outermost call returns into a loop as well. *)
ReturnToLoop(stk) == pc' = "iterate"

Return(stk) == pc' = IF stk = <<>> THEN "done" ELSE "iterate"

(* A method that writes and returns. *)
Write(bytes) ==
  /\ stream' = PutOut(stack, bytes)
  /\ stack' = PutOn(stack, bytes)
  /\ Return(stack)
  /\ UNCHANGED <<config, root, call>>

(* An exception unwinds the stack; the inner streams die with it. *)
Throw(failure) ==
  /\ pc' = failure
  /\ stack' = <<>>
  /\ UNCHANGED <<config, root, stream, call>>

(* A method that passes its arguments on with another value. *)
Delegate(value) ==
  /\ call' = [call EXCEPT !.value = value]
  /\ UNCHANGED <<config, root, stream, stack, pc>>

Calling(classes) == pc = "call" /\ call.value.class \in classes

WriteNull == Write(KeyBytes(NULL_VALUE, call.key))

-----------------------------------------------------------------------------
(* serializePrimitive, serializeString, serializeDateTime and              *)
(* serializeObjectId. *)

SerializeScalar ==
  LET v == call.value IN
  /\ Calling(ScalarClass)
  /\ \/ call.key = NullKey /\ Throw("null key")
     \/ call.key # NullKey /\ v.null /\ WriteNull
     \/ /\ call.key # NullKey /\ ~v.null
        /\ Write(KeyBytes(ScalarCode[v.class], call.key) \o ScalarBytes(v))

(* All methods of values that need no key treat a null one alike. *)
SerializeNull(classes) ==
  /\ Calling(classes)
  /\ call.value.null
  /\ IF call.key # NullKey THEN WriteNull ELSE Throw("null object with null key")

(* The buffer is checked before anything is written: at least five bytes,  *)
(* as many as its size field says. *)
InlineIsValid(bytes) ==
  Len(bytes) >= 5 /\ ReadInt32(Caret(bytes)).value = Len(bytes)

InlineCode(class) ==
  IF class = "InlineDocument" THEN DOCUMENT_EMBEDDED ELSE DOCUMENT_ARRAY

SerializeInlineDocs ==
  LET v == call.value IN
  \/ SerializeNull(Inline)
  \/ /\ Calling(Inline) /\ ~v.null
     /\ IF InlineIsValid(v.bytes)
        THEN Write(KeyBytes(InlineCode(v.class), call.key) \o v.bytes)
        ELSE Throw("invalid inline object")

(* Whatever the Any holds is written in its place, a null pointer too. *)
SerializeAny ==
  \/ SerializeNull({"Any"})
  \/ /\ Calling({"Any"}) /\ ~call.value.null
     /\ Delegate(call.value.items[1].value)

(* The interpretation, a scalar, is written first; a violated constraint   *)
(* is reported afterwards. *)
SerializeEnum ==
  LET v == call.value
      i == v.items[1].value IN
  /\ Calling({"Enum", "NotNullEnum"})
  /\ \/ call.key = NullKey /\ Throw("null key")
     \/ /\ call.key # NullKey
        /\ v.class = "NotNullEnum" /\ v.null /\ Throw("enum constraint")
     \/ /\ call.key # NullKey
        /\ ~(v.class = "NotNullEnum" /\ v.null)
        /\ IF v.null THEN WriteNull
           ELSE Write(KeyBytes(ScalarCode[i.class], call.key) \o ScalarBytes(i))

(* serialize() itself: a class without a method. *)
SerializeInterpreted ==
  /\ Calling({"Interpreted"})
  /\ Delegate(call.value.items[1].value)

SerializeUnknown ==
  /\ pc = "call"
  /\ call.value.class \notin ScalarClass \cup Inline \cup Compound \cup Wrapper
  /\ Throw("unknown type")

-----------------------------------------------------------------------------
(* serializeCollection, serializeMap and serializeObject: before, in and   *)
(* after the loop. *)

CompoundCode(class) ==
  IF class = "Collection" THEN DOCUMENT_ARRAY ELSE DOCUMENT_EMBEDDED

OpenCompound ==
  LET v     == call.value
      bytes == KeyBytes(CompoundCode(v.class), call.key)
      frame == [class |-> v.class, todo |-> v.items, index |-> 0, inner |-> <<>>]
  IN
  \/ SerializeNull(Compound)
  \/ /\ Calling(Compound) /\ ~v.null
     /\ stream' = PutOut(stack, bytes)
     /\ stack' = Append(PutOn(stack, bytes), frame)
     /\ pc' = "iterate"
     /\ UNCHANGED <<config, root, call>>

Top == stack[Len(stack)]

(* What the loop sees of an entry: a field with a typeSelector is an Any   *)
(* and read with retrieve(), which yields a null of the selected type for  *)
(* a null Any and the value held otherwise. *)
Seen(e) ==
  IF e.select = "none" THEN e.value
  ELSE IF e.value.null THEN NullOf("Object")
  ELSE e.value.items[1].value

(* retrieve() throws if the value held is not of the selected type. *)
Retrievable(e) == e.select = "mismatch" => e.value.null

(* Faulty: looks through an Any, which is written as a null. *)
SkippedThroughAny(v) ==
  /\ ~config.includeNullFields
  /\ IF v.class = "Any" /\ ~v.null THEN v.items[1].value.null ELSE v.null

Skipped(v) == v.null /\ ~config.includeNullFields

NextTodo(stk, step) ==
  [stk EXCEPT ![Len(stk)].todo = Tail(@), ![Len(stk)].index = @ + step]

Iterating == pc = "iterate" /\ Top.todo # <<>>

(* Faulty: the index counts the entries visited. *)
SkipEntryCounted ==
  /\ Iterating
  /\ Retrievable(Head(Top.todo)) /\ Skipped(Seen(Head(Top.todo)))
  /\ stack' = NextTodo(stack, 1)
  /\ UNCHANGED <<config, root, stream, call, pc>>

(* Faulty: an entry left out is visited again. *)
SkipEntryStays ==
  /\ Iterating
  /\ Retrievable(Head(Top.todo)) /\ Skipped(Seen(Head(Top.todo)))
  /\ UNCHANGED vars

SkipEntry ==
  /\ Iterating
  /\ Retrievable(Head(Top.todo)) /\ Skipped(Seen(Head(Top.todo)))
  /\ stack' = NextTodo(stack, 0)
  /\ UNCHANGED <<config, root, stream, call, pc>>

(* The index counts the entries written, not the entries visited. *)
WriteEntry ==
  LET e == Head(Top.todo) IN
  /\ Iterating
  /\ Retrievable(e) /\ ~Skipped(Seen(e))
  /\ call' = [ key   |-> IF Top.class = "Collection" THEN IndexKey(Top.index)
                         ELSE e.key,
               value |-> Seen(e) ]
  /\ stack' = NextTodo(stack, 1)
  /\ pc' = "call"
  /\ UNCHANGED <<config, root, stream>>

RetrieveFails ==
  /\ Iterating
  /\ ~Retrievable(Head(Top.todo))
  /\ Throw("type selector")

Below(stk) == SubSeq(stk, 1, Len(stk) - 1)

CloseCompound ==
  /\ pc = "iterate" /\ Top.todo = <<>>
  /\ stream' = PutOut(Below(stack), DocumentBytes(Top.inner))
  /\ stack' = PutOn(Below(stack), DocumentBytes(Top.inner))
  /\ Return(Below(stack))
  /\ UNCHANGED <<config, root, call>>

-----------------------------------------------------------------------------
Finished == pc \in Failures \cup {"done"} /\ UNCHANGED vars

Step ==
  \/ SerializeScalar \/ SerializeInlineDocs \/ SerializeAny \/ SerializeEnum
  \/ SerializeInterpreted \/ SerializeUnknown
  \/ OpenCompound \/ SkipEntry \/ WriteEntry \/ RetrieveFails \/ CloseCompound

Next == Step \/ Finished

Spec == Init /\ [][Next]_vars
FairSpec == Spec /\ WF_vars(Step)

-----------------------------------------------------------------------------
Frame == [ class : Compound, todo : Seq(ValueEntry), index : Nat,
           inner : Seq(BsonByte) ]

(* Frames hold bytes and entries, the call a key and a value, and a loop   *)
(* runs only where there is a frame. *)
TypeOK ==
  /\ config \in Config
  /\ root \in Roots
  /\ stream \in Seq(BsonByte)
  /\ stack \in Seq(Frame)
  /\ call \in [key : Key, value : Values]
  /\ pc \in {"call", "iterate", "done"} \cup Failures
  /\ pc = "iterate" => stack # <<>>

(* Until serializeToStream returns normally the caller's stream holds what *)
(* it held before: an exception in the middle of a nested value leaves no  *)
(* part of a document behind. *)
AtomicWrite == pc # "done" => stream = Prefix

(* What a normal return has appended to the stream is as long as its own   *)
(* first four bytes say, so that a reader of several documents finds the   *)
(* end of each: a scalar root throws, the sizes of nested documents are    *)
(* counted into the outer one (which must fit in an int32).                *)
SizedRoot ==
  LET c == Inc(Caret(stream), Len(Prefix)) IN
  pc = "done" /\ Left(c) <= MaxInt32 =>
    Left(c) >= 5 /\ ReadInt32(c).value = Left(c)

(* What is up to the caller: keys of maps that are no null pointers and    *)
(* have no NUL byte, and buffers of inline documents that are documents if *)
(* they pass the serializer's check.                                       *)
GoodKey(key) == key # NullKey /\ \A i \in DOMAIN key : key[i] # 0

Writable ==
  \A v \in Values :
    /\ v.class \in {"Map", "Object"} => \A i \in DOMAIN v.items : GoodKey(v.items[i].key)
    /\ v.class \in Inline /\ ~v.null /\ InlineIsValid(v.bytes) =>
         IsDocument(v.bytes, InlineCode(v.class), Steps)

Written == SubSeq(stream, Len(Prefix) + 1, Len(stream))

(* What a normal return has appended is a BSON document: every size field  *)
(* counts its document, every document ends with its terminator, every     *)
(* element has a code, a key and a payload, and the keys of an array are   *)
(* 0, 1, ... without a gap where a null was left out.                      *)
WellFormedOutput ==
  Writable /\ pc = "done" /\ Len(Written) <= MaxInt32 =>
    \E code \in {DOCUMENT_EMBEDDED, DOCUMENT_ARRAY} : IsDocument(Written, code, Steps)

-----------------------------------------------------------------------------
(* The code and the bytes that stand for each value as an element of a     *)
(* document, without and with null fields: a solution of the equations     *)
(* below, which say how the encoding of a value is made of those of the    *)
(* values it holds.                                                        *)
CONSTANT Encoding

StandsForItem(v) ==
  v.class = "Interpreted" \/ (v.class \in Wrapper /\ ~v.null)

(* What a field with a typeSelector holds in its Any. *)
EntryValue(e) ==
  IF e.select = "none" \/ e.value.null THEN e.value ELSE e.value.items[1].value

(* Entries whose pointer is null are left out unless they are asked for;   *)
(* the items of a collection are numbered without them.                    *)
Kept(v, i, nulls) == nulls \/ ~EntryValue(v.items[i]).null

Number(v, i, nulls) == Cardinality({ j \in 1 .. i - 1 : Kept(v, j, nulls) })

KeyOf(v, i, nulls) ==
  IF v.class = "Collection" THEN IndexKey(Number(v, i, nulls)) ELSE v.items[i].key

ElementBytes(key, element) == KeyBytes(element.code, key) \o element.bytes

Parts(v, nulls) ==
  [ i \in 1 .. Len(v.items) |->
      IF Kept(v, i, nulls)
      THEN ElementBytes(KeyOf(v, i, nulls), Encoding[nulls][EntryValue(v.items[i])])
      ELSE <<>> ]

Element(code, bytes) == [code |-> code, bytes |-> bytes]

StandsFor(v, nulls) ==
  CASE StandsForItem(v) -> Encoding[nulls][v.items[1].value]
    [] ~StandsForItem(v) /\ v.null -> Element(NULL_VALUE, <<>>)
    [] ~v.null /\ v.class \in ScalarClass ->
         Element(ScalarCode[v.class], ScalarBytes(v))
    [] ~v.null /\ v.class \in Inline ->
         Element(IF v.class = "InlineDocument" THEN DOCUMENT_EMBEDDED
                 ELSE DOCUMENT_ARRAY, v.bytes)
    [] ~v.null /\ v.class \in Compound ->
         Element(IF v.class = "Collection" THEN DOCUMENT_ARRAY
                 ELSE DOCUMENT_EMBEDDED,
                 DocumentBytes(FlattenSeq(Parts(v, nulls))))

(* A class without a method has no encoding to speak of. *)
ASSUME EncodingAssumption ==
  \A nulls \in BOOLEAN :
    /\ Encoding[nulls] \in [Values -> [code : BsonByte, bytes : Seq(BsonByte)]]
    /\ \A v \in Values : v.class \in UNION {ScalarClass, Inline, Compound, Wrapper} =>
         Encoding[nulls][v] = StandsFor(v, nulls)

(* What a normal return has appended is the document that stands for the   *)
(* value: each entry in its place, with the code of its class, nulls only  *)
(* as configured, at every depth.                                          *)
EncodesValue ==
  pc = "done" => stream = Prefix \o Encoding[config.includeNullFields][root].bytes
=============================================================================
