# A specification of oatpp-mongo

TLA+ modules, model-checking configurations and machine-checked proofs for
oatpp-mongo: the BSON object mapper and the (proof of concept) MongoDB driver.
Paths below are relative to `src/oatpp-mongo/` of the repository.

## 1. Inventory

| Component | State | Operations | Interacts with |
|---|---|---|---|
| ObjectId (`bson/type/ObjectId`) | per process: `COUNTER` (atomic 64-bit word), `PROCESS_UNIQUE` (5 random bytes); per object: 12 bytes | default constructor, copy from bytes, `getTimestamp`, comparison, `toString` | all threads of the process, the system clock |
| Primitives (`bson/Utils`, `bson/Types.hpp`) | `INT_BO`, `FLOAT_BO`: the host's byte orders, found out when the library is loaded | read/write of keys, int32, int64, uint64, float64; limit checks | the stream or caret of the caller |
| Serializer (`bson/mapping/Serializer`) | configuration; per call a recursion with one inner stream per open document | one method per class of value | Primitives; the type descriptors of oatpp |
| Deserializer (`bson/mapping/Deserializer`) | configuration; per call a recursion with one inner caret per open document and the elements set aside for polymorphic fields | one method per class, `skipElement`, `guessType` | Primitives; type descriptors and type selectors |
| ObjectMapper (`bson/mapping/ObjectMapper`) | a serializer and a deserializer | `write`, `read` | the two above |
| Wire connection, message (`driver/wire/Connection`, `Message`) | a stream; header and data of a message | `write`, `read` | the network stream |
| OP_MSG (`driver/wire/OpMsg`) | flags, list of sections | write, parse | Message data |
| Commands (`driver/command`) | the DTO of the command, a shared list of documents | `addDocument`, `toMessage` | ObjectMapper, OpMsg |

Control passes by ordinary calls. The only state shared by threads is
`ObjectId::COUNTER`; a mapper has no state that changes after its set-up. The
stream underneath the connection is the only partner that can fail by itself.

What is hard, and what makes each component correct:

* **ObjectId**: a constructor is not atomic. It increments the counter, then
  reads a clock that other threads see move and that may be set back. Correct
  means: no two calls get the same identifier (per process as long as fewer
  than 2^24 counter values lie between them; across processes as long as their
  random bytes differ), and sorting by timestamp agrees with the order of calls
  that do not overlap while the clock is monotone.
* **Serializer**: nesting, exceptions in the middle of nested values, null
  pointers that are left out, values held in an `Any`, an enum or an
  interpreted type. Correct means: all or nothing in the caller's stream; sizes
  that count; the one document that stands for the value.
* **Deserializer**: input from outside. Several carets over the same bytes have
  to agree on where elements end, errors have to travel outwards through every
  level, bytes of unknown or polymorphic fields have to be skipped by the same
  amount that a reader of the value would consume. Correct means: a document
  for a value is read as this value, a read without an error has seen a whole
  document and returns a value without holes, and every read ends.
* **Wire connection**: a message is two transfers, each of which may fall short
  at any byte, and the connection stays usable afterwards. Correct means: as long
  as nothing fell short the messages arrive once, in order and unchanged, and a
  caller can tell from a result whether what it has is a whole message.
* **OP_MSG**: sections announce sizes that come from outside, a section that
  fails is kept in the list, and a sequence ends at the document that reaches its
  announced size. Correct means: the caret stays within the data, the sections
  account for every byte of it, a document is as long as its own size field says,
  and what the writer wrote is parsed as the same message.
* **Primitives**: the readers and writers branch on what was found out about the
  host, on a host nobody tested on and before the library's own initialisers have
  run. Correct means: a number has the same bytes in every document, and is read
  back as it was written.
* **Commands**: the list of documents outlives the message it was put into, a
  length is computed in 32 bits, and answers are never matched to requests.
  Correct means: what the server executes is what the command had collected when
  `toMessage` was called, once for each request; a length says how long the
  message is; and a caller who numbers its requests gets the answer to its own,
  even if it gave up an earlier one.

`PROJECT.json` lists the hazards line by line, with the property that covers
each.

## 2. Modules

| Module | Models |
|---|---|
| `UniqueIds` | abstract: what a generator of identifiers promises |
| `ObjectIds` | the ObjectId constructor, run by the threads of several processes |
| `BsonFormat` | type codes, values, the byte-level readers and writers, where a payload ends, `Caret` |
| `BsonDocuments` | what a BSON document is, whatever the types: a walk over its bytes, without recursion, so that proofs can speak of it |
| `Serializer` | one call of `serializeToStream` as a machine with an explicit stack |
| `Deserializer` | one call of `read`, likewise |
| `OpMsg` | the writer of an OP_MSG as operators, its parser as a machine on a caret |
| `ByteOrder` | detection of the host's byte orders and the branches of the number readers and writers |
| `WireMessage` | a message and its header, as bytes and as fields |
| `MessageChannel` | abstract: what the two ends of a connection promise each other |
| `Wire` | `Connection::write` at one end of a stream, `read` at the other |
| `Calls` | abstract: what a caller of commands expects |
| `Driver` | commands, a caller, a connection in both directions, and a peer that parses with `OpMsg` |
| `BsonReference` | which document stands for a value, independently of the two machines; recursive, used by runs only |
| `MCObjectIds`, `MCSerializer`, `MCDeserializer`, `MCOpMsg`, `MCWire`, `MCDriver`, `MCByteOrder` | instances for TLC, and the properties that need the reference or are recursive |
| `DataLemmas` | lemmas the proofs share: `%` and `\div`, induction over the natural numbers by way of sets, sequences of sequences, bytes, int32 fields and carets within their data, message headers |
| `ObjectIdsProofs`, `SerializerProofs`, `DeserializerProofs`, `OpMsgProofs`, `ByteOrderProofs`, `WireProofs`, `DriverProofs` | theorems |

**ObjectIds.** `COUNTER`, `PROCESS_UNIQUE` are the statics of the class, one per
process; `counter[t]` is the constructor's local. `FetchCounter(t)` is the
constructor's first statement, `FinishId(t)` the rest: its only other shared
read is the clock, so everything after it is one step. `Tick` and `StepBack`
are the environment's clock. `drawn`, `ticket` and `issued` are history
variables: which increment an identifier belongs to. A byte has `Byte` values:
256 in the code, 2 in the runs, anything above 1 in the proofs.

**Serializer.** The C++ is recursive; its activation records are `stack`. A
frame holds the `innerStream` of an open collection, map or object (`inner`),
the entries still to visit and the array index. `call` holds the arguments of
the pending `serialize(stream, key, polymorph)`. Each method is an action; the
three compound methods share `OpenCompound`, the loop body (`SkipEntry`,
`WriteEntry`, `RetrieveFails`) and `CloseCompound`. An exception empties the
stack. A value is a record of its class, its null flag, its wire bytes and what
it holds; numbers are represented by their wire form, since widening them is
all that happens to them on the way out. `Config.enableInterpretations` is
represented by the class `Interpreted`, a class an enabled interpretation
serves; without one the class has no method (`SerializeUnknown`). The document
that stands for a value is given by the constant `Encoding` and the equations of
`EncodingAssumption`, which say how the encoding of a value is made of those of
the values it holds (`StandsFor`). It is a constant and not a recursive operator
so that it can be reasoned about; the runs give it the recursive reference
encoding (`BsonReference`), and TLC evaluates that this solves the equations.
`ScalarAssumption` says that a number has the width of its wire form and a boolean
is 0 or 1. `Steps` is how far `WellFormedOutput` walks over what was written;
the longest walk of the run's documents ends after 14 steps, and the run allows 40.
`Writable` is what is up to the caller: the keys of maps are no null pointers (else
finding 2) and have no NUL byte, and an inline document that passes the serializer's
check of its size is a document.

**Deserializer.** The same construction. A frame has the `innerCaret` over the
document's bytes, the expected index, the entries read so far and the elements
set aside (`polymorphs`). `call` holds the arguments of the pending
`deserialize`, and the wrappers (`Any`, interpreted type) its result will be
put into. `Fail` is a method that sets an error on its caret and returns,
`FailInside` one that gives up within its document: the caller's caret is moved
and takes over the error, as the code does in three places. `Throw` is an
exception. Types are names with a descriptor (`TypeInfo`), as oatpp's `Type`
objects are. `TypesAssumption` says of the descriptors what oatpp's are: the
fields of a type have different names (they are the keys of a map), a field with a
type selector is an `Any`, an enum's interpretation is a scalar, and no type has
the class of the model's `Nil`, which stands for what a method returns along with
an error: that tells it from a null that was read. `Depth` says how many levels
of a result `NothingMissing` looks into, and how far `OnlyDocuments` walks; the
theorems hold for any number of either. A caret's `inc` is not checked against the end of its buffer, in
the model as in oatpp. So `skipElement` may move it behind the document, and what
`SetAside` then copies runs on into what lies behind: the rest of the document
around it, or memory that is none of the read's. `Behind` are the bytes that may
lie there, any of them wherever a copy reaches that far; `BehindAssumption` asks for
as many as the widest element of a fixed width has, which is how far the caret can
be moved too far. The type of a field with a type selector is asked of the
object (`SelectType`) when its other fields have been set: `cases` lists the values
of other fields for which the selector makes a choice of its own, `select` is its
choice otherwise.

**OpMsg.** `writeToStream` cannot fail: it is the operator `OpMsgBytes`.
`readFromCaret` is a machine whose `pc` names the loop it is in: `sections`, or
`sequence` inside `DocumentSequenceSection::readFromCaret`, whose locals
`overallSize` and `progress` are `section.size` and `section.progress`. One
action is one pass of a loop. A body section is read in one step, since nothing
can happen between its statements. The results of the sections' `readFromCaret`
are not looked at, as in the code: `Push` appends the section in any case, and
only the error of the caret ends the loop. `Data` are the bytes the parser is run
on, `Messages` the messages whose written form may be among them
(`MessagesAssumption`: their documents are as long as their own size fields
say, an identifier has no NUL byte and the length of a sequence is an int32; the
writer checks none of this).

**Wire.** One direction of a connection: both ends run the code of `Connection`,
and `stream` holds the bytes between them. A call of `write` is `Write` (the
check of the length), `WriteHeader` and `WriteData`, a call of `read` is
`ReadHeader` and `ReadData`; the two ends interleave between these. The stream
underneath is not in the repository: from the way it is used a transfer
is complete, or falls short after some bytes with their number or a negative
error as its result. `message` is the caller's object, reused from one
`read` to the next; its header is not initialised by its constructor
(`Headers`). `told`, `sent` and `delivered` are history variables: `sent` and
`delivered` stop growing with the first transfer that falls short, since
`MessageChannel` promises nothing from there on. A read that fell short before
its first byte (a timeout) has taken nothing from the stream and does not count.
What a caller can still rely on afterwards is `WholeOrTold`.

**Driver.** The commands composed with the rest of the driver. `documents[c]` is
the list that a command shares with its section; `ToMessage(c)` builds the message,
its lengths in an int32 of `Int32Range` values (2^32 in the code), `Write` and
`Read` are the calls of `Connection`. The two directions carry whole messages,
as bytes: that is what `Wire` implements (`ImplementsChannel`), and no state of
`Driver` depends on how a transfer is cut into bytes. At the other end the header
is decoded and the data goes through the parser of `OpMsg`, an instance of that
module whose every step is a step here (`PeerParses`). Two parties are external.
The caller does what `test/oatpp-mongo/tests.cpp` does (it sets
`header.requestId` itself, writes, and reads the answer) and what the code leaves
to it: it has one request out at a time, numbers them, reads on when
`responseTo` is not the number it waits for, and may give up. The server executes
the requests in order and answers each. `added`, `meant`, `asked` and
`executed` are histories. `DocumentsAssumption` says that the documents count
themselves: they come from a mapper, which writes no others (`SizesCount`).
`addDocument` would take any `InlineDocument`. A caller that leaves `requestId` as `toMessage` sets it,
at zero, could not tell a late answer from its own.

**ByteOrder.** The other modules rest on `BsonFormat`, which has the branch of a
little-endian host. `ByteOrder` has all of them, on hosts that store integers and
doubles with the least significant byte first, last, or with exchanged halves,
and whose `char` has a sign or none. `INT_BO` and `FLOAT_BO` are statics with an
initialiser that is a call, hence `UNKNOWN` until `Load`; a static initialiser of
another file may write and read before. A number is its eight (or four) bytes;
shifting and masking it gives these bytes, a cast of a pointer gives them in the
order of the host's memory.

Left out: error texts, maps with
keys other than String when writing, array indexes whose number `strToInt32` wraps
around to the expected one, set semantics of unordered collections,
what a user-supplied interpretation computes, and what is undefined in C++: the
`size - 4` of the four smallest sizes an int32 has, and what a host may do when
bytes behind a buffer are copied (it may end the process; in the model the copy is
made, with any bytes).

**Faulty variants.** Each module contains a few operators whose comment begins
with "Faulty:". They are plausible mistakes in the definition that follows
them, and are used by no specification. `PROJECT.json` lists, for each property
a run checks, the variant that makes the property fail when it replaces its
original: a check that the property depends on that code.

## 3. Runs

| Run | Instance | Result |
|---|---|---|
| `MCObjectIds_window` | 1 process, 2 threads, counter of 8 values in a word of 16, 9 draws, 3 seconds (a carry between timestamp bytes) | `TypeOK`, `WindowUnique`, `RealTimeOrder` hold |
| `MCObjectIds_processes` | 2 processes, 3 threads, clock set back and forth | `UniqueIds` is implemented |
| `MCSerializer` | a root with two fields, one of every class of value at up to three levels, both settings of `includeNullFields` | six properties hold |
| `MCDeserializer` | about 3300 inputs (below), both settings of `allowUnknownFields`, two kinds of bytes behind a document | seven properties hold |
| `MCOpMsg` | written messages of up to three sections, damaged ones, ones with a checksum | five properties hold |
| `MCWire` | three messages, three writes, two transfers that fall short | three properties hold |
| `MCDriver` | a `Find` and a command with documents, three messages, two calls given up, an int32 of 128 values | three properties hold |
| `MCByteOrder` | all 18 kinds of host, before and after loading, 625 int32 and 96 eight-byte numbers | three properties hold |
| `MCSerializer_unknown` | a field of a class without a method | `UnknownTypesInserted` is violated |
| `MCSerializer_nullkey` | maps with a null key | `NullKeysRefused` is violated |
| `MCDeserializer_any` | maps of `Any` with each scalar class | `AnyIsReadBack` is violated |
| `MCDeserializer_polymorph` | damaged documents with a field that has a type selector | `PolymorphErrorsReported` is violated |

*Bounds.* The 24-bit counter wraps and the 64-bit word wraps are what makes the
generator interesting. With one bit per byte both are a few steps away: the
seeds 5 and 12 put each of them in the middle of a behaviour, and nine draws
let a counter value come back. Byte size, threads, processes and draws are
arbitrary in the proofs. The serializer's instance has each method in each of
its outcomes, before and after a sibling and at each depth, and an
array with two items, so that an index can be wrong after a null was left out;
deeper nesting repeats the same frames. The deserializer's instance has
(1) the reference encoding of a DTO with fields of every kind, with one and with
two fields set, (2) the same with an unknown element of each of the type codes
in front, behind and in a nested document, (3) each byte of these documents
replaced by 0, 2, 6, 9, 255 and its successor, every prefix, and bytes after the
end, (4) documents the types refuse, and size fields that point backwards, (5)
documents with a polymorphic field, damaged in the same ways, (6) documents whose
field 19 has the type that goes with the value of field 2, with the two in either
order, the first field absent, and a value for which a type without a method is
chosen, (7) arrays whose first key `strtol` takes for zero (empty, blanks, signs,
leading zeros), and some that it does not. What lies behind a document are sixteen
bytes 0, which would end a document, or 255, which would not. `Depth` is 6, more
than any of these results has levels. The replacement bytes are chosen for what they turn a byte into: a terminator, a
code, a size that ends within a key, a negative size.


The messages of `MCOpMsg` are no section under each setting of the flags, every
pair of sections of both kinds (a sequence with no, one and two documents, with
an empty and a nonempty identifier), and three sections. The
damaged ones have one byte replaced by 0, 1, 2, 4, 5, 127, 255, its successor or
its predecessor, or are cut off at each place: this makes a sequence end
within, before and after its last document, and a document or a sequence
reach beyond the data. `MCWire` has a message without data, one whose data
looks like a header, and one with a wrong length, which `write` refuses. Three
writes put a message in front of and behind one that fails; two
short transfers let a write and a read of the same message fail, or two calls in
a row. A transfer falls short after each number of bytes.

In `MCDriver` two documents of 20 and 100 bytes, or two of 100, are too many for
an int32 of 128 values: the length becomes negative, or wraps around to a small
positive number. Two additions per command and three messages put additions before, between
and after messages, and a message of a command twice. With two calls given up
two late answers are on their way when a third request is made. `Update` and
`Delete` differ from `Insert` in the identifier of their sequence only.
`MCByteOrder` has every int32 made of the bytes 0, 1, 127, 128 and 255, and
eight-byte numbers with one byte set in each half, so that a byte in a wrong place
or a sign that spreads is seen.

*Damaged documents with a polymorphic field* are also in a run of their own:
`PolymorphErrorsReported` is `NothingMissing` without its exception for what such
a field holds, and does not hold (finding 4 below).

*Fairness.* `FairSpec` of the two machines is weak fairness of `Step`: a call
that runs on a thread continues until it returns or throws. Nothing weaker is
meant by calling a function, and nothing stronger is needed: there is no choice
between actions. The same holds for `OpMsg`. In `Wire` a call of `write` that has
begun goes on (`WriteHeader \/ WriteData`), and the reading end keeps calling
`read` while there are bytes (`ReadHeader \/ ReadData`); `Write` itself is never
forced, and no short transfer is. ObjectIds has no liveness property; a constructor has no loop.
In `Driver` the peer goes on and a caller that
waits reads when there is something to read; whether it gives up, fills a command
or makes a request is its own choice. Deadlock is not checked for ObjectIds, where the bounds on draws and on the
clock end a behaviour, nor for `Wire`, where after the last write a reader waits
for bytes, nor for `Driver`, where after the last message nothing is left to do; the three machines stutter explicitly once finished
(`Finished`), so an early stop would be reported.

### What each property says

* `WindowUnique`: two identifiers of one process less than a full counter apart
  differ; however long a thread stalls between its two reads.
* `RealTimeOrder`: identifiers of calls that do not overlap carry timestamps in
  the order of the calls, as `getTimestamp` decodes them.
* `ImplementsUniqueIds`: refinement. The pairs of (process, increment) and
  identifier behave like `UniqueIds!assigned`.
* `AtomicWrite`: until `serializeToStream` returns normally the caller's stream
  has what it had.
* `SizedRoot`, `WellFormedOutput`, `EncodesValue`: the output counts itself, is
  a BSON document at every level, and is the document that stands for the value.
  `WellFormedOutput` walks over the bytes, knowing nothing of the value: every size
  field counts its document or string up to its terminator, every element has a code,
  a key and a payload of that code, and the keys of an array are 0, 1, ... without a
  gap where a null was left out. It speaks of documents that fit an int32 and of
  values that are `Writable`, as all of the run's are.
* `WholeDocument`: a read without an error leaves the caret exactly at the end
  of the document, as its own size field says, and within the buffer.
* `ReadsValue`: documents for a value are read as the value; unknown elements of
  any code change nothing if they are allowed and are an error if not. Where the
  type of one field depends on the value of another, it is the same for either order
  of the two in the document.
* `SetAsideWhole`: when the elements set aside are read, each is a whole element
  of this object's own document, key, code and payload. A caret that has left its
  buffer has copied more than the document, but the missing terminator is then
  an error, and the copy is never looked at.
* `NothingMissing`: errors of nested carets reach the caller. No part of what a
  read without an error returns, down to any level, is what a method left behind
  with an error. What a field with a type selector holds is excepted (finding 4).
* `OnlyDocuments`: what is read without an error is framed as a document of the
  type it is read into: every size field that is read counts its document up to
  the terminator, its last byte; every element's code is one of the type it is
  read into, and it ends where the next begins. The property walks over the
  bytes from the document's first one, taking with it the type each part is read
  into, and must not go astray. The content of inline documents and of skipped
  elements is not inspected by the code and not by the property; the terminator
  of a string is not either. That of a field with a type selector is inspected
  by the code, but its error is dropped (finding 4), and the property passes it
  over. An `Any` whose code has no guess takes no bytes, so that the walk goes on
  at its first byte as the code does (finding 3): that such bytes are documents
  of no kind is not what the property denies.
* `Terminates`: every call ends (Serializer, Deserializer and OpMsg).
* `SizedDocuments`: a section kept in spite of an error is the last one; each
  document of the others is as long as its own size field says.
* `Accounted`: as long as there is no error the sections cover the bytes read,
  without gap or overlap, and all of them when the parser returns true. The size
  of a sequence need not be that of its documents: the last one may overrun it.
* `WrittenIsParsed`: flags and sections survive `writeToStream` and
  `readFromCaret`.
* `WholeOrTold`: a result of `read` equal to the length in the header, and no
  less than a header, means that data and header belong together and every byte
  was read.
* `ImplementsChannel`: refinement, with liveness. Until a transfer falls short
  messages arrive once, in order, unchanged, and every one of them does; a read
  that timed out before its first byte may be repeated.
* `LengthsFit`: of the messages whose length wraps around in int32, none passes
  the check of `write` with a header that says something else than its length, and
  none is refused that an int32 could describe.
* `ImplementsCalls`: refinement, with liveness. The peer executes, once each and in
  order, what `toMessage` was called for: the documents added before it, those of
  earlier messages included and none added since. A call that is answered has the
  answer to its own request, however many answers came late; every call ends.
* `WireOrder`: the bytes of a number are the same whichever host wrote them, and
  whether its library was loaded or not.
* `ReadsBack`: what is read is what was written, except in the cases `Misread`
  names (observations 1 and 2 below); on a little-endian host with the library
  loaded there is none.
* `TypeOK` of `OpMsg` is more than types: whatever the size fields say, the caret
  never leaves its data. That of `Wire` says that an end in the middle of a
  transfer knows what it transfers: a writer has a header that tells its length,
  a reader one of at least 16.

### Findings

1. `throwOnUnknownTypes` is documented (`Serializer.hpp:74`) and never read:
   unknown types always throw.
2. A map entry whose key is a null `String` throws "The key can't be null." if
   its value is a scalar; a collection, map, object or inline document is
   written without code and key, and the document is malformed.
3. A `DateTime` in an `Any` is written but cannot be read into an `Any`:
   `guessType` knows no type for it and `deserializeAny` leaves its eight bytes
   in the caret. `DateTime` is the only class a serializer writes for which
   this happens; other codes without a guess (binary, regular expressions, ...)
   have the same effect on documents from elsewhere.
4. An error in a field with a type selector is dropped, and the field holds a
   null or a number that was never assigned.

Observations about byte order, stated in `Misread` and `ReadsBack`:

1. On a host not known to be little-endian whose `char` has a sign, `readInt32`
   puts a number together from negative bytes, which set all bits above them. A
   little-endian host takes this branch too, before `Utils.cpp` is initialised.
2. The branch of `readFloat64` for a big-endian host exchanges eight doubles
   instead of the eight bytes of one.

Smaller observations, not pursued in runs: the documents of a command are sent
again by every further message made of it (`ImplementsCalls` says so); `Delete`
names its sequence "delete" while `Insert` and `Update` use the plural; the check for leftover bytes after
the terminator cannot fire (the loop runs up to the last byte, and the
terminator is that byte); `DOCUMENT_ROOT` (0) is accepted as the code of a
nested document; a root `InlineDocument` can be written but not read; a section
that failed stays in the list of a message whose parse returned false; an
element with a type selector that is cut off by the end of its document is copied
up to where its payload would have ended (`label.toString()`,
`Deserializer.cpp:601`), past the end of the document and perhaps of the whole
buffer, before the read fails for the missing terminator; the
checksum announced by its flag is parsed as sections; `requestId` and
`responseTo` of a command's message are zero unless the caller sets them; the
header of a `Message` holds what it was constructed over, or what the last
message left, after a header read that fell short.

## 4. Proofs

`tlapm` checks every proof. All are for arbitrary constants, under the named
`ASSUME`s, which TLC evaluates in the runs.

**ObjectIdsProofs.** `TypeCorrect`: by induction over the steps, one lemma per
action. `WindowUniqueness` and `TimestampsOrdered` are not inductive alone. The
invariant that carries them ties the word to the history: `COUNTER[p]` is seed
plus draws modulo its range; a thread between its two reads holds the counter of
its own ticket, no two tickets of a process are equal, and an issued identifier
shows its process, its ticket's counter and a timestamp no later than now. From
it uniqueness is arithmetic: equal bytes mean equal counters (positional
numbers, `DataLemmas`), so the tickets are congruent modulo 2^24 (since the
word's range is a multiple of it), which tickets fewer than 2^24 apart are not.
`UniqueGenerator` maps each step to a step or stutter of `UniqueIds`.

**SerializerProofs.** `TypeCorrect`, for all sets of values closed under "is held
by". `Atomicity`: the invariant that strengthens `AtomicWrite` says that
whenever a frame is open, or a call is pending without one, the caller's stream
is as it was and the bottom of the stack is the root document's frame, whose
call had no key. `SizesCount`: a root that returns normally was
written by one `CloseCompound` (or is an inline document whose size was
checked), and `Int32Bytes` followed by `ReadInt32` is the identity on every int32
(`Int32RoundTrip` in `DataLemmas`). `DocumentWritten`: the invariant (`EInv`) says that each
open frame is that of some value, has visited the first m of its items and has
written their elements, but for the rest of the last one (`Shows`): for the
innermost frame that is what the pending call will write, for any other the encoding of
the value of the frame above it. The outermost frame's value encodes to the
document. Each step moves bytes from the rest to what is written, or takes one
item more (`FlattenSeq` of one element more), and a frame that closes has written
what stands for its value by `EncodingAssumption`. No induction over values is
needed, since a step unfolds the equations once.

`WellFormedWritten` (of `WellFormedOutput`): a place of the walk is *framed* if no
walk from there goes astray. What an open document has written is not a document
yet, so the invariant (`Growing`) says what it is the beginning of: in any bytes that
hold it, if the place behind it is framed, so is the document's first element
(`Ready`). A frame that waits for the payload of an element of which it has
written the key says the same of a payload with that code (`Awaiting`); the frames
below the innermost wait for the one above each (`Layers`). A key turns `Ready`
into `Awaiting` if it is good and, in an array, the next number; a payload turns it
back if it is one wherever it lies (`Fits`), which is proved for each kind
(`NullFits`, `FixedFits`, `StringFits`, `DocumentFits`); the terminator ends the
walk, so that a frame that closes is a document (`DocumentDone`) and one of
these payloads for the frame below. Again no induction over values is needed; that a
walk begins with a step of its first place (`WalkBegins`) is by induction over its
length, through `AllNaturals`.

**DeserializerProofs.** For every set of types and any bytes, well-formed or not.
`TypeCorrect`: a caret without an error is never before its data, although
`skipElement` may leave it behind their end; a loop reads a key, and a method is
called, only on a caret within its data (`LoopFacts`, `Establish`), so that all
that is read is bytes of the document. What is set aside is bytes too, but not
always the document's: the copy may reach behind it, for no more than the caret
can be moved too far (`SkipReach`, `BehindAssumption`). The frames are a sequence over some set of
well-formed frames, one lemma per way a stack changes (`RootPut`, `RootPush`,
`RootPop`). `WholeDocuments`: the invariant (`RootOK`) follows the caller's caret
through the whole call. While the outermost frame's loop runs it stands just
behind the size field, and that frame's data is what the field announces less the
field; from the moment the frame closes, be it to return or to go through the
elements it has set aside (`Finishing`), it has an error or stands at the end of
the document (`RootClosed`). Which of the two holds depends only on the two
outermost frames, so that what happens deeper cannot disturb it. That an element
set aside lies on a frame of a document (`Layered`) is needed when its value
is handed to that frame.

`NothingLost` (of `NothingMissing`): the invariant (`Intact`) says that every frame
but the innermost holds whole values, and the innermost too unless its caret has an
error with which its loop is about to end; that a value being returned is whole or
the caret it was read from has an error; and that a field with a type selector is
marked as one in the object being read and an element set aside belongs to such a
field, which is why its value may be anything. A value is *whole* if it is in some
set of values without a hole that has, with each of its members, what that holds
(`WithoutHoles`). This takes the place of an induction over values: a value made of
whole ones is whole, by the union of their sets (`Assembled`), and what a whole
value holds at any level is in its set (`PartsOfWhole`). The set is quantified over,
which is why TLC does not evaluate this invariant. One `...Keeps` lemma per action
says that the action preserves it.

`OnlyDocumentsRead` (of `OnlyDocuments`): a place of the walk is *framed* if it is in
some set of places that has, with each of its members, all it leads to, and in which
none is astray (`OnTrack`). Again a union of such sets is one, so that a place is
framed if all it leads to is (`Framed`), and a walk from a framed place never goes
astray, whatever the number of steps (`WalkOfFramed`). What a machine has read cannot
be judged before the rest has been, so the invariant (`Framing`) runs from the
inside out as implications: if what is still to be read is framed, so is the document
it is read in (`Going` for the innermost document, `Chained` for each one above
another, `Based` for the request). Each action shortens what is to be read by one
step of the walk, in one `...Framed` lemma per action; closing a document turns the
implication into a fact (`AtTheEnd`, `ClosedShows`), which the document around it then
uses. The lemmas beneath say that the code's carets stand where the format says that
things end: `KeyEnds`, `SkipEnds`, `ScalarEnds`.

`SetAsideIntact` (of `SetAsideWhole`) says that such bytes are never looked at. The
invariant (`SInv`) says that every frame but the innermost has set aside only
elements of its own document, and the innermost too unless its loop is over with the
caret beyond the end (`Beyond`). An element set aside ends where the caret stands
(`SetAsideIn`), so a caret still within the data means that the copy was (`CopyWithin`);
and from a caret beyond them there is no terminator, so that `CloseFails` drops
the frame with all it has set aside. Frames below the innermost cannot be in that
state, since setting an element aside opens no frame.

**OpMsgProofs.** For every set of byte strings. `TypeCorrect`: the caret never
leaves its data. Every `Inc` of the parser is behind a comparison (`Fits`) with
what is left, and `findChar` stops at the end at the latest (the least number
with a property, `LeastNatural` in `DataLemmas`). `DocumentsSized`: the
invariant adds to `SizedDocuments` that in the loop of a sequence there is no
error yet and the documents read so far are as good as those of a section; so a
section pushed with an error can only be the last (`PushInv`). A document counts
since its bytes start with the size field that was compared.

`RoundTrip` (of `WrittenIsParsed`), for messages of any number of sections and
documents: while the parser reads what a message was written as (`ReadSoFar`), it
has no error, its flags are the message's, its sections are the message's first
ones, and the caret is where the next section begins (`Begin`); in a sequence the
documents read so far are that section's first ones and `progress` is what they
have taken. Where a section begins is the length of those before it, `FlattenSeq`
of their bytes (`First`). That function is recursive; what the proofs need of it is
proved by induction over the natural numbers in the form "a set with 0 and the
successors of its members has them all" (`AllNaturals`), which needs no theorem
with an operator parameter. `AllAccounted` (of `Accounted`), for any bytes: each
section stands in the data at the offset that the lengths of those before it add up
to, the offset behind the last one is the caret's position, and inside a sequence
its documents likewise stand one behind the other up to the caret (`Placed`).

**ByteOrderProofs.** For every set of hosts and all numbers. The invariant says
what the statics are before and after `Load`, and that the bytes in the document
are those of the number written. `LITTLE` and `NETWORK` are found on hosts of that
order only (`IntOrderFound`, `FloatOrderFound`); a number written backwards twice
is itself; and bytes put together with `|` are the number as long as none but the
last is negative (`OredBytes`). `NumbersReadBack` proves an action property
from this.

**WireProofs.** For every set of messages and of headers, every number of writes
and of transfers that fall short. `TypeCorrect`, `WholeMessages` and
`ImplementsMessageChannel`, the safety part of the refinement, come from one
invariant. Its heart, `Agree`, says that until a transfer breaks off the
messages sent and not delivered lie around the stream one after the other
(`Laid`): there are positions `off[i]`, each the previous one plus the previous
message's size, such that every byte of the stream is the byte of the message it
falls into; the first message begins at the start of the stream, or a header's
length before it when the reader is between header and data, and the last one
ends where the stream does, plus what the writer has still to write. The
positions are a witness carried along (`LinesAppend`, `LinesPut`, `LinesTake`,
`LinesFirst` say how each kind of step changes them), so that no induction over
the messages is needed; the quantifier over them is why this invariant is not
among those TLC evaluates. A header in the stream then reads as the header that
was written (`HeaderRead`, from `Int32RoundTrip`), its length as that message's,
and the data as its data. The types need this too: that `delivered` holds
messages of the writing end is the same argument.

**DriverProofs.** For every set of commands and documents, every range of int32 and
any number of additions, messages and late answers. One invariant (`Inv`) carries
all three theorems: everything on the way and at the peer is what the requests that
have been asked are written as. The first of them have been executed, the next is
being parsed unless the peer is idle, and the others are on their way in order,
each under its own number (`WayInv`); every answer on its way back carries the
number of an executed request, and its bytes. The peer's parser is in a state of
the invariants of `OpMsgProofs` (`PeerInv`), whose lemmas are used through an
instance of that module: a step of the peer's parser is a step there (`StepSame`),
so that with `RoundTrip` the message that it has parsed is the one that was meant.
`TypeCorrect` follows. `AllLengthsFit`: a length is its own int32 below the half of
the range, and another number at or above it, so that the check of `write` lets
exactly the former pass. `Implements`, the safety part of the refinement of
`Calls`, goes step by step: an answer that has the number of the last request
answers this one, since the requests are executed in order (`ReadServes`), and the
peer executes the first request not executed yet (`PeerAnswersServes`); the other
steps are the caller's own or leave the calls as they are.

Model-checked only: all liveness (`Terminates` and that of `ImplementsChannel`
and `ImplementsCalls`; ENABLED is out of the prover's reach), and `ReadsValue`, whose
meaning is a recursive definition over values. Of this, `WholeDocuments`,
`NothingLost` and `OnlyDocumentsRead` say what is read from any bytes, but not that
it is the value a given document was written for.

## 5. Plan

Done: every component of the inventory is modelled, with abstract specifications
for identifiers, the channel and the calls, and every safety property the runs
check is proved but one. What would come next: `ReadsValue` in a form without
recursion, for which the natural one is that of `Serializer`: a constant that gives
the value each document stands for, with the equations it solves.

Not modelled: the chance that two processes draw the same random bytes, and
identifiers made before `ObjectId.cpp` is initialised (no comment says what such
an identifier should be); documents of 2 GiB and more; what a checksum is; the
repository's tests, which are read as statements about the program. Serializer and
deserializer meet in the reference encoding (`BsonReference`): the one is shown to
write it and the other to read it, so that their composition through a stream
would repeat both runs.
