------------------------------ MODULE ObjectIds ------------------------------
(***************************************************************************)
(* The generation of document identifiers: class bson::type::ObjectId,     *)
(* whose default constructor concatenates                                  *)
(*                                                                         *)
(*     4 bytes of seconds | 5 bytes of process | 3 bytes of counter        *)
(*                                                                         *)
(* The counter is one atomic word shared by the threads of a process; it   *)
(* is incremented first, and the system clock is read by a separate step,  *)
(* so any number of other constructors and clock changes fit in between.   *)
(*                                                                         *)
(* Byte is the number of values of a byte (256 in the code; small in the   *)
(* model-checked instances, arbitrary in the proofs).                      *)
(***************************************************************************)
EXTENDS Integers, Sequences, FiniteSets

CONSTANTS
  Byte,           \* values of one byte
  CounterRange,   \* values of the atomic word COUNTER (2^64)
  Seeds,          \* what seedCounter() may return
  ProcessUniques, \* what seedProcessUnique() may return: strings of 5 bytes
  Processes,      \* processes that use the library
  Threads,        \* threads that construct identifiers
  Owner,          \* the process of a thread
  ClockMonotone,  \* FALSE if the system clock may be set back
  MaxDrawn,       \* bound: counter values one process draws
  MaxSeconds      \* bound: the clock's last second

CounterModulus == Byte * Byte * Byte         \* 16777216 in the code
SecondsModulus == CounterModulus * Byte      \* v_uint32

ASSUME ByteAssumption == Byte \in Nat /\ Byte > 1
ASSUME CounterAssumption ==
  /\ CounterRange \in Nat /\ CounterRange > 0
  /\ CounterRange % CounterModulus = 0
  /\ Seeds \subseteq 0 .. CounterRange - 1
ASSUME ProcessAssumption ==
  /\ ProcessUniques \subseteq [1 .. 5 -> 0 .. Byte - 1]
  /\ Owner \in [Threads -> Processes]
ASSUME BoundAssumption ==
  /\ ClockMonotone \in BOOLEAN
  /\ MaxDrawn \in Nat
  /\ MaxSeconds \in Nat

VARIABLES
  COUNTER,        \* per process: the atomic word
  PROCESS_UNIQUE, \* per process: its five random bytes
  now,            \* the system clock, in seconds
  pc,             \* per thread: "idle", or "fetched" between the two reads
  counter,        \* per thread: the constructor's local of that name
  drawn,          \* history: how often a process incremented COUNTER
  ticket,         \* history, per thread: the increment that was its own
  issued          \* history: the identifiers constructed

vars == <<COUNTER, PROCESS_UNIQUE, now, pc, counter, drawn, ticket, issued>>

Bytes == 0 .. Byte - 1
IdData == [1 .. 12 -> Bytes]

-----------------------------------------------------------------------------
(* The layout of m_data, big-endian. *)

Low(n)    == n % Byte
Second(n) == (n \div Byte) % Byte
Third(n)  == (n \div (Byte * Byte)) % Byte
High(n)   == (n \div CounterModulus) % Byte

(* Faulty: the seconds in the host's byte order. *)
IdBytesLittleEndian(seconds, unique, c) ==
  << Low(seconds), Second(seconds), Third(seconds), High(seconds),
     unique[1], unique[2], unique[3], unique[4], unique[5],
     Third(c), Second(c), Low(c) >>

IdBytes(seconds, unique, c) ==
  << High(seconds), Third(seconds), Second(seconds), Low(seconds),
     unique[1], unique[2], unique[3], unique[4], unique[5],
     Third(c), Second(c), Low(c) >>

(* ObjectId::getTimestamp *)
Timestamp(data) ==
  data[1] * CounterModulus + data[2] * (Byte * Byte) + data[3] * Byte + data[4]

-----------------------------------------------------------------------------
(* The seeds are drawn when the library is loaded, before any thread runs. *)
Init ==
  /\ COUNTER \in [Processes -> Seeds]
  /\ PROCESS_UNIQUE \in [Processes -> ProcessUniques]
  /\ now = 0
  /\ pc = [t \in Threads |-> "idle"]
  /\ counter = [t \in Threads |-> 0]
  /\ drawn = [p \in Processes |-> 0]
  /\ ticket = [t \in Threads |-> 0]
  /\ issued = {}

(* (++COUNTER), an unsigned atomic increment *)
Incremented(n) == (n + 1) % CounterRange

(* Faulty: not reduced to three bytes; reduced by the mask 0xFFFFFF. *)
CounterPartWide(n)  == n
CounterPartShort(n) == n % (CounterModulus - 1)

(* (++COUNTER) % 16777216: the part of the counter an identifier shows *)
CounterPart(n) == n % CounterModulus

(* The constructor's first statement. *)
FetchCounter(t) ==
  LET p == Owner[t] IN
  /\ pc[t] = "idle"
  /\ drawn[p] < MaxDrawn
  /\ COUNTER' = [COUNTER EXCEPT ![p] = Incremented(@)]
  /\ counter' = [counter EXCEPT ![t] = CounterPart(Incremented(COUNTER[p]))]
  /\ drawn' = [drawn EXCEPT ![p] = @ + 1]
  /\ ticket' = [ticket EXCEPT ![t] = drawn[p] + 1]
  /\ pc' = [pc EXCEPT ![t] = "fetched"]
  /\ UNCHANGED <<PROCESS_UNIQUE, now, issued>>

(* What the constructor reads from the clock: seconds, as a v_uint32. *)
Seconds == now % SecondsModulus

(* Faulty: the counter is read again, when others may have incremented it. *)
FinishIdRereads(t) ==
  LET p == Owner[t] IN
  /\ pc[t] = "fetched"
  /\ issued' = issued \cup
       {[ process |-> p,
          ticket  |-> ticket[t],
          drawn   |-> drawn[p],
          data    |-> IdBytes(Seconds, PROCESS_UNIQUE[p], CounterPart(COUNTER[p])) ]}
  /\ pc' = [pc EXCEPT ![t] = "idle"]
  /\ UNCHANGED <<COUNTER, PROCESS_UNIQUE, now, counter, drawn, ticket>>

(* The rest of the constructor: the clock is its last shared read. *)
FinishId(t) ==
  LET p == Owner[t] IN
  /\ pc[t] = "fetched"
  /\ issued' = issued \cup
       {[ process |-> p,
          ticket  |-> ticket[t],
          drawn   |-> drawn[p],
          data    |-> IdBytes(Seconds, PROCESS_UNIQUE[p], counter[t]) ]}
  /\ pc' = [pc EXCEPT ![t] = "idle"]
  /\ UNCHANGED <<COUNTER, PROCESS_UNIQUE, now, counter, drawn, ticket>>

(* The environment: system_clock is not a steady clock. *)
Tick ==
  /\ now < MaxSeconds
  /\ now' = now + 1
  /\ UNCHANGED <<COUNTER, PROCESS_UNIQUE, pc, counter, drawn, ticket, issued>>

StepBack ==
  /\ ~ClockMonotone
  /\ now > 0
  /\ now' = now - 1
  /\ UNCHANGED <<COUNTER, PROCESS_UNIQUE, pc, counter, drawn, ticket, issued>>

Next ==
  \/ \E t \in Threads : FetchCounter(t)
  \/ \E t \in Threads : FinishId(t)
  \/ Tick
  \/ StepBack

Spec == Init /\ [][Next]_vars

-----------------------------------------------------------------------------
IssuedId == [ process : Processes, ticket : 1 .. MaxDrawn,
              drawn : 1 .. MaxDrawn, data : IdData ]

(* Every variable ranges over what the code can store there: COUNTER over  *)
(* the atomic word, the constructor's counter over 24 bits, an issued      *)
(* identifier over twelve bytes.                                           *)
TypeOK ==
  /\ COUNTER \in [Processes -> 0 .. CounterRange - 1]
  /\ PROCESS_UNIQUE \in [Processes -> ProcessUniques]
  /\ now \in 0 .. MaxSeconds
  /\ pc \in [Threads -> {"idle", "fetched"}]
  /\ counter \in [Threads -> 0 .. CounterModulus - 1]
  /\ drawn \in [Processes -> 0 .. MaxDrawn]
  /\ ticket \in [Threads -> 0 .. MaxDrawn]
  /\ issued \subseteq IssuedId

Near(a, b) == a.ticket - b.ticket \in 1 .. CounterModulus - 1

(* Two constructors of one process whose increments of COUNTER are fewer   *)
(* than 2^24 apart never make the same identifier, whatever the seed of    *)
(* the counter (the 64-bit word may wrap between them), however long a     *)
(* thread stalls between its two reads and wherever the clock is set.      *)
WindowUnique ==
  \A a, b \in issued :
    a.process = b.process /\ Near(a, b) => a.data # b.data

(* With a clock that is never set back, an identifier whose constructor    *)
(* returned before another's began carries no later timestamp, as          *)
(* getTimestamp reads it: sorting by timestamp respects the order of       *)
(* calls that do not overlap (while the clock fits in 32 bits).            *)
RealTimeOrder ==
  \A a, b \in issued :
    /\ ClockMonotone
    /\ MaxSeconds < SecondsModulus
    /\ a.process = b.process
    /\ a.drawn < b.ticket
    => Timestamp(a.data) <= Timestamp(b.data)

-----------------------------------------------------------------------------
(* The runs of the program in which no two processes drew the same five    *)
(* random bytes; nothing in the code excludes the others.                  *)
DistinctProcesses ==
  \A p, q \in Processes : p # q => PROCESS_UNIQUE[p] # PROCESS_UNIQUE[q]

DistinctInit == Init /\ DistinctProcesses

DistinctSpec == DistinctInit /\ [][Next]_vars

(* The refinement: an identifier answers the call that made its increment. *)
Assigned == { <<<<a.process, a.ticket>>, a.data>> : a \in issued }

Generator == INSTANCE UniqueIds
  WITH Calls    <- Processes \X (1 .. MaxDrawn),
       Ids      <- IdData,
       assigned <- Assigned

(* Processes with different random bytes, each drawing at most 2^24        *)
(* counter values (the run and the theorem take MaxDrawn <=                *)
(* CounterModulus), are together a generator of unique identifiers, at any *)
(* clock, any seeds and any rate of calls.                                 *)
ImplementsUniqueIds == Generator!Spec
=============================================================================
