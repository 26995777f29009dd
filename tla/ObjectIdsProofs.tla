--------------------------- MODULE ObjectIdsProofs ---------------------------
(***************************************************************************)
(* Proofs about ObjectIds, for every number of bytes' values, every seed,  *)
(* any processes and threads.                                              *)
(***************************************************************************)
EXTENDS ObjectIds, DataLemmas

LEMMA ModulusFacts ==
  /\ Byte \in Nat \ {0}
  /\ Byte * Byte \in Nat \ {0}
  /\ CounterModulus \in Nat \ {0} /\ CounterModulus = (Byte * Byte) * Byte
  /\ SecondsModulus \in Nat \ {0} /\ SecondsModulus = CounterModulus * Byte
<1>1. Byte * Byte \in Nat \ {0}
  BY ByteAssumption, Z3
<1>2. (Byte * Byte) * Byte \in Nat \ {0}
  BY <1>1, ByteAssumption, Z3
<1>3. ((Byte * Byte) * Byte) * Byte \in Nat \ {0}
  BY <1>2, ByteAssumption, Z3
<1> QED
  BY <1>1, <1>2, <1>3, ByteAssumption DEF CounterModulus, SecondsModulus

-----------------------------------------------------------------------------
(* What the bytes of an identifier say. *)

(* The three counter bytes, read as getTimestamp reads the other four. *)
CounterOf(data) == data[10] * (Byte * Byte) + data[11] * Byte + data[12]

LEMMA DigitsAreBytes ==
  ASSUME NEW n \in Nat
  PROVE  /\ Low(n) \in Bytes /\ Second(n) \in Bytes
         /\ Third(n) \in Bytes /\ High(n) \in Bytes
<1>1. /\ n \div Byte \in Int
      /\ n \div (Byte * Byte) \in Int
      /\ n \div CounterModulus \in Int
  BY ModulusFacts, DivMod
<1> QED
  BY <1>1, ModulusFacts, DivMod DEF Low, Second, Third, High, Bytes

LEMMA IdBytesType ==
  ASSUME NEW s \in Nat, NEW c \in Nat, NEW u \in ProcessUniques
  PROVE  IdBytes(s, u, c) \in IdData
<1>1. u \in [1 .. 5 -> Bytes]
  BY ProcessAssumption DEF Bytes
<1> QED
  BY <1>1, DigitsAreBytes DEF IdBytes, IdData

LEMMA LowDigits ==
  ASSUME NEW n \in Nat
  PROVE  n = (Byte * Byte) * (n \div (Byte * Byte)) + Byte * Second(n) + Low(n)
  BY ModulusFacts, DivDiv DEF Second, Low

LEMMA CounterDecodes ==
  ASSUME NEW s, NEW u, NEW c \in 0 .. CounterModulus - 1
  PROVE  CounterOf(IdBytes(s, u, c)) = c
<1>1. c \div (Byte * Byte) \in 0 .. Byte - 1
  BY ModulusFacts, DivSmall
<1>2. Third(c) = c \div (Byte * Byte)
  BY <1>1, ModulusFacts, ModSmall DEF Third
<1>3. Third(c) \in Int /\ Second(c) \in Int /\ Low(c) \in Int
  BY DigitsAreBytes DEF Bytes
<1>4. CounterOf(IdBytes(s, u, c))
        = Third(c) * (Byte * Byte) + Second(c) * Byte + Low(c)
  BY DEF CounterOf, IdBytes
<1> QED
  BY <1>2, <1>3, <1>4, LowDigits, ModulusFacts, Z3

LEMMA TimestampDecodes ==
  ASSUME NEW s \in 0 .. SecondsModulus - 1, NEW u, NEW c
  PROVE  Timestamp(IdBytes(s, u, c)) = s
<1> DEFINE q == s \div (Byte * Byte)
<1>1. q \in Nat
  BY ModulusFacts, DivNat
<1>2. s \in Nat /\ s < CounterModulus * Byte
  BY ModulusFacts
<1>3. s \div CounterModulus \in 0 .. Byte - 1
  BY <1>2, ModulusFacts, DivSmall
<1>4. q \div Byte = s \div ((Byte * Byte) * Byte)
  BY <1>2, ModulusFacts, DivDiv
<1>5. q = Byte * (q \div Byte) + (q % Byte)
  BY <1>1, ModulusFacts, DivMod, SMTT(30)
<1>6. High(s) = s \div CounterModulus
  BY <1>3, ModulusFacts, ModSmall DEF High
<1>7. q = Byte * High(s) + Third(s)
  BY <1>4, <1>5, <1>6, ModulusFacts DEF Third
<1>8. /\ High(s) \in Int /\ Third(s) \in Int
      /\ Second(s) \in Int /\ Low(s) \in Int
  BY DigitsAreBytes DEF Bytes
<1>9. s = (Byte * Byte) * q + Byte * Second(s) + Low(s)
  BY LowDigits
<1> HIDE DEF q
<1>10. (Byte * Byte) * q = CounterModulus * High(s) + (Byte * Byte) * Third(s)
  BY <1>7, <1>8, ModulusFacts, Z3
<1>11. Timestamp(IdBytes(s, u, c))
        = High(s) * CounterModulus + Third(s) * (Byte * Byte)
            + Second(s) * Byte + Low(s)
  BY DEF Timestamp, IdBytes
<1> QED
  BY <1>8, <1>9, <1>10, <1>11, ModulusFacts, Z3

-----------------------------------------------------------------------------
(* Arithmetic of the counter part. *)

(* The two bounds of a remainder. *)
LEMMA CounterPartRange ==
  ASSUME NEW i \in Int
  PROVE  CounterPart(i) \in 0 .. CounterModulus - 1
  BY ModulusFacts, DivMod DEF CounterPart

(* Adding the same number to two words keeps equal parts equal. *)
LEMMA CounterPartShift ==
  ASSUME NEW i \in Int, NEW j \in Int, NEW x \in Int, NEW y \in Int,
         x - i = y - j, CounterPart(i) = CounterPart(j)
  PROVE  CounterPart(x) = CounterPart(y)
<1> DEFINE m == CounterModulus
           p == i \div m
           q == j \div m
           r == i % m
           s == y % m
           t == y \div m
           u == t + (p - q)
<1>1. m \in Nat \ {0}
  BY ModulusFacts
<1>2. /\ p \in Int /\ q \in Int /\ t \in Int
      /\ r \in 0 .. m - 1 /\ s \in 0 .. m - 1
      /\ i = m * p + r /\ j = m * q + r
      /\ y = m * t + s
  <2> HIDE DEF m
  <2> QED
    BY <1>1, DivMod DEF CounterPart, m
<1> HIDE DEF m, p, q, r, s, t
<1>3. u \in Int /\ x = m * u + s
  BY <1>1, <1>2, Z3
<1> HIDE DEF u
<1>4. x % m = s
  BY <1>1, <1>2, <1>3, ModUnique
<1> QED
  BY <1>4 DEF s, m, CounterPart

(* Words less than 2^24 apart show different parts. *)
LEMMA CounterPartsDiffer ==
  ASSUME NEW i \in Int, NEW j \in Int, i - j \in 1 .. CounterModulus - 1
  PROVE  CounterPart(i) # CounterPart(j)
<1> SUFFICES ASSUME CounterPart(i) = CounterPart(j) PROVE FALSE
  OBVIOUS
<1> DEFINE m == CounterModulus
           p == i \div m
           q == j \div m
           r == i % m
<1>1. m \in Nat \ {0}
  BY ModulusFacts
<1>2. /\ p \in Int /\ q \in Int /\ r \in 0 .. m - 1
      /\ i = m * p + r /\ j = m * q + r
  <2> HIDE DEF m
  <2> QED
    BY <1>1, DivMod DEF CounterPart, m
<1> HIDE DEF m, p, q, r
<1>3. p - q \in Int /\ m * (p - q) = i - j
  BY <1>1, <1>2, Z3
<1>4. i - j \in 1 .. m - 1
  BY DEF m
<1>5. ~(p - q >= 1)
  BY <1>1, <1>3, <1>4, MulAtLeast
<1>6. ~(p - q <= 0)
  <2> SUFFICES ASSUME p - q <= 0 PROVE FALSE
    OBVIOUS
  <2>1. m * (p - q) <= 0
    BY <1>1, <1>3, Z3
  <2> QED
    BY <1>1, <1>3, <1>4, <2>1
<1> QED
  BY <1>3, <1>5, <1>6

(* The word may wrap: its part goes on as if it had not. *)
LEMMA CounterPartIncremented ==
  ASSUME NEW i \in 0 .. CounterRange - 1
  PROVE  /\ Incremented(i) \in 0 .. CounterRange - 1
         /\ CounterPart(Incremented(i)) = CounterPart(i + 1)
<1> DEFINE k == i + 1
<1>1. /\ k \in Int /\ CounterRange \in Nat \ {0}
      /\ CounterRange % CounterModulus = 0 /\ CounterModulus \in Nat \ {0}
  BY CounterAssumption, ModulusFacts
<1> HIDE DEF k
<1>2. k % CounterRange \in 0 .. CounterRange - 1
  BY <1>1, DivMod
<1>3. (k % CounterRange) % CounterModulus = k % CounterModulus
  BY <1>1, ModOfMod
<1> QED
  BY <1>2, <1>3 DEF Incremented, CounterPart, k

-----------------------------------------------------------------------------
(* The inductive invariant. *)

(* A ticket is a number already drawn. *)
TicketsDrawn ==
  /\ \A t \in Threads : pc[t] = "fetched" => ticket[t] \in 1 .. drawn[Owner[t]]
  /\ \A a \in issued : a.ticket <= a.drawn /\ a.drawn <= drawn[a.process]

(* No ticket is held twice. *)
TicketsDistinct ==
  /\ \A t, u \in Threads :
       /\ pc[t] = "fetched" /\ pc[u] = "fetched"
       /\ t # u /\ Owner[t] = Owner[u]
       => ticket[t] # ticket[u]
  /\ \A t \in Threads, a \in issued :
       pc[t] = "fetched" /\ a.process = Owner[t] => a.ticket # ticket[t]

(* A counter value drawn with the n-th increment is COUNTER less the       *)
(* increments made since, modulo 2^24.  The seed does not occur: the two   *)
(* sides keep step when COUNTER wraps.                                     *)
Tracks(word, d, c, n) == CounterPart(c + (d - n)) = CounterPart(word)

CountersTrack ==
  /\ \A t \in Threads :
       pc[t] = "fetched" =>
         Tracks(COUNTER[Owner[t]], drawn[Owner[t]], counter[t], ticket[t])
  /\ \A a \in issued :
       Tracks(COUNTER[a.process], drawn[a.process], CounterOf(a.data), a.ticket)

(* An identifier shows the bytes of its process. *)
ShowsProcess ==
  \A a \in issued : \A i \in 1 .. 5 :
    a.data[4 + i] = PROCESS_UNIQUE[a.process][i]

(* Timestamps lie in the past of a clock that is never set back. *)
StampsPast ==
  ClockMonotone /\ MaxSeconds < SecondsModulus =>
    \A a \in issued : Timestamp(a.data) <= now

Inv ==
  /\ TypeOK
  /\ TicketsDrawn
  /\ TicketsDistinct
  /\ CountersTrack
  /\ ShowsProcess
  /\ StampsPast

-----------------------------------------------------------------------------
LEMMA InitInv == Init => Inv
<1> SUFFICES ASSUME Init PROVE Inv
  OBVIOUS
<1> USE DEF Init
<1>1. TypeOK
  <2>1. COUNTER \in [Processes -> 0 .. CounterRange - 1]
    BY CounterAssumption
  <2>2. 0 \in 0 .. CounterModulus - 1 /\ 0 \in 0 .. MaxDrawn /\ 0 \in 0 .. MaxSeconds
    BY ModulusFacts, BoundAssumption
  <2> QED
    BY <2>1, <2>2 DEF TypeOK
<1>2. TicketsDrawn /\ TicketsDistinct /\ CountersTrack
  BY DEF TicketsDrawn, TicketsDistinct, CountersTrack
<1>3. ShowsProcess /\ StampsPast
  BY DEF ShowsProcess, StampsPast
<1> QED
  BY <1>1, <1>2, <1>3 DEF Inv

LEMMA FetchInv ==
  ASSUME Inv, NEW t \in Threads, FetchCounter(t)
  PROVE  Inv'
<1> DEFINE p == Owner[t]
           n == Incremented(COUNTER[p])
<1>1. p \in Processes
  BY ProcessAssumption
<1>2. /\ COUNTER[p] \in 0 .. CounterRange - 1
      /\ drawn[p] \in 0 .. MaxDrawn /\ drawn[p] < MaxDrawn
      /\ MaxDrawn \in Nat
  BY <1>1, BoundAssumption DEF Inv, TypeOK, FetchCounter
<1>3. /\ n \in 0 .. CounterRange - 1
      /\ CounterPart(n) = CounterPart(COUNTER[p] + 1)
  BY <1>2, CounterPartIncremented
<1>4. CounterPart(n) \in 0 .. CounterModulus - 1
  <2>1. n \in Int
    BY <1>3, CounterAssumption
  <2> QED
    BY <2>1, CounterPartRange
<1>5. /\ COUNTER' = [COUNTER EXCEPT ![p] = n]
      /\ counter' = [counter EXCEPT ![t] = CounterPart(n)]
      /\ drawn' = [drawn EXCEPT ![p] = @ + 1]
      /\ ticket' = [ticket EXCEPT ![t] = drawn[p] + 1]
      /\ pc' = [pc EXCEPT ![t] = "fetched"]
      /\ UNCHANGED <<PROCESS_UNIQUE, now, issued>>
  <2>1. Incremented(COUNTER[p]) = n
    OBVIOUS
  <2> QED
    BY <1>1, <2>1 DEF FetchCounter, Inv, TypeOK
<1> HIDE DEF n
<1>7. TypeOK'
  BY <1>1, <1>2, <1>3, <1>4, <1>5 DEF Inv, TypeOK
<1>8. TicketsDrawn'
  BY <1>1, <1>2, <1>5, ProcessAssumption DEF Inv, TypeOK, TicketsDrawn, IssuedId
<1>9. TicketsDistinct'
  BY <1>1, <1>2, <1>5, ProcessAssumption
     DEF Inv, TypeOK, TicketsDrawn, TicketsDistinct, IssuedId
<1>10. COUNTER'[p] = n /\ drawn'[p] = drawn[p] + 1
  BY <1>1, <1>5 DEF Inv, TypeOK
<1>11. ASSUME NEW c \in Int, NEW i \in Int, Tracks(COUNTER[p], drawn[p], c, i)
       PROVE  Tracks(COUNTER'[p], drawn'[p], c, i)
  <2> DEFINE j == c + (drawn[p] - i)
             x == c + (drawn'[p] - i)
             k == COUNTER[p] + 1
  <2>1. /\ j \in Int /\ x \in Int /\ COUNTER[p] \in Int /\ k \in Int
        /\ x - j = k - COUNTER[p]
    BY <1>2, <1>10, CounterAssumption
  <2>2. CounterPart(j) = CounterPart(COUNTER[p])
    BY <1>11 DEF Tracks
  <2>3. CounterPart(x) = CounterPart(k)
    <3> HIDE DEF j, x, k
    <3> QED
      BY <2>1, <2>2, CounterPartShift
  <2> QED
    BY <1>3, <1>10, <2>3 DEF Tracks
<1>12. Tracks(COUNTER'[p], drawn'[p], CounterPart(n), drawn[p] + 1)
  <2>1. CounterPart(n) + (drawn'[p] - (drawn[p] + 1)) = CounterPart(n)
    BY <1>2, <1>4, <1>10
  <2>2. CounterPart(CounterPart(n)) = CounterPart(n)
    BY <1>4, ModulusFacts, ModSmall DEF CounterPart
  <2> QED
    BY <1>10, <2>1, <2>2 DEF Tracks
<1>13. CountersTrack'
  <2>1. ASSUME NEW u \in Threads, pc'[u] = "fetched"
        PROVE  Tracks(COUNTER'[Owner[u]], drawn'[Owner[u]], counter'[u], ticket'[u])
    <3>1. CASE u = t
      BY <3>1, <1>5, <1>12 DEF Inv, TypeOK
    <3>2. CASE u # t
      <4>1. /\ pc[u] = "fetched" /\ counter'[u] = counter[u]
            /\ ticket'[u] = ticket[u]
            /\ counter[u] \in Int /\ ticket[u] \in Int
            /\ Tracks(COUNTER[Owner[u]], drawn[Owner[u]], counter[u], ticket[u])
        BY <2>1, <3>2, <1>5, ModulusFacts DEF Inv, TypeOK, CountersTrack
      <4>2. CASE Owner[u] = p
        BY <4>1, <4>2, <1>11
      <4>3. CASE Owner[u] # p
        BY <4>1, <4>3, <1>5, ProcessAssumption DEF Inv, TypeOK
      <4> QED
        BY <4>2, <4>3
    <3> QED
      BY <3>1, <3>2
  <2>2. ASSUME NEW a \in issued
        PROVE  Tracks(COUNTER'[a.process], drawn'[a.process],
                      CounterOf(a.data), a.ticket)
    <3>1. /\ a.process \in Processes /\ a.ticket \in Int
          /\ CounterOf(a.data) \in Int
          /\ Tracks(COUNTER[a.process], drawn[a.process],
                    CounterOf(a.data), a.ticket)
      <4>1. a \in IssuedId
        BY DEF Inv, TypeOK
      <4>2. /\ a.data[10] \in Int /\ a.data[11] \in Int
            /\ a.data[12] \in Int /\ a.ticket \in Int
        BY <4>1 DEF IssuedId, IdData, Bytes
      <4>3. CounterOf(a.data) \in Int
        BY <4>2, ModulusFacts, Z3 DEF CounterOf
      <4> QED
        BY <4>1, <4>2, <4>3 DEF Inv, CountersTrack, IssuedId
    <3>2. CASE a.process = p
      BY <3>1, <3>2, <1>11
    <3>3. CASE a.process # p
      BY <3>1, <3>3, <1>5 DEF Inv, TypeOK
    <3> QED
      BY <3>2, <3>3
  <2> QED
    BY <1>5, <2>1, <2>2 DEF CountersTrack, CounterOf
<1>14. ShowsProcess' /\ StampsPast'
  BY <1>5 DEF Inv, ShowsProcess, StampsPast, Timestamp
<1> QED
  BY <1>7, <1>8, <1>9, <1>13, <1>14 DEF Inv

LEMMA FinishInv ==
  ASSUME Inv, NEW t \in Threads, FinishId(t)
  PROVE  Inv'
<1> DEFINE p == Owner[t]
           d == IdBytes(Seconds, PROCESS_UNIQUE[p], counter[t])
           b == [process |-> p, ticket |-> ticket[t], drawn |-> drawn[p], data |-> d]
<1>1. /\ p \in Processes
      /\ PROCESS_UNIQUE[p] \in ProcessUniques
      /\ counter[t] \in 0 .. CounterModulus - 1
      /\ drawn[p] \in 0 .. MaxDrawn
      /\ ticket[t] \in 1 .. drawn[p]
      /\ now \in Nat /\ MaxDrawn \in Nat
  <2>1. pc[t] = "fetched"
    BY DEF FinishId
  <2>2. p \in Processes /\ MaxDrawn \in Nat /\ MaxSeconds \in Nat
    BY ProcessAssumption, BoundAssumption
  <2> QED
    BY <2>1, <2>2 DEF Inv, TypeOK, TicketsDrawn
<1>2. /\ issued' = issued \cup {b}
      /\ pc' = [pc EXCEPT ![t] = "idle"]
      /\ UNCHANGED <<COUNTER, PROCESS_UNIQUE, now, counter, drawn, ticket>>
  BY DEF FinishId
<1>3. Seconds \in 0 .. SecondsModulus - 1
  <2>1. SecondsModulus \in Nat \ {0} /\ now \in Int
    BY <1>1, ModulusFacts
  <2> QED
    BY <2>1, DivMod DEF Seconds
<1>4. d \in IdData
  <2>1. Seconds \in Nat /\ counter[t] \in Nat
    BY <1>1, <1>3, ModulusFacts
  <2> QED
    BY <1>1, <2>1, IdBytesType
<1>5. CounterOf(d) = counter[t]
  BY <1>1, CounterDecodes
<1>6. Timestamp(d) = Seconds
  BY <1>3, TimestampDecodes
<1>7. \A i \in 1 .. 5 : d[4 + i] = PROCESS_UNIQUE[p][i]
  BY DEF IdBytes
<1> HIDE DEF d
<1>8. b \in IssuedId
  BY <1>1, <1>4 DEF IssuedId
<1>9. TypeOK'
  BY <1>2, <1>8 DEF Inv, TypeOK
<1>10. TicketsDrawn'
  BY <1>1, <1>2 DEF Inv, TypeOK, TicketsDrawn
<1>11. TicketsDistinct'
  BY <1>1, <1>2 DEF Inv, TypeOK, TicketsDistinct, FinishId
<1>12. CountersTrack'
  <2>1. Tracks(COUNTER[p], drawn[p], CounterOf(d), ticket[t])
    BY <1>5 DEF Inv, CountersTrack, FinishId
  <2>2. \A a \in issued' :
          Tracks(COUNTER[a.process], drawn[a.process], CounterOf(a.data), a.ticket)
    BY <1>2, <2>1 DEF Inv, CountersTrack
  <2>3. \A u \in Threads : pc'[u] = "fetched" =>
          Tracks(COUNTER[Owner[u]], drawn[Owner[u]], counter[u], ticket[u])
    BY <1>2 DEF Inv, TypeOK, CountersTrack
  <2> QED
    BY <1>2, <2>2, <2>3 DEF CountersTrack, CounterOf
<1>13. ShowsProcess'
  BY <1>2, <1>7 DEF Inv, ShowsProcess
<1>14. StampsPast'
  <2> SUFFICES ASSUME ClockMonotone, MaxSeconds < SecondsModulus
               PROVE  \A a \in issued' : Timestamp(a.data) <= now
    BY <1>2 DEF StampsPast, Timestamp
  <2>1. now \in 0 .. SecondsModulus - 1 /\ SecondsModulus \in Nat \ {0}
    BY ModulusFacts, BoundAssumption DEF Inv, TypeOK
  <2>2. Seconds = now
    BY <2>1, ModSmall DEF Seconds
  <2> QED
    BY <1>1, <1>2, <1>6, <2>2 DEF Inv, StampsPast
<1> QED
  BY <1>9, <1>10, <1>11, <1>12, <1>13, <1>14 DEF Inv

LEMMA ClockInv ==
  ASSUME Inv, Tick \/ StepBack
  PROVE  Inv'
<1>1. UNCHANGED <<COUNTER, PROCESS_UNIQUE, pc, counter, drawn, ticket, issued>>
  BY DEF Tick, StepBack
<1>2. now' \in 0 .. MaxSeconds /\ (ClockMonotone => now <= now')
  BY BoundAssumption DEF Inv, TypeOK, Tick, StepBack
<1>3. TypeOK'
  BY <1>1, <1>2 DEF Inv, TypeOK
<1>4. TicketsDrawn' /\ TicketsDistinct' /\ CountersTrack' /\ ShowsProcess'
  BY <1>1 DEF Inv, TicketsDrawn, TicketsDistinct, CountersTrack, CounterOf,
              ShowsProcess
<1>5. StampsPast'
  <2> SUFFICES ASSUME ClockMonotone, MaxSeconds < SecondsModulus,
                      NEW a \in issued
               PROVE  Timestamp(a.data) <= now'
    BY <1>1 DEF StampsPast, Timestamp
  <2>1. Timestamp(a.data) <= now /\ now <= now' /\ now \in Int /\ now' \in Int
    BY <1>2 DEF Inv, StampsPast, TypeOK
  <2>2. Timestamp(a.data) \in Int
    <3>1. /\ a.data[1] \in Int /\ a.data[2] \in Int
          /\ a.data[3] \in Int /\ a.data[4] \in Int
      BY DEF Inv, TypeOK, IssuedId, IdData, Bytes
    <3> QED
      BY <3>1, ModulusFacts, Z3 DEF Timestamp
  <2> QED
    BY <2>1, <2>2
<1> QED
  BY <1>3, <1>4, <1>5 DEF Inv

LEMMA NextInv == Inv /\ [Next]_vars => Inv'
<1> SUFFICES ASSUME Inv, [Next]_vars PROVE Inv'
  OBVIOUS
<1>1. ASSUME NEW t \in Threads, FetchCounter(t) PROVE Inv'
  BY <1>1, FetchInv
<1>2. ASSUME NEW t \in Threads, FinishId(t) PROVE Inv'
  BY <1>2, FinishInv
<1>3. CASE Tick \/ StepBack
  BY <1>3, ClockInv
<1>4. CASE UNCHANGED vars
  BY <1>4 DEF vars, Inv, TypeOK, TicketsDrawn, TicketsDistinct, CountersTrack,
              CounterOf, ShowsProcess, StampsPast, Timestamp
<1> QED
  BY <1>1, <1>2, <1>3, <1>4 DEF Next

LEMMA SpecInv == Spec => []Inv
<1> QED
  BY InitInv, NextInv, PTL DEF Spec

-----------------------------------------------------------------------------
(* Theorems.                                                               *)

(* Every reachable state is well typed: COUNTER stays in its word, the     *)
(* constructor's counter in 24 bits, an identifier in twelve bytes.        *)
THEOREM TypeCorrect == Spec => []TypeOK
<1>1. Inv => TypeOK
  BY DEF Inv
<1> QED
  BY <1>1, SpecInv, PTL

(* Constructors of one process that increment COUNTER fewer than 2^24      *)
(* apart make different identifiers, wherever the seed, the wrap of the    *)
(* 64-bit word, a stalled thread or the clock puts them.                   *)
THEOREM WindowUniqueness == Spec => []WindowUnique
<1>1. Inv => WindowUnique
  <2> SUFFICES ASSUME Inv, NEW a \in issued, NEW b \in issued,
                      a.process = b.process, Near(a, b), a.data = b.data
               PROVE  FALSE
    BY DEF WindowUnique
  <2> DEFINE d == drawn[a.process]
             c == CounterOf(a.data)
             i == c + (d - b.ticket)
             j == c + (d - a.ticket)
  <2>1. /\ a \in IssuedId /\ b \in IssuedId
        /\ d \in 0 .. MaxDrawn /\ MaxDrawn \in Nat
    BY BoundAssumption DEF Inv, TypeOK, IssuedId
  <2>2. /\ a.ticket \in Int /\ b.ticket \in Int /\ d \in Int
        /\ a.ticket - b.ticket \in 1 .. CounterModulus - 1
    BY <2>1 DEF IssuedId, Near
  <2>3. c \in Int
    <3>1. a.data[10] \in Int /\ a.data[11] \in Int /\ a.data[12] \in Int
      BY <2>1 DEF IssuedId, IdData, Bytes
    <3> QED
      BY <3>1, ModulusFacts, Z3 DEF CounterOf
  <2>4. CounterPart(i) = CounterPart(j)
    BY DEF Inv, CountersTrack, Tracks
  <2>5. i \in Int /\ j \in Int /\ i - j = a.ticket - b.ticket
    <3> HIDE DEF c, d
    <3> QED
      BY <2>2, <2>3
  <2> HIDE DEF i, j
  <2> QED
    BY <2>2, <2>4, <2>5, CounterPartsDiffer
<1> QED
  BY <1>1, SpecInv, PTL

LEMMA IssuedOnlyByFinish ==
  ASSUME Inv, [Next]_vars
  PROVE  issued' = issued \/ \E t \in Threads : FinishId(t)
<1>1. CASE UNCHANGED vars
  BY <1>1 DEF vars
<1>2. CASE Next
  BY <1>2 DEF Next, FetchCounter, Tick, StepBack
<1> QED
  BY <1>1, <1>2

(* While the clock is never set back and fits in 32 bits, timestamps       *)
(* respect the order of constructor calls that do not overlap.             *)
THEOREM TimestampsOrdered == Spec => []RealTimeOrder
<1>1. Init => RealTimeOrder
  BY DEF Init, RealTimeOrder
<1>2. ASSUME Inv, RealTimeOrder, [Next]_vars
      PROVE  RealTimeOrder'
  <2>1. CASE issued' = issued
    BY <1>2, <2>1 DEF RealTimeOrder, Timestamp
  <2>2. ASSUME NEW t \in Threads, FinishId(t)
        PROVE  RealTimeOrder'
    <3> DEFINE d == IdBytes(Seconds, PROCESS_UNIQUE[Owner[t]], counter[t])
               e == [process |-> Owner[t], ticket |-> ticket[t],
                     drawn |-> drawn[Owner[t]], data |-> d]
    <3>1. issued' = issued \cup {e} /\ pc[t] = "fetched"
      BY <2>2 DEF FinishId
    <3> SUFFICES ASSUME NEW a \in issued', NEW b \in issued', ClockMonotone,
                        MaxSeconds < SecondsModulus,
                        a.process = b.process, a.drawn < b.ticket
                 PROVE  Timestamp(a.data) <= Timestamp(b.data)
      BY DEF RealTimeOrder, Timestamp
    <3>2. /\ now \in 0 .. SecondsModulus - 1 /\ SecondsModulus \in Nat \ {0}
          /\ now \in Int
      BY <1>2, ModulusFacts, BoundAssumption DEF Inv, TypeOK
    <3>3. Timestamp(d) = now
      <4>1. Seconds = now
        BY <3>2, ModSmall DEF Seconds
      <4> QED
        BY <3>2, <4>1, TimestampDecodes
    <3> HIDE DEF d
    <3>4. CASE a \in issued /\ b \in issued
      BY <1>2, <3>4 DEF RealTimeOrder
    <3>5. CASE a \in issued /\ b = e
      BY <1>2, <3>3, <3>5 DEF Inv, StampsPast
    <3>6. CASE a = e /\ b \in issued
      <4>1. b \in IssuedId /\ drawn \in [Processes -> 0 .. MaxDrawn]
        BY <1>2, <3>6 DEF Inv, TypeOK
      <4>2. /\ b.ticket \in Int /\ b.drawn \in Int
            /\ drawn[b.process] \in Int
        BY <4>1, BoundAssumption DEF IssuedId
      <4>3. b.ticket <= b.drawn /\ b.drawn <= drawn[b.process]
        BY <1>2, <3>6 DEF Inv, TicketsDrawn
      <4>4. drawn[b.process] < b.ticket
        BY <3>6
      <4> QED
        BY <4>2, <4>3, <4>4
    <3>7. CASE a = e /\ b = e
      BY <3>2, <3>3, <3>7
    <3> QED
      BY <3>1, <3>4, <3>5, <3>6, <3>7
  <2> QED
    BY <1>2, <2>1, <2>2, IssuedOnlyByFinish
<1> QED
  BY <1>1, <1>2, SpecInv, PTL DEF Spec

(* A finished constructor's identifier differs from every earlier one,     *)
(* as long as no process drew more values than the counter part has.       *)
LEMMA FreshData ==
  ASSUME Inv, DistinctProcesses, MaxDrawn <= CounterModulus,
         NEW t \in Threads, pc[t] = "fetched", NEW a \in issued
  PROVE  a.data # IdBytes(Seconds, PROCESS_UNIQUE[Owner[t]], counter[t])
<1> DEFINE p == Owner[t]
           d == IdBytes(Seconds, PROCESS_UNIQUE[p], counter[t])
<1>1. /\ p \in Processes /\ a \in IssuedId /\ MaxDrawn \in Nat
      /\ CounterModulus \in Nat
  BY ProcessAssumption, BoundAssumption, ModulusFacts DEF Inv, TypeOK
<1> SUFFICES ASSUME a.data = d PROVE FALSE
  OBVIOUS
<1>2. CASE a.process # p
  <2>1. /\ PROCESS_UNIQUE[p] \in [1 .. 5 -> 0 .. Byte - 1]
        /\ PROCESS_UNIQUE[a.process] \in [1 .. 5 -> 0 .. Byte - 1]
    BY <1>1, ProcessAssumption DEF Inv, TypeOK, IssuedId
  <2>2. \A i \in 1 .. 5 : d[4 + i] = PROCESS_UNIQUE[p][i]
    BY DEF IdBytes
  <2>3. \A i \in 1 .. 5 : a.data[4 + i] = PROCESS_UNIQUE[a.process][i]
    BY DEF Inv, ShowsProcess
  <2> HIDE DEF d
  <2>4. PROCESS_UNIQUE[p] = PROCESS_UNIQUE[a.process]
    BY <2>1, <2>2, <2>3
  <2> QED
    BY <1>1, <1>2, <2>4 DEF DistinctProcesses, IssuedId
<1>3. CASE a.process = p
  <2> DEFINE n == drawn[p]
             k == ticket[t]
             c == counter[t]
             i == c + (n - k)
             j == c + (n - a.ticket)
  <2>1. /\ c \in 0 .. CounterModulus - 1
        /\ n \in 0 .. MaxDrawn /\ k \in 1 .. n /\ a.ticket \in 1 .. MaxDrawn
    BY <1>1 DEF Inv, TypeOK, TicketsDrawn, IssuedId
  <2>2. k # a.ticket
    BY <1>3 DEF Inv, TicketsDistinct
  <2>3. CounterOf(a.data) = c
    BY <2>1, CounterDecodes
  <2>4. CounterPart(i) = CounterPart(j)
    BY <1>3, <2>3 DEF Inv, CountersTrack, Tracks
  <2>5. /\ i \in Int /\ j \in Int
        /\ \/ i - j \in 1 .. CounterModulus - 1
           \/ j - i \in 1 .. CounterModulus - 1
    <3> HIDE DEF n, k, c
    <3> QED
      BY <1>1, <2>1, <2>2
  <2> HIDE DEF i, j
  <2> QED
    BY <2>4, <2>5, CounterPartsDiffer
<1> QED
  BY <1>2, <1>3

(* The refinement: processes with different random bytes, none of which    *)
(* draws more than 2^24 values, are together a generator of unique         *)
(* identifiers.                                                            *)
THEOREM UniqueGenerator ==
  ASSUME MaxDrawn <= CounterModulus
  PROVE  DistinctSpec => ImplementsUniqueIds
<1>1. Init => Generator!Init
  BY DEF Init, Generator!Init, Assigned
<1>2. ASSUME Inv, DistinctProcesses, [Next]_vars
      PROVE  [Generator!Next]_Assigned
  <2>1. CASE issued' = issued
    BY <2>1 DEF Assigned
  <2>2. ASSUME NEW t \in Threads, FinishId(t)
        PROVE  Generator!Next
    <3> DEFINE p == Owner[t]
               d == IdBytes(Seconds, PROCESS_UNIQUE[p], counter[t])
               c == <<p, ticket[t]>>
    <3>1. /\ pc[t] = "fetched"
          /\ issued' = issued \cup
               {[process |-> p, ticket |-> ticket[t], drawn |-> drawn[p],
                 data |-> d]}
      BY <2>2 DEF FinishId
    <3>2. c \in Processes \X (1 .. MaxDrawn)
      <4>1. /\ p \in Processes /\ ticket[t] \in 1 .. drawn[p]
            /\ drawn[p] \in 0 .. MaxDrawn /\ MaxDrawn \in Nat
        BY <1>2, <3>1, ProcessAssumption, BoundAssumption
           DEF Inv, TypeOK, TicketsDrawn
      <4> QED
        BY <4>1
    <3>3. d \in IdData
      <4>1. /\ now \in Int /\ SecondsModulus \in Nat \ {0}
            /\ CounterModulus \in Nat
        BY <1>2, ModulusFacts, BoundAssumption DEF Inv, TypeOK
      <4>2. Seconds \in Nat
        BY <4>1, DivMod DEF Seconds
      <4>3. counter[t] \in Nat /\ PROCESS_UNIQUE[p] \in ProcessUniques
        BY <1>2, <4>1, ProcessAssumption DEF Inv, TypeOK
      <4> QED
        BY <4>2, <4>3, IdBytesType
    <3>4. \A a \in issued : a.data # d
      BY <1>2, <3>1, FreshData
    <3> HIDE DEF d
    <3>5. \A x \in Assigned : x[1] # c /\ x[2] # d
      BY <1>2, <3>1, <3>4 DEF Assigned, Inv, TicketsDistinct
    <3>6. Assigned' = Assigned \cup {<<c, d>>}
      <4> DEFINE e == [process |-> p, ticket |-> ticket[t],
                       drawn |-> drawn[p], data |-> d]
                 F(a) == <<<<a.process, a.ticket>>, a.data>>
      <4>1. F(e) = <<c, d>> /\ issued' = issued \cup {e}
        BY <3>1
      <4>2. Assigned = {F(a) : a \in issued} /\ Assigned' = {F(a) : a \in issued'}
        BY DEF Assigned
      <4> HIDE DEF e, F, c
      <4> QED
        BY <4>1, <4>2
    <3>7. Generator!Issue(c, d)
      BY <3>2, <3>3, <3>5, <3>6 DEF Generator!Issue
    <3>8. <<c, d>> \in Assigned' /\ <<c, d>>[1] = c /\ <<c, d>>[2] = d
      BY <3>6
    <3> HIDE DEF c
    <3> QED
      BY <3>7, <3>8, Zenon DEF Generator!Next
  <2> QED
    BY <1>2, <2>1, <2>2, IssuedOnlyByFinish
<1>3. ASSUME Inv, DistinctProcesses, [Next]_vars
      PROVE  DistinctProcesses'
  BY <1>3 DEF Next, vars, FetchCounter, FinishId, Tick, StepBack, DistinctProcesses
<1>4. Init /\ DistinctProcesses /\ [][Next]_vars => []DistinctProcesses
  <2>1. Init /\ [][Next]_vars => []Inv
    BY InitInv, NextInv, PTL
  <2> QED
    BY <1>3, <2>1, PTL
<1> QED
  BY <1>1, <1>2, <1>4, InitInv, NextInv, PTL
     DEF DistinctSpec, DistinctInit, ImplementsUniqueIds, Generator!Spec
=============================================================================
