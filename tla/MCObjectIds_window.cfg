\* One process, two threads, a clock that is never set back; one draw more
\* than the counter of an identifier has values, so that values do repeat,
\* and enough seconds to carry between the bytes of the timestamp.
SPECIFICATION Spec
CONSTANTS
  p1 = p1
  p2 = p2
  t1 = t1
  t2 = t2
  t3 = t3
  Byte = 2
  CounterRange = 16
  Seeds <- MCSeeds
  ProcessUniques <- OneUnique
  Processes = {p1}
  Threads = {t1, t2}
  Owner <- SharedOwner
  ClockMonotone = TRUE
  MaxDrawn = 9
  MaxSeconds = 2
INVARIANT TypeOK
INVARIANT WindowUnique
INVARIANT RealTimeOrder
CHECK_DEADLOCK FALSE
