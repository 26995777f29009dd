\* Two processes, with different random bytes; no
\* process draws more values than the counter of an identifier has.
SPECIFICATION DistinctSpec
CONSTANTS
  p1 = p1
  p2 = p2
  t1 = t1
  t2 = t2
  t3 = t3
  Byte = 2
  CounterRange = 16
  Seeds <- MCSeeds
  ProcessUniques <- MCProcessUniques
  Processes = {p1, p2}
  Threads = {t1, t2, t3}
  Owner <- MixedOwner
  ClockMonotone = FALSE
  MaxDrawn = 3
  MaxSeconds = 1
PROPERTY ImplementsUniqueIds
CHECK_DEADLOCK FALSE
