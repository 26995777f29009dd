\* Both ends of a connection, transfers that fall short at any byte.
SPECIFICATION FairSpec
CONSTANTS
  Messages <- MCMessages
  Headers <- MCHeaders
  MaxWrites = 3
  MaxFaults = 2
INVARIANT TypeOK
INVARIANT WholeOrTold
PROPERTY ImplementsChannel
CHECK_DEADLOCK FALSE
