\* Three messages of two commands, two calls given up.
SPECIFICATION FairSpec
CONSTANTS
  find = find
  insert = insert
  Commands <- MCCommands
  Kind <- MCKind
  BodyOf <- MCBodyOf
  DocumentSet <- MCDocuments
  Int32Range = 128
  MaxAdded = 2
  MaxMessages = 3
  MaxTimeouts = 2
INVARIANT TypeOK
INVARIANT LengthsFit
PROPERTY ImplementsCalls
CHECK_DEADLOCK FALSE
