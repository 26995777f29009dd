\* The OP_MSG parser on messages of the writer, with each byte changed, cut off
\* at each byte, and with a checksum.
SPECIFICATION FairSpec
CONSTANTS
  Data <- MCData
  Messages <- MCMessages
INVARIANT TypeOK
INVARIANT SizedDocuments
INVARIANT Accounted
INVARIANT WrittenIsParsed
PROPERTY Terminates
