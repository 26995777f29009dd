\* Every class of value at every depth up to three, both settings of
\* includeNullFields.
SPECIFICATION FairSpec
CONSTANTS
  Prefix <- MCPrefix
  Steps = 40
  Encoding <- MCEncoding
  Roots <- MCRoots
  Values <- MCValues
INVARIANT TypeOK
INVARIANT AtomicWrite
INVARIANT SizedRoot
INVARIANT WellFormedOutput
INVARIANT EncodesValue
PROPERTY Terminates
