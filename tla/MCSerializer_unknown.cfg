\* Objects with a field of a class no method and no interpretation serves.
SPECIFICATION Spec
CONSTANTS
  Prefix <- MCPrefix
  Steps = 40
  Encoding <- MCEncoding
  Roots <- UnknownRoots
  Values <- UnknownValues
INVARIANT UnknownTypesInserted
