\* Documents that stand for values, with unknown elements, and damaged.
SPECIFICATION FairSpec
CONSTANTS
  Types <- MCTypes
  TypeInfo <- MCTypeInfo
  Requests <- MCRequests
  Behind <- MCBehind
  Depth = 6
INVARIANT TypeOK
INVARIANT WholeDocument
INVARIANT ReadsValue
INVARIANT SetAsideWhole
INVARIANT NothingMissing
INVARIANT OnlyDocuments
PROPERTY Terminates
