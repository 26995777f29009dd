\* Damaged documents with a field whose type is selected.
SPECIFICATION Spec
CONSTANTS
  Types <- MCTypes
  TypeInfo <- MCTypeInfo
  Requests <- PolymorphRequests
  Behind <- MCBehind
  Depth = 6
INVARIANT PolymorphErrorsReported
