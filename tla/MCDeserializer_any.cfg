\* Maps of Any with a value of each scalar class.
SPECIFICATION Spec
CONSTANTS
  Types <- MCTypes
  TypeInfo <- MCTypeInfo
  Requests <- AnyRequests
  Behind <- MCBehind
  Depth = 6
INVARIANT AnyIsReadBack
