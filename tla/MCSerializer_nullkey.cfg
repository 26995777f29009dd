\* Maps with an entry whose key is a null String.
SPECIFICATION Spec
CONSTANTS
  Prefix <- MCPrefix
  Steps = 40
  Encoding <- MCEncoding
  Roots <- NullKeyRoots
  Values <- NullKeyValues
PROPERTY NullKeysRefused
