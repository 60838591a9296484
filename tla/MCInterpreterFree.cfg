SPECIFICATION FairSpec
CONSTANTS
  ByteSize = 256
  Names <- MCNames
  Programs <- FreeVariable
  HeapLimit = 10
INVARIANT OuterNamesResolve
CHECK_DEADLOCK FALSE
