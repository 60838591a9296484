SPECIFICATION FairSpec
CONSTANTS
  ByteSize = 256
  Names <- MCNames
  Programs <- LocalBesideOneParam
  HeapLimit = 10
INVARIANT OwnNamesResolve
CHECK_DEADLOCK FALSE
