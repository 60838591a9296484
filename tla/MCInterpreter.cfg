SPECIFICATION FairSpec
CONSTANTS
  ByteSize = 256
  Names <- MCNames
  Programs <- MCPrograms
  HeapLimit = 10
INVARIANTS
  TypeOK
  FramesIntact
  BasePointersChain
  OperandsBalanced
  OperandsAreValues
  ScopeMatchesCode
  ArgumentsFit
PROPERTIES
  CallsNest
  Halts
\* interpret() returns, and the host process exits.
CHECK_DEADLOCK FALSE
