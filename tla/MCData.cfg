SPECIFICATION DataSpec
CONSTANTS
  Limit = 80
  MaxElements = 2
  PrimLimit = 64
  Texts <- MCTexts
  Doubles = {16}
  OldBytes = {0}
  Half = 64
  Heap <- MCHeap
  Literals <- MCLiterals
  Names = {"x", "y"}
  MaxDepth = 3
  MaxSteps = 7
  MaxList = 4
  MaxArgs = 4
INVARIANTS
  HeadersTile
  ShortNamesRead
  ForwardsLead
  WalkStays
  ReadsBack
  BooleansAgree
  SumsMeant
  ArgumentsBind
  ParametersKept
PROPERTIES
  WalksBlocks
  WalkEnds
\* An area is full, MaxSteps is reached, a list is called or rejected.
CHECK_DEADLOCK FALSE
