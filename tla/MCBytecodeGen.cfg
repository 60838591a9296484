SPECIFICATION Spec
CONSTANTS
  ByteSize = 8
  NameOrder <- TwoNames
  LabelNames = {"l"}
  NodeKinds <- DataKinds
  MaxNodes = 2
  MaxParams = 2
  MaxArgs = 2
INVARIANTS
  TypeOK
  ProgramIsSound
  LiteralsAreNamed
\* A compilation ends: in a Function, in an exception or in undefined behaviour.
CHECK_DEADLOCK FALSE
