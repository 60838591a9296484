SPECIFICATION Spec
CONSTANTS
  ByteSize = 256
  NameOrder <- OneName
  LabelNames = {"l", "m"}
  NodeKinds <- ControlKinds
  MaxNodes = 4
  MaxParams = 1
  MaxArgs = 1
INVARIANTS
  ProgramIsSound
  BreaksLand
  LabelsEnclose
\* A compilation ends: in a Function, in an exception or in undefined behaviour.
CHECK_DEADLOCK FALSE
