SPECIFICATION ListSpec
CONSTANTS
  MaxList = 4
  MaxArgs = 4
INVARIANTS
  ConvertedOrRejected
\* A list is called or rejected.
CHECK_DEADLOCK FALSE
