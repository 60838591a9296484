SPECIFICATION ListSpec
CONSTANTS
  MaxList = 4
  MaxArgs = 4
INVARIANTS
  FunctionArgumentsBind
\* A list is called or rejected.
CHECK_DEADLOCK FALSE
