SPECIFICATION Spec
CONSTANTS
  Addresses <- MCAddresses
  Sources <- MCSources
  CollectAt <- Anywhere
  StrayKinds <- MCStray
  MaxFlips = 1
  Paths <- MCPaths
INVARIANTS TypeOK ReferencesFollow QueueDrained CastsHold
CHECK_DEADLOCK FALSE
