SPECIFICATION Spec
CONSTANTS
  Addresses <- MCAddresses
  Sources <- MCSources
  CollectAt <- Anywhere
  StrayKinds <- MCStray
  MaxFlips = 1
  Paths <- MCPaths
INVARIANTS AllReferencesFollow
CHECK_DEADLOCK FALSE
