SPECIFICATION Spec
CONSTANTS
  Vars = {a, b}
  Literals <- MCLiterals
  Addresses <- MCAddresses
  Paths <- MCPaths
  AddressLists <- MCAddressLists
  Slices <- MCSlices
  StoredPairs <- MCStoredPairs
  MaxCells = 5
  MaxPairCells = 12
INVARIANTS
  RefsExact
  
PROPERTIES
  ImplementsArrayVars
CHECK_DEADLOCK FALSE
