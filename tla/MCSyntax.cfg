SPECIFICATION Spec
CONSTANTS
  Parse <- parse
  Start = "line"
  Productions <- MCProductions
  Prop <- MCProp
  Basics <- MCBasics
  Sessions <- MCSessions
  MaxTokens = 11
  MaxSpoilt = 7
INVARIANTS
  WellBuilt
  RolesAgree
  RoundTrip
