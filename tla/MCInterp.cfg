SPECIFICATION InterpSpec
CONSTANTS
  Parse <- parse
  Start = "line"
  Productions <- MCProductions
  Prop <- MCProp
  Basics <- MCBasics
  Sessions <- MCSessions
  Value <- MCValue
  applytab <- MCapplytab
  MaxTokens = 10
  MaxSpoilt = 0
  FuelMax = 6
INVARIANTS
  Balanced
  ExitConfined
  AsMeant
