CONSTANTS
  F = F
  g = g
  h = h
  Ops <- MCOps
  Env <- MCEnv
  Tr = {F}
  Anonymous = {h}
  Null = Null
  NestingMax = 4
  TempMax = 1
  RefMax = 2
  JumpsMax = 2
SPECIFICATION Spec
INVARIANTS
  Display
  EnvCovered
  Unwound
PROPERTIES
  Undisturbed
CHECK_DEADLOCK FALSE
