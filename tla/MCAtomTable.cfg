CONSTANTS
  p1 = p1
  f1 = f1
  p2 = p2
  p3 = p3
  p4 = p4
  vacant = vacant
  held = held
  Atoms <- MCAtoms
  HashOf <- MCHash
  LinAdj = 3
  DfSize = 4
  MaxSize = 8
SPECIFICATION Spec
INVARIANTS
  Unique
  Findable
  HalfVacant
CHECK_DEADLOCK FALSE
