CONSTANTS
  Arrays = {a1, a2}
  Ports = {p1, p2}
  Files = {f1, f2, f3}
  StackMax = 2
  DefsMax = 1
  LeakMax = 2
  none = none
  invalidptr = invalidptr
  closedport = closedport
SYMMETRY Symmetry
SPECIFICATION Spec
INVARIANTS
  RefsCovered
  Recovered
PROPERTIES
  StreamsKept
CHECK_DEADLOCK FALSE
