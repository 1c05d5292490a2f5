CONSTANTS
  Data = {d1}
  StackData = stack
  Free = free
  Requests = {2}
  StackSize = 2
  GrownStack = 3
  MinSize = 1
  InitSize = 7
  MinHeapSpace = 1
  MaxMem = 10
  none = none
SPECIFICATION Spec
INVARIANT LoadRestores
CHECK_DEADLOCK FALSE
