CONSTANTS
  FlhSize = 1
  MinSize = 2
  InitSize = 6
  MaxMem = 11
  Requests = {2, 3}
  MinHeapSpace = 2
  SmallExtra = 0
  DfMemSize = 8
  Expansion = TRUE
SPECIFICATION FairSpec
INVARIANTS
  TypeOK
  HeapOK
  FreeListComplete
PROPERTIES
  ClearsTemporaries
  ImplementsHeapSpec
  LoopsEnd
