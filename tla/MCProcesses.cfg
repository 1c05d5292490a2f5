SPECIFICATION Spec
CONSTANTS
  BuffSize = 2
  MaxStreams = 4
  MaxBuffers = 6
  MaxFds = 6
  MaxQueues = 4
  Capacity = 4
  MaxParts = 6
  Texts <- MCTexts
  Arrays <- MCArrays
  Programs <- MCPrograms
  MaxChildren = 2
  Pids = {1, 2, 3}
  Codes = {0}
INVARIANTS
  ReportsTrue
PROPERTIES
  EndIsSeen
  ImplementsByteStreams
  ArraysCross
CHECK_DEADLOCK FALSE
