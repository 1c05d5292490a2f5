SPECIFICATION Spec
CONSTANTS
  MAXFILES = 5
  Direct = {"n"}
  Other = {"m"}
  OtherModes = {"prt"}
  MaxStreams = 4
  MaxFilesOnDisk = 5
  no_value = "?no_value"
  Records <- MCRecords
  Arrays0 <- MCArrays
  NumberLists <- MCNumberLists
  MaxWrites = 4
  CompressOver = 2
  File = "n"
  block_array <- BlockArray
  unblock_array <- UnblockArray
INVARIANTS
  PortsOwned
  Extents
PROPERTIES
  ImplementsRecordFile
  OthersKept
