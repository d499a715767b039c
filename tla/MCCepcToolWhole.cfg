SPECIFICATION Spec
CONSTANTS
  Programs = {"tool"}
  Images <- MCImages
  Linear = 4
  BlockSize = 6
  ChunkSize = 2
  AddressSpace = 16
  Files = {"f", "g"}
  Single = "single"
  MaxTime = 4
  Byte = 9
  Replies <- MCReplies
  SearchOps = {2}
  ReadOp = 3
  ErrorBit = 4
  Overhead = 1
  File <- MCFile
  Counts = {2, 3}
  ReadLimit = 2
  MaxFaults = 1
CHECK_DEADLOCK FALSE
PROPERTY UpToDateIsWhole
