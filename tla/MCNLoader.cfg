SPECIFICATION MCSpec
CONSTANTS
  Programs = {"reader", "boot", "heap", "ini", "screen", "disk", "chain"}
  DiskClusters = {2, 3, 4}
  MaxChain = 3
  Ends = {20, 22}
  Volumes <- MCVolumes
  SectsPerClust = 2
  BytesPerSect = 2
  EntriesPerSector = 4
  BufferSectors = {1, 3, 4}
  LastData = 15
  RsvdMark = 19
  BadMark = 20
  EofMark = 22
  Lengths = {0, 3, 8}
  Rewinds = {2}
  MaxRead = 17
  MaxFaults = 1
  Junk = Junk
  FileSystems = {"FAT16", "FAT32", "FAT12", "exFAT", "other"}
  Images <- MCImages
  MaxRecords = 2
  Addresses = {4, 8}
  ImageStart = 4
  MaxSlack = 2
  MaxRows = 2
  MaxReadFaults = 2
  Regions <- MCRegions
  BootStackSize = 16
  HeaderSize = 16
  MinPayload = 4
  Requests <- MCRequests
  AllocLimit = 64
  WordSize = 128
  MaxDamage = 1
  Files <- MCFiles
  Parameters <- MCParameters
  BufferLengths = {2, 4}
  BoolLength = 5
  Behind = {"NUL", "1", "LF"}
  ByteValues = 256
  WordValues = 512
  DwordValues = 1024
  Settings <- MCSettings
  ModeLists <- MCModeLists
  MaxRefusals = 1
  Drives <- MCDrives
  ReadAt = {0, 1, 5, 511, 513, 1023, 1199, 2047}
  ReadCounts = {0, 1, 4, 5}
  MaxPacket = 2
  MaxDiskFaults = 1
  Media <- MCAllMedia
  ByteSize = 4
  EntriesPerRootSector = 2
  Cylinders = 10
  READ_LENGTH = 4
  MaxChainFaults = 1
  CellsPerSector = 3
  XldrSectors = 2
  CodeTop = 4
  SumFloor = 1
  AddressSpace = 16
CHECK_DEADLOCK FALSE
INVARIANTS JumpsOnlyToWholeImage BuffersReturned
INVARIANTS HeapInv NoLeak Coalesced
INVARIANTS ParserRight DiskReadTrue ChainBoots
PROPERTIES DeliversFile ProgramEnds
PROPERTIES FailOnlyWhenFull DoubleFreeHarmless AllocatorSpec ScreenTrue
