SPECIFICATION MCSpec
CONSTANTS
  Programs = {"diskpart", "bincompress", "start", "loader", "files"}
  Sectors = 6
  MinSectors = 2
  DWord = 16
  SectorsPerMB = 1
  Sizes = {0, 1}
  Starts = {0, 3}
  Types = {"dos"}
  RawSectors = {0}
  Watched = {5}
  InitMBRs <- MCInitMBRs
  InitBoots <- MCInitBoots
  JunkTables <- MCJunkTables
  MaxBlock = 2
  FileSizes = {0, 1, 2, 3, 4, 5}
  Volumes <- MCVolumes
  NoFile = NoFile
  MaxFaults = 1
  Addresses = {1, 2}
  INI_RAW_DATA_LENGTH = 4
  BMP_RAW_DATA_LENGTH = 4
  Keys = {"1", "2"}
  NoImage = ""
  FatVolumes <- MCFatVolumes
  Asked <- MCAsked
  ReadLengths = {3, 17}
  HeadBytes = 3
  BytesPerSect = 4
  DirEntries = 2
  BaseLength = 2
  ExtLength = 1
  RecordLength = 5
  LastData = 7
  RsvdMark = 8
  BadMark = 9
  EofMarks = {10, 11}
  MaxFatRead = 20
  MaxFatFaults = 1
  Media <- MCBldrMedia
  ByteSize = 4
  EntriesPerRootSector = 2
  Cylinders = 10
  READ_LENGTH = 4
  MaxChainFaults = 1
  BldrSectors = 2
INVARIANTS OneActive RoundTrip BootsRight FilesRight BldrStarts
PROPERTIES PartitionsKept ListKept DecoderSpec LoaderEnds
CHECK_DEADLOCK FALSE
