SPECIFICATION MCSpec
CONSTANTS
  Cuts = "short"
  Files <- MCFiles
  NoFile = NoFile
  gFileBufferLength = 3
  MaxFaults = 0
  Junk = Junk
  Variables <- MCVariables
  NoVariable = NoVariable
  MemoryMaps <- MCMaps
  FirmwarePages = {{0, 7}, {0, 4, 7}, {0, 1, 7}}
  Pages = 8
  PageSize = 4
  DWordSize = 2
  Word = 256
  PhysicalSpan = 32
  ExtraLength = 8
  ArgsAt = 7
  SignSize = 2
  HeaderSize = 2
  RecordHeaderSize = 2
  DefaultRamTop = 99
  GdtSize = 2
  MaxStarts = 1
CHECK_DEADLOCK FALSE

PROPERTY ShortFileRefused
