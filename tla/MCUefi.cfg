SPECIFICATION MCSpec
CONSTANTS
  Cuts = "whole"
  Files <- MCFiles
  NoFile = NoFile
  gFileBufferLength = 3
  MaxFaults = 2
  Junk = Junk
  Variables <- MCVariables
  NoVariable = NoVariable
  MemoryMaps <- MCMaps
  FirmwarePages = {{0, 7}, {0, 4, 7}, {0, 1, 7}}
  Pages = 8
  PageSize = 4
  DWordSize = 2
  Word = 256
  PhysicalSpan = 32
  ExtraLength = 8
  ArgsAt = 7
  SignSize = 2
  HeaderSize = 2
  RecordHeaderSize = 2
  DefaultRamTop = 99
  GdtSize = 2
  MaxStarts = 2
CHECK_DEADLOCK FALSE
INVARIANTS StartedWhole MemoryRespected RamTopClear StopsOnlyIfHurt
PROPERTIES UefiEnds StreamSpec
