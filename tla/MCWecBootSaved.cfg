SPECIFICATION Spec
CONSTANTS
  SecondsPerMinute = 2
  MinutesPerHour = 2
  Wrap = 8
  Count = 2
  DataSectors = 2
  Disks <- MCDisks
  Need <- MCNeed
  Orders <- MCOrders
  Stores <- MCStores
  RamRecords = 2
INVARIANT SavedSettingsAreRead
CHECK_DEADLOCK FALSE
