SPECIFICATION SSpec
CONSTANTS
  FirstBlock = 1
  LastBlock = 4
  ChunksPerBlock = 2
  ReservedBlocks = 1
  PassiveCopies = 1
  PassiveThreshold = 1
  GoodEnough = 0
  SmallHole = 1
  NotDoneLimit = 1
  RefreshPeriod = 0
  MinRefresh = 1
  Devices <- MCDevices
INVARIANTS FilesReadBack SpaceAccounted MountFindsAll CutsAreClean
CHECK_DEADLOCK FALSE
