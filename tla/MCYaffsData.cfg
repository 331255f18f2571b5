SPECIFICATION MCSpec
CONSTANTS
  Devices <- MCDevices
  Trees <- MCTrees
INVARIANTS ContentsKept SyncedIsStored TreeSound
PROPERTY ImplementsMap
CHECK_DEADLOCK FALSE
