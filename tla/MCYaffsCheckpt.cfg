SPECIFICATION Spec
CONSTANTS
  NBlocks = 4
  MinBlocks = 4
  Objs = {1}
  Layouts <- MCLayouts
INVARIANTS CheckpointNeverStale TablesMatchFlash
CHECK_DEADLOCK FALSE
