SPECIFICATION Spec
CONSTANTS
  Devs = {1}
  NBuckets = 1
  NiceTries = 2
  NiceCount = 4
  RwSize = 1
  MaxSymlinks = 2
  Programs <- MCPrograms
INVARIANTS  OpenFilesKept IoKeepsItsFile
PROPERTY ErrorsLeaveNames
CHECK_DEADLOCK FALSE
