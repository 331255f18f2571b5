SPECIFICATION Spec
CONSTANTS
  Boards <- MCBoards
  Strength = 1
  OpenBusFails = TRUE
  VersionBits = 2
  Values = {1}
INVARIANTS ReadsAreRight BadBlocksKnown
PROPERTY BadUntouched
CHECK_DEADLOCK FALSE
