SPECIFICATION Spec
CONSTANTS
  Chips <- MCChips
  OobSize = 8
  OobFree <- Layout
INVARIANTS ReadsReturnWritten BlocksAsChip
CHECK_DEADLOCK FALSE
