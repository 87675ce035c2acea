CONSTANTS
  Files <- MCFiles
  Numbers = {0, 1, 2}
SPECIFICATION Spec
INVARIANT
  RangesRefused
CHECK_DEADLOCK FALSE
