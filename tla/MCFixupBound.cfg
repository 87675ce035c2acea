CONSTANTS
  Offsets = {0, 3, 5, 7, 8, 10, 12}
  Images <- MCImages
SPECIFICATION Spec
INVARIANT
  RecordsWithinBound
CHECK_DEADLOCK FALSE
