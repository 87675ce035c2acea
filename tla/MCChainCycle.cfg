CONSTANTS
  Bytes = {0, 1, 2, 3, 4, 255}
  MaxLen = 5
  Segments <- MCSegments
  Starts <- MCStarts
SPECIFICATION Spec
INVARIANT
  CorruptMeansCycle
CHECK_DEADLOCK FALSE
