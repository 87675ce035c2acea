CONSTANTS
  Bytes = {0, 1, 2, 3, 4, 255}
  MaxLen = 5
  Segments <- MCSegments
  Starts <- MCStarts
SPECIFICATION FairSpec
INVARIANTS
  RepeatIsCorrupt
  LinksAreChain
  WorkBounded
PROPERTIES
  Terminates
CHECK_DEADLOCK FALSE
