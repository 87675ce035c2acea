CONSTANTS
  Offsets = {0, 3, 5, 7, 8, 10, 12}
  Images <- MCImages
SPECIFICATION Spec
INVARIANTS
  TypeOK
  SpansTiled
  NoRowSkipped
  OverrunBounded
PROPERTIES
  ImplementsStream
CHECK_DEADLOCK FALSE
