CONSTANT
  Files <- MCFiles
SPECIFICATION FairSpec
INVARIANTS
  TypeOK
  SpansExist
  OverrunBounded
PROPERTIES
  ImplementsLz
  Terminates
CHECK_DEADLOCK FALSE
