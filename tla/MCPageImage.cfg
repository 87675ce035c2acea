CONSTANTS
  Files <- MCFiles
  Numbers = {0, 1, 2}
SPECIFICATION Spec
INVARIANTS
  TypeOK
  PageFrame
  RowsExist
  ImageIsPages
CHECK_DEADLOCK FALSE
