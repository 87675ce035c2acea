CONSTANTS
  WordSize = 64
  HeaderSize = 3
  FieldsSize = 2
  Stems = {"A", "B", "C", "MEMBER2"}
  Numbered <- MCNumbered
  Files <- MCFiles
  Modes <- MCModes
  Picks <- MCPicks
SPECIFICATION Spec
INVARIANT
  ExitContract
CHECK_DEADLOCK FALSE
