CONSTANTS
  WordSize = 64
  HeaderSize = 3
  FieldsSize = 2
  Stems = {"A", "B", "C", "MEMBER2"}
  Numbered <- MCNumbered
  Files <- MCFiles
  Modes <- MCModes
  Picks <- MCPicks
SPECIFICATION Spec
INVARIANTS
  TypeOK
  SpansApart
  PagesFollow
  PartialIsPrefix
PROPERTIES
  WrittenOnce
CHECK_DEADLOCK FALSE
