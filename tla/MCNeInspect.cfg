CONSTANTS
  Jobs <- MCJobs
  Files <- MCFiles
  WordSize <- MCWordSize
SPECIFICATION Spec
INVARIANTS
  TypeOK
  OwnBytes
  TableComplete
  WholeTables
  NamedByReference
  ImportsCounted
CHECK_DEADLOCK FALSE
