CONSTANTS
  Jobs <- MCJobs
  Files <- MCFiles
  WordSize <- MCWordSize
SPECIFICATION Spec
INVARIANT
  RecordsInTable
CHECK_DEADLOCK FALSE
