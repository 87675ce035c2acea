CONSTANTS
  None = None
  MaxInstruction = 3
  Modules <- MCModules
  Inputs <- MCInputs
SPECIFICATION Spec
INVARIANTS
  TypeOK
  EverySlotCounted
  PatchedByte
  EachByteOnOneLine
  NotesListedOnce
  WindowInsideImage
  EverySlotReported
  ViewFindsImage
  EntryIsLowestExported
  BundlesInTable
  ImportsNamed
CHECK_DEADLOCK FALSE
