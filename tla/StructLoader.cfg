CONSTANTS
  Chars <- MCChars
  Directories <- DirectorySet
  Missing = Missing
  Malformed = Malformed
  NULL = NULL
  Garbage = Garbage
  Alloc = 2
  Cleared = 1
  ChunkSize = 5
  MaxFiles = 7
  MaxLoads = 2
SPECIFICATION Spec
INVARIANTS TablesAreFiles SearchesReadStrings
PROPERTY LoadReturns
CHECK_DEADLOCK FALSE
