CONSTANTS
  NUL = NUL
  NoDialect = NoDialect
  NoValue = NoValue
  Newlines <- MCNewlines
  TagChars <- MCTagChars
  Messages <- MCMessages
  Dialects <- AllDialects
  STRINGPOOL_BLOCKSIZE = 3
  SEG_BLOCKSIZE = 2
  ELEMENT_BLOCKSIZE = 2
  Requests <- MCRequests
  MaxPools = 7
  MaxLen = 4
SPECIFICATION FairSpec
INVARIANTS FirstPoolSuffices TreeIsMessage UnterminatedExactly
PROPERTIES Terminates UsesPools
CHECK_DEADLOCK FALSE
