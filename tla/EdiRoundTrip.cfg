CONSTANTS
  NUL = NUL
  NoDialect = NoDialect
  NoValue = NoValue
  NoName = NoName
  Newlines <- MCNewlines
  TagChars <- MCTagChars
  Messages <- MCMessages
  Dialects <- MCDialects
  STRINGPOOL_BLOCKSIZE = 3
  SEG_BLOCKSIZE = 2
  ELEMENT_BLOCKSIZE = 2
  Requests <- MCRequests
  MaxPools = 7
  MaxLen = 4
  OutParams <- MCOutParams
  OutChars <- MCOutChars
  BufLens <- MCBufLens
  MaxBuf = 20
SPECIFICATION SpecBoth
INVARIANT Transcribes
CHECK_DEADLOCK FALSE
