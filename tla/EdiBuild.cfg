CONSTANTS
  Chars <- MCChars
  NUL = NUL
  NoName = NoName
  Trees <- MCTrees
  OutParams <- MCParams
  BufLens <- MCBufLens
  MaxBuf = 23
SPECIFICATION FairSpec
INVARIANTS StaysInside WholeOrBeginning
PROPERTY Terminates
CHECK_DEADLOCK FALSE
