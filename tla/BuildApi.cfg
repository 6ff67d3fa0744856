CONSTANTS
  BLOCKSIZE = 3
  Requests <- Lengths
  MaxPools = 3
  NoValue = NoValue
  MaxSegments = 2
  MaxElements = 2
  MaxValues = 4
  MaxMoves = 2
SPECIFICATION SpecApi
INVARIANTS ValuesDisjoint OnlyEmptyFreed TreeOwnsValues PointersAreLive
PROPERTY AllOrNothing
CHECK_DEADLOCK FALSE
