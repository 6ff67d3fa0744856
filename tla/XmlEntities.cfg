SPECIFICATION EntitiesSpec
CONSTANTS
  Pieces <- MCPieces
  Parts <- MCParts
  Handlers <- MCHandlers
  Subset = "#"
  General = "g"
  MaxPieces = 4
INVARIANTS OpenIsBeingRead ReadAsMeant UndeclaredIsRefused
CHECK_DEADLOCK FALSE
