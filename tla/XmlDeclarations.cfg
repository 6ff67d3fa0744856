SPECIFICATION Spec
CONSTANTS
  Tokens <- MCTokens
  InitGroup = 2
  InitScaffold = 2
  MaxTokens = 11
  MaxInclude = 1
INVARIANTS DeclarationsAreGrammar ModelIsDeclaration GroupsInBounds
CHECK_DEADLOCK FALSE
