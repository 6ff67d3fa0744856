CONSTANTS
  Structures <- MCStructures
  Questions <- MCQuestions
  MaxKey = 5
SPECIFICATION LookupSpec
INVARIANTS AnswerIsRight ReadsInside
PROPERTY Shrinks
CHECK_DEADLOCK FALSE
