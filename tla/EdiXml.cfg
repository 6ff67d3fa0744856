CONSTANTS
  Messages <- MessageSet
  NoTag = "NULL"
  Segments <- SegmentTable
  Composites <- CompositeTable
  Elements <- ElementTable
  Codes <- Coded
  Empty = ""
  Undecodable <- Bad
  Wide <- Large
  Options <- OptionSet
  Unit = 4
  MaxCalls = 3
SPECIFICATION Spec
INVARIANTS ReturnedNested ConformingIsWhole ReportIsOfOneFailure EarlierCallsDoNotShow
PROPERTY CallsReturn
CHECK_DEADLOCK FALSE
