SPECIFICATION Spec
CONSTANTS
  Documents <- MCDocuments
  BlockSizes = {1, 3, 4, 7}
  XML_CONTEXT_BYTES = 1
  INIT_BUFFER_SIZE = 2
  StopsAt = {1, 2}
  MaxStops = 2
INVARIANTS ToldInOrder ToldAll BufferIsDocument NamesAreKept StopsSoon
CHECK_DEADLOCK FALSE
