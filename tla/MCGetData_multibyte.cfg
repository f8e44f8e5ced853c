\* Texts with a character of two bytes.
CONSTANTS
  Texts <- MultibyteTexts
  Rows = 1
  Cols = {1}
  Buffers <- RoomyBuffers
  MaxRowset = 1
  ByteBits = 2
  FloatBits = 4
  Precision = 2
  SizeOfLong = 8
  WcharSize = 2
  Bindings = {}
  Columns = {}
  ElementBuffer = 5
  RowsetSize = 2
SPECIFICATION BothSpec
INVARIANT PartsContiguous
\* An exception that leaves SQLGetData ends the program.
CHECK_DEADLOCK FALSE
