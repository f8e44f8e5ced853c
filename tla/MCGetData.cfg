\* Two rows of two columns; up to two rows a fetch, of either kind.  Bytes of
\* two bits, floats of four, streams of two digits; rowsets of two rows.
CONSTANTS
  Texts <- AsciiTexts
  Rows = 2
  Cols = {1, 2}
  Buffers <- RoomyBuffers
  MaxRowset = 2
  ByteBits = 2
  FloatBits = 4
  Precision = 2
  SizeOfLong = 8
  WcharSize = 2
  Bindings <- AllBindings
  Columns <- AllColumns
  ElementBuffer = 5
  RowsetSize = 2
SPECIFICATION BothSpec
INVARIANTS
  PartsContiguous
  PartsStartAtFirst
  EndAfterWholeText
  RowsKeepTheirBytes
  CutTextsAreReported
  SuccessReadsBack
