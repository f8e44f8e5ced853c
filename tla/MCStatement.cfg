CONSTANTS
  a = a
  b = b
  x = x
  y = y
  Names <- MCNames
  ColumnsOf <- MCColumnsOf
  NoName = NoName
  MaxRows = 3
  MaxRowset = 2
SPECIFICATION Spec
INVARIANTS
  EndIsFinal
  LossIsReported
  NothingFromClosedQuery
  CatalogComplete
