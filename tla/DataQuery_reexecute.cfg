CONSTANTS
  MaxPages = 2
  MaxRows = 1
  Shapes <- ContinuedShapes
  Threads = {t1, t2}
  MaxExecs = 2
SPECIFICATION FairSpec
PROPERTY ExecutionStartsAtFirstRow
