CONSTANTS
  MaxPages = 3
  MaxRows = 1
  Shapes <- AllShapes
  Threads = {t1, t2}
  MaxExecs = 1
SPECIFICATION FairSpec
PROPERTY CallsReturn
CHECK_DEADLOCK FALSE
