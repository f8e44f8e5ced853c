\* One execution of the query, any order of the other calls.
CONSTANTS
  MaxPages = 3
  MaxRows = 2
  Shapes <- ContinuedShapes
  Threads = {t1, t2}
  MaxExecs = 1
SPECIFICATION Spec
PROPERTY StreamSpec
