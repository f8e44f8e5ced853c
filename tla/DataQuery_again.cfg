\* Any result, empty pages included, and up to three executions.  After an
\* empty page a fetch may hang (see DataQuery_emptypage.cfg).
CONSTANTS
  MaxPages = 3
  MaxRows = 1
  Shapes <- AllShapes
  Threads = {t1, t2}
  MaxExecs = 3
SPECIFICATION FairSpec
CHECK_DEADLOCK FALSE
INVARIANTS
  NoFetchThreadSleeps
  NoJoinableThreadDestroyed
PROPERTIES
  RequestStableWhileRead
  RowsVisitedInOrder
  ContinuedCallsReturn
