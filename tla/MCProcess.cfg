\* Constructors overlap each other and destructors each other; two threads log;
\* two names of data sources.
CONSTANTS
  Connections = {c1, c2, c3, c4}
  Serialized = TRUE
  Threads = {t1, t2}
  Free = Free
  Paths = {p1, p2, p3}
  Unwritable = {p3}
  DefaultPath = p1
  NoFile = NoFile
  Dsns = {"a", "b"}
  Texts = {"", "x"}
  MaxRequests = 2
  MaxEdits = 2
SPECIFICATION ProcessSpec
CHECK_DEADLOCK FALSE
INVARIANTS
  SdkUpWhileLive
  LostOnlyByRace
  FileFollowsPath
  SuccessMeansStored
  RenameLosesNothing
  AcceptedIsWhole
PROPERTIES
  InitAndShutdownAlternate
  LifecycleCallsEnd
