---------------------------- MODULE ProcessProofs ----------------------------
(***************************************************************************)
(* Proofs about the parts of the driver that a process holds once: the AWS *)
(* SDK, the log, and the data sources with the window that sets them up.   *)
(***************************************************************************)
EXTENDS SdkLifecycle, Logger, DsnSetup, FiniteSetTheorems, TLAPS

-----------------------------------------------------------------------------
(* The AWS SDK: what holds however the constructors and destructors overlap *)

Holding == {"recheck", "init", "ready", "unlock"}
Ending  == {"shutdown", "stopping", "unready"}

\* The connections refCount_ counts: constructed, and not yet taken off.
Counted == {c \in Connections : pc[c] \in {"live", "uncount"}}

SdkTypeOK ==
  /\ awsSDKReady \in BOOLEAN /\ mutex \in BOOLEAN /\ refCount \in Int
  /\ sdk \in {"down", "starting", "up", "stopping"}
  /\ pc \in [Connections -> {"none", "live"} \cup Constructing \cup Destroying]

\* refCount_ is the number of the connections counted.
CountIsTrue == refCount = Cardinality(Counted)

\* Between Lock and Unlock there is one constructor at most.
MutexExcludes ==
  /\ \A c, d \in Connections : pc[c] \in Holding /\ pc[d] \in Holding => c = d
  /\ \A c \in Connections : pc[c] \in Holding => mutex

SdkCounts == SdkTypeOK /\ CountIsTrue /\ MutexExcludes

USE DEF Holding, Ending, Constructing, Destroying

LEMMA CountedIsFinite == IsFiniteSet(Counted)
  BY ConnectionsAssumption, FS_Subset DEF Counted

\* A set of connections and its size: one more, one less, none.
LEMMA CountedMore ==
  ASSUME NEW c \in Connections, c \notin Counted, Counted' = Counted \cup {c}
  PROVE  Cardinality(Counted') = Cardinality(Counted) + 1
  BY CountedIsFinite, FS_AddElement

LEMMA CountedLess ==
  ASSUME NEW c \in Counted, Counted' = Counted \ {c}
  PROVE  Cardinality(Counted') = Cardinality(Counted) - 1
  BY CountedIsFinite, FS_RemoveElement

LEMMA CountedNone == Cardinality(Counted) = 0 <=> Counted = {}
  BY CountedIsFinite, FS_EmptySet

LEMMA SdkCountsInit == Init => SdkCounts
<1> SUFFICES ASSUME Init PROVE SdkCounts OBVIOUS
<1>1. SdkTypeOK
  <2>1. pc \in [Connections -> {"none", "live"} \cup Constructing \cup Destroying]
    BY DEF Init
  <2>2. awsSDKReady \in BOOLEAN /\ mutex \in BOOLEAN BY DEF Init
  <2>3. refCount \in Int /\ sdk \in {"down", "starting", "up", "stopping"} BY DEF Init
  <2> QED BY <2>1, <2>2, <2>3 DEF SdkTypeOK
<1>2. Counted = {} BY DEF Init, Counted
<1>3. CountIsTrue BY <1>2, CountedNone DEF Init, CountIsTrue
<1>4. MutexExcludes BY DEF Init, MutexExcludes
<1> QED BY <1>1, <1>3, <1>4 DEF SdkCounts

LEMMA SdkCountsStep == SdkCounts /\ [Next]_vars => SdkCounts'
<1> SUFFICES ASSUME SdkCounts, [Next]_vars PROVE SdkCounts' OBVIOUS
<1> USE DEF SdkCounts
<1>0. CASE UNCHANGED vars
  BY <1>0 DEF vars, SdkTypeOK, CountIsTrue, Counted, MutexExcludes
<1>1. CASE Next
  <2> PICK c \in Connections :
        CheckReady(c) \/ Destroy(c) \/ Constructor(c) \/ Destructor(c)
    BY <1>1 DEF Next
  <2>1. SdkTypeOK'
    <3>1. pc' \in [Connections -> {"none", "live"} \cup Constructing \cup Destroying]
      BY DEF SdkTypeOK, CheckReady, Destroy, Constructor, Destructor, Lock, Recheck,
             InitAPIStart, InitAPIEnd, Unlock, Count, Uncount, ShutdownAPIStart,
             ShutdownAPIEnd, Unready, At
    <3>2. refCount' \in Int /\ sdk' \in {"down", "starting", "up", "stopping"}
      BY DEF SdkTypeOK, CheckReady, Destroy, Constructor, Destructor, Lock, Recheck,
             InitAPIStart, InitAPIEnd, Unlock, Count, Uncount, ShutdownAPIStart,
             ShutdownAPIEnd, Unready, At
    <3>3. awsSDKReady' \in BOOLEAN /\ mutex' \in BOOLEAN
      BY DEF SdkTypeOK, CheckReady, Destroy, Constructor, Destructor, Lock, Recheck,
             InitAPIStart, InitAPIEnd, Unlock, Count, Uncount, ShutdownAPIStart,
             ShutdownAPIEnd, Unready, At
    <3> QED BY <3>1, <3>2, <3>3 DEF SdkTypeOK
  <2>2. MutexExcludes'
    BY DEF MutexExcludes, SdkTypeOK, CheckReady, Destroy, Constructor, Destructor, Lock,
           Recheck, InitAPIStart, InitAPIEnd, Unlock, Count, Uncount, ShutdownAPIStart,
           ShutdownAPIEnd, Unready, At
  <2>3. CASE Count(c)
    <3>1. c \notin Counted /\ Counted' = Counted \cup {c}
      BY <2>3 DEF Counted, Count, At, SdkTypeOK
    <3>2. CountIsTrue' BY <2>3, <3>1, CountedMore DEF Count, CountIsTrue
    <3> QED BY <2>1, <2>2, <3>2
  <2>4. CASE Uncount(c)
    <3>1. c \in Counted /\ Counted' = Counted \ {c}
      BY <2>4 DEF Counted, Uncount, At, SdkTypeOK
    <3>2. CountIsTrue' BY <2>4, <3>1, CountedLess DEF Uncount, CountIsTrue
    <3> QED BY <2>1, <2>2, <3>2
  <2>5. CASE ~Count(c) /\ ~Uncount(c)
    <3>1. Counted' = Counted /\ refCount' = refCount
      BY <2>5 DEF Counted, SdkTypeOK, CheckReady, Destroy, Constructor, Destructor, Lock,
           Recheck, InitAPIStart, InitAPIEnd, Unlock, ShutdownAPIStart,
           ShutdownAPIEnd, Unready, At
    <3> QED BY <2>1, <2>2, <3>1 DEF CountIsTrue
  <2> QED BY <2>3, <2>4, <2>5
<1> QED BY <1>0, <1>1

\* Whatever overlaps, the reference count counts the connections and the mutex
\* keeps all but one constructor from initialising the SDK (connection.cpp:60-81
\* and 95).
THEOREM CountAndMutexHold == Spec => [](CountIsTrue /\ MutexExcludes)
<1>1. Spec => []SdkCounts
  BY SdkCountsInit, SdkCountsStep, PTL DEF Spec
<1>2. SdkCounts => CountIsTrue /\ MutexExcludes
  BY DEF SdkCounts
<1> QED BY <1>1, <1>2, PTL

-----------------------------------------------------------------------------
(* The AWS SDK of an application that keeps constructors and destructors apart *)

\* No constructor runs while a destructor does.
KeptApart ==
  \A c, d \in Connections : ~(pc[c] \in Constructing /\ pc[d] \in Destroying)

\* A destructor that ends the SDK is alone, and no connection is counted.
LastEnds ==
  \A c \in Connections : pc[c] \in Ending =>
    Counted = {} /\ \A d \in Connections : pc[d] \in Ending => c = d

\* What the SDK and awsSDKReady_ are at each point of a constructor and of a
\* destructor.
SdkAtPoint ==
  \A c \in Connections :
    /\ pc[c] = "init" => ~awsSDKReady
    /\ pc[c] = "ready" => sdk = "starting" /\ ~awsSDKReady
    /\ pc[c] \in {"unlock", "count", "live", "uncount", "shutdown"} =>
         sdk = "up" /\ awsSDKReady
    /\ pc[c] = "stopping" => sdk = "stopping" /\ awsSDKReady
    /\ pc[c] = "unready" => sdk = "down" /\ awsSDKReady

\* Between these points awsSDKReady_ tells whether the SDK is up.
ReadyTells ==
  /\ awsSDKReady /\ (\A c \in Connections : pc[c] \notin {"stopping", "unready"})
       => sdk = "up"
  /\ ~awsSDKReady /\ (\A c \in Connections : pc[c] # "ready") => sdk = "down"

SdkInv == SdkCounts /\ KeptApart /\ LastEnds /\ SdkAtPoint /\ ReadyTells

LEMMA SdkInvInit == Init => SdkInv
  BY SdkCountsInit DEF Init, SdkInv, KeptApart, LastEnds, SdkAtPoint, ReadyTells

LEMMA SdkInvStep == Serialized /\ SdkInv /\ [Next]_vars => SdkInv'
<1> SUFFICES ASSUME Serialized, SdkInv, [Next]_vars PROVE SdkInv' OBVIOUS
<1> USE DEF SdkInv
<1>c. SdkCounts' BY SdkCountsStep
<1>0. CASE UNCHANGED vars
  BY <1>0, <1>c DEF vars, Counted, KeptApart, LastEnds, SdkAtPoint, ReadyTells
<1>1. CASE Next
  <2> PICK c \in Connections :
        CheckReady(c) \/ Destroy(c) \/ Constructor(c) \/ Destructor(c)
    BY <1>1 DEF Next
  <2>1. KeptApart'
    BY DEF KeptApart, SdkCounts, SdkTypeOK, CheckReady, Destroy, Constructor,
           Destructor, Lock, Recheck, InitAPIStart, InitAPIEnd, Unlock, Count, Uncount,
           ShutdownAPIStart, ShutdownAPIEnd, Unready, At
  <2>2. LastEnds'
    <3>1. CASE Uncount(c)
      <4>1. c \in Counted BY <3>1 DEF Counted, Uncount, At
      <4>2. \A d \in Connections : pc[d] \notin Ending BY <4>1 DEF LastEnds
      <4>3. CASE pc'[c] = "shutdown"
        <5>1. refCount' = 0 BY <3>1, <4>3 DEF Uncount, At, SdkCounts, SdkTypeOK
        <5>2. Cardinality(Counted') = 0 BY <1>c, <5>1 DEF SdkCounts, CountIsTrue
        <5>3. IsFiniteSet(Counted')
          BY ConnectionsAssumption, FS_Subset DEF Counted
        <5>4. Counted' = {} BY <5>2, <5>3, FS_EmptySet
        <5> QED BY <3>1, <4>2, <5>4 DEF LastEnds, Uncount, At, SdkCounts, SdkTypeOK
      <4> QED BY <3>1, <4>2, <4>3 DEF LastEnds, Uncount, At, SdkCounts, SdkTypeOK
    <3>2. CASE Count(c)
      BY <3>2, <2>1 DEF LastEnds, KeptApart, Count, At, SdkCounts, SdkTypeOK
    <3>3. CASE ~Count(c) /\ ~Uncount(c)
      BY <3>3 DEF LastEnds, Counted, SdkCounts, SdkTypeOK, CheckReady, Destroy, Constructor,
           Destructor, Lock, Recheck, InitAPIStart, InitAPIEnd, Unlock,
           ShutdownAPIStart, ShutdownAPIEnd, Unready, At
    <3> QED BY <3>1, <3>2, <3>3
  <2>3. SdkAtPoint'
    BY DEF SdkAtPoint, ReadyTells, KeptApart, LastEnds, MutexExcludes, Counted, SdkCounts, SdkTypeOK, CheckReady, Destroy, Constructor,
           Destructor, Lock, Recheck, InitAPIStart, InitAPIEnd, Unlock, Count, Uncount,
           ShutdownAPIStart, ShutdownAPIEnd, Unready, At
  <2>4. ReadyTells'
    BY DEF SdkAtPoint, ReadyTells, KeptApart, LastEnds, MutexExcludes, Counted, SdkCounts, SdkTypeOK, CheckReady, Destroy, Constructor,
           Destructor, Lock, Recheck, InitAPIStart, InitAPIEnd, Unlock, Count, Uncount,
           ShutdownAPIStart, ShutdownAPIEnd, Unready, At
  <2> QED BY <1>c, <2>1, <2>2, <2>3, <2>4
<1> QED BY <1>0, <1>1

\* The SDK is up while a constructed connection exists, for any number of
\* connections whose constructors overlap each other and whose destructors
\* overlap each other (connection.cpp:56-101).
THEOREM SdkUpWhileLiveHolds == Serialized => (Spec => []SdkUpWhileLive)
<1> SUFFICES ASSUME Serialized PROVE Spec => []SdkUpWhileLive OBVIOUS
<1>1. SdkInv /\ [Next]_vars => SdkInv' BY SdkInvStep
<1>2. SdkInv => SdkUpWhileLive BY DEF SdkInv, SdkAtPoint, SdkUpWhileLive, Live
<1> QED BY SdkInvInit, <1>1, <1>2, PTL DEF Spec

\* InitAPI starts only on an SDK that is down, ShutdownAPI only on one that is
\* up (connection.cpp:64 and 93).
THEOREM InitAndShutdownAlternateHolds == Serialized => (Spec => InitAndShutdownAlternate)
<1> SUFFICES ASSUME Serialized PROVE Spec => InitAndShutdownAlternate OBVIOUS
<1>1. SdkInv /\ [Next]_vars => SdkInv' BY SdkInvStep
<1>2. SdkInv => \A c \in Connections : /\ InitAPIStart(c) => sdk = "down"
                                       /\ ShutdownAPIStart(c) => sdk = "up"
  BY DEF SdkInv, SdkCounts, MutexExcludes, SdkAtPoint, ReadyTells, InitAPIStart,
         ShutdownAPIStart, At
<1>3. SdkInv /\ [Next]_vars =>
        [\A c \in Connections : /\ InitAPIStart(c) => sdk = "down"
                                /\ ShutdownAPIStart(c) => sdk = "up"]_vars
  BY <1>2
<1> QED BY SdkInvInit, <1>1, <1>3, PTL DEF Spec, InitAndShutdownAlternate

-----------------------------------------------------------------------------
(* The log *)

LoggerPlaces ==
  {"idle", "message", "enable", "lock", "open", "write", "apply", "close", "stream"}

LoggerTypeOK ==
  /\ logLevel \in Levels /\ logPath \in Paths /\ logFilePath \in Paths \cup {NoFile}
  /\ stream \in BOOLEAN
  /\ fileStream \in [open : Paths \cup {NoFile}, good : BOOLEAN]
  /\ logMutex \in Threads \cup {Free}
  /\ logger \in [Threads -> [at : LoggerPlaces, after : {"idle", "close", "stream"}]]
  /\ mishaps \subseteq {"lost", "reopened", "closed", "stale"}

\* The mutex is held by the thread that opens the file, which has its name; a
\* thread that waits for the mutex or has it has set the stream.
OpenerHolds ==
  /\ \A t \in Threads : logger[t].at = "open" <=> logMutex = t
  /\ \A t \in Threads : logger[t].at \in {"lock", "open"} => stream
  /\ logMutex # Free => logFilePath # NoFile

\* Before the first race nothing is lost: an accepted message has an open file
\* to go to, and an open file has no error.
NothingLost ==
  mishaps \cap {"reopened", "closed"} = {} =>
    /\ "lost" \notin mishaps
    /\ \A t \in Threads : logger[t].at \in {"message", "write"}
         => stream /\ fileStream.open # NoFile
    /\ fileStream.open # NoFile => fileStream.good

\* A thread that still has to close the file of the directory before.
Applying(t) == logger[t].at \in {"apply", "close"} \/ logger[t].after = "close"

\* An open file has the name that was given to it, and a name that is not of
\* the directory set last is waited for by a thread that will erase it.
NameFollows ==
  /\ fileStream.open # NoFile => fileStream.open = logFilePath
  /\ \A t \in Threads :
       logger[t].at \in {"idle", "apply", "close", "stream"} => logger[t].after = "idle"
  /\ logFilePath # NoFile /\ "stale" \notin mishaps
       => logFilePath = logPath \/ \E t \in Threads : Applying(t)

LoggerInv == LoggerTypeOK /\ OpenerHolds /\ NothingLost /\ NameFollows

LEMMA LoggerInvInit == LoggerInit => LoggerInv
<1> SUFFICES ASSUME LoggerInit PROVE LoggerInv OBVIOUS
<1> USE LogPathsAssumption DEF LoggerInit
<1>1. LoggerTypeOK
  <2>1. logger \in [Threads -> [at : LoggerPlaces, after : {"idle", "close", "stream"}]]
    BY DEF LoggerPlaces
  <2>2. fileStream \in [open : Paths \cup {NoFile}, good : BOOLEAN] OBVIOUS
  <2>3. stream \in BOOLEAN OBVIOUS
  <2> QED BY <2>1, <2>2, <2>3 DEF LoggerTypeOK, Levels
<1>2. OpenerHolds BY DEF OpenerHolds
<1>3. NothingLost BY DEF NothingLost
<1>4. NameFollows BY DEF NameFollows
<1> QED BY <1>1, <1>2, <1>3, <1>4 DEF LoggerInv

LEMMA LoggerTypeStep == LoggerInv /\ [LoggerNext]_loggerVars => LoggerTypeOK'
<1> SUFFICES ASSUME LoggerInv, [LoggerNext]_loggerVars PROVE LoggerTypeOK'
  OBVIOUS
<1> USE LogPathsAssumption DEF LoggerInv, LoggerTypeOK, LoggerPlaces, Levels
<1>0. CASE UNCHANGED loggerVars BY <1>0 DEF loggerVars
<1>1. CASE LoggerNext
  <2> PICK t \in Threads : LoggerThread(t) BY <1>1 DEF LoggerNext
  <2>1. CASE EnableLog(t) BY <2>1 DEF EnableLog, GoTo, MessageDone
  <2>2. CASE NameFile(t) BY <2>2 DEF NameFile, GoTo
  <2>3. CASE OpenFile(t)
    <3>1. fileStream' \in [open : Paths \cup {NoFile}, good : BOOLEAN]
      BY <2>3 DEF OpenFile, FileOpened
    <3>2. logger' \in [Threads -> [at : LoggerPlaces, after : {"idle", "close", "stream"}]]
      BY <2>3 DEF OpenFile, GoTo, MessageDone
    <3>3. mishaps' \subseteq {"lost", "reopened", "closed", "stale"}
      BY <2>3 DEF OpenFile
    <3> QED BY <2>3, <3>1, <3>2, <3>3 DEF OpenFile
  <2>4. CASE CheckEnabled(t) BY <2>4 DEF CheckEnabled, IsEnabled, GoTo, MessageDone
  <2>5. CASE WriteMessage(t) BY <2>5 DEF WriteMessage, MessageDone
  <2>6. CASE ApplyPath(t) BY <2>6 DEF ApplyPath, IsEnabled, LogMessage, GoTo
  <2>7. CASE CloseFile(t) BY <2>7 DEF CloseFile, FileClosed
  <2>8. CASE SetLogStream(t) BY <2>8 DEF SetLogStream, GoTo
  <2>9. CASE \E level \in Levels \ {0} : Log(t, level) BY <2>9 DEF Log, LogMessage, IsEnabled
  <2>10. CASE \E path \in Paths : SetLogPath(t, path) BY <2>10 DEF SetLogPath, LogMessage, IsEnabled, GoTo
  <2>11. CASE \E level \in Levels : SetLogLevel(t, level) BY <2>11 DEF SetLogLevel
  <2> QED BY <2>1, <2>2, <2>3, <2>4, <2>5, <2>6, <2>7, <2>8, <2>9, <2>10, <2>11
             DEF LoggerThread, LoggerStep
<1> QED BY <1>0, <1>1

LEMMA OpenerHoldsStep == LoggerInv /\ [LoggerNext]_loggerVars => OpenerHolds'
<1> SUFFICES ASSUME LoggerInv, [LoggerNext]_loggerVars PROVE OpenerHolds'
  OBVIOUS
<1> USE LogPathsAssumption DEF LoggerInv, LoggerTypeOK, OpenerHolds
<1>0. CASE UNCHANGED loggerVars BY <1>0 DEF loggerVars
<1>1. CASE LoggerNext
  <2> PICK t \in Threads : LoggerThread(t) BY <1>1 DEF LoggerNext
  <2>1. CASE EnableLog(t) BY <2>1 DEF EnableLog, GoTo, MessageDone
  <2>2. CASE NameFile(t) BY <2>2 DEF NameFile, GoTo
  <2>3. CASE OpenFile(t) BY <2>3 DEF OpenFile, FileOpened, GoTo, MessageDone
  <2>4. CASE CheckEnabled(t) BY <2>4 DEF CheckEnabled, IsEnabled, GoTo, MessageDone
  <2>5. CASE WriteMessage(t) BY <2>5 DEF WriteMessage, MessageDone
  <2>6. CASE ApplyPath(t) BY <2>6 DEF ApplyPath, IsEnabled, LogMessage, GoTo
  <2>7. CASE CloseFile(t) BY <2>7 DEF CloseFile, FileClosed
  <2>8. CASE SetLogStream(t) BY <2>8 DEF SetLogStream, GoTo
  <2>9. CASE \E level \in Levels \ {0} : Log(t, level) BY <2>9 DEF Log, LogMessage, IsEnabled
  <2>10. CASE \E path \in Paths : SetLogPath(t, path) BY <2>10 DEF SetLogPath, LogMessage, IsEnabled, GoTo
  <2>11. CASE \E level \in Levels : SetLogLevel(t, level) BY <2>11 DEF SetLogLevel
  <2> QED BY <2>1, <2>2, <2>3, <2>4, <2>5, <2>6, <2>7, <2>8, <2>9, <2>10, <2>11
             DEF LoggerThread, LoggerStep
<1> QED BY <1>0, <1>1

LEMMA NothingLostStep == LoggerInv /\ [LoggerNext]_loggerVars => NothingLost'
<1> SUFFICES ASSUME LoggerInv, [LoggerNext]_loggerVars PROVE NothingLost'
  OBVIOUS
<1> USE LogPathsAssumption DEF LoggerInv, LoggerTypeOK, OpenerHolds, NothingLost
<1>0. CASE UNCHANGED loggerVars BY <1>0 DEF loggerVars
<1>1. CASE LoggerNext
  <2> PICK t \in Threads : LoggerThread(t) BY <1>1 DEF LoggerNext
  <2>1. CASE EnableLog(t) BY <2>1 DEF EnableLog, GoTo, MessageDone
  <2>2. CASE NameFile(t) BY <2>2 DEF NameFile, GoTo
  <2>3. CASE OpenFile(t) BY <2>3, SMTT(30) DEF OpenFile, FileOpened, GoTo, MessageDone
  <2>4. CASE CheckEnabled(t) BY <2>4 DEF CheckEnabled, IsEnabled, GoTo, MessageDone
  <2>5. CASE WriteMessage(t) BY <2>5 DEF WriteMessage, MessageDone
  <2>6. CASE ApplyPath(t) BY <2>6 DEF ApplyPath, IsEnabled, LogMessage, GoTo
  <2>7. CASE CloseFile(t) BY <2>7 DEF CloseFile, FileClosed
  <2>8. CASE SetLogStream(t) BY <2>8 DEF SetLogStream, GoTo
  <2>9. CASE \E level \in Levels \ {0} : Log(t, level) BY <2>9 DEF Log, LogMessage, IsEnabled
  <2>10. CASE \E path \in Paths : SetLogPath(t, path) BY <2>10 DEF SetLogPath, LogMessage, IsEnabled, GoTo
  <2>11. CASE \E level \in Levels : SetLogLevel(t, level) BY <2>11 DEF SetLogLevel
  <2> QED BY <2>1, <2>2, <2>3, <2>4, <2>5, <2>6, <2>7, <2>8, <2>9, <2>10, <2>11
             DEF LoggerThread, LoggerStep
<1> QED BY <1>0, <1>1

LEMMA NameFollowsStep == LoggerInv /\ [LoggerNext]_loggerVars => NameFollows'
<1> SUFFICES ASSUME LoggerInv, [LoggerNext]_loggerVars PROVE NameFollows'
  OBVIOUS
<1> USE LogPathsAssumption DEF LoggerInv, LoggerTypeOK, OpenerHolds, NameFollows, Applying
<1>0. CASE UNCHANGED loggerVars BY <1>0 DEF loggerVars
<1>1. CASE LoggerNext
  <2> PICK t \in Threads : LoggerThread(t) BY <1>1 DEF LoggerNext
  <2>1. CASE EnableLog(t) BY <2>1 DEF EnableLog, GoTo, MessageDone
  <2>2. CASE NameFile(t) BY <2>2 DEF NameFile, GoTo
  <2>3. CASE OpenFile(t) BY <2>3 DEF OpenFile, FileOpened, GoTo, MessageDone
  <2>4. CASE CheckEnabled(t) BY <2>4 DEF CheckEnabled, IsEnabled, GoTo, MessageDone
  <2>5. CASE WriteMessage(t) BY <2>5 DEF WriteMessage, MessageDone
  <2>6. CASE ApplyPath(t) BY <2>6 DEF ApplyPath, IsEnabled, LogMessage, GoTo
  <2>7. CASE CloseFile(t) BY <2>7 DEF CloseFile, FileClosed
  <2>8. CASE SetLogStream(t) BY <2>8 DEF SetLogStream, GoTo
  <2>9. CASE \E level \in Levels \ {0} : Log(t, level) BY <2>9 DEF Log, LogMessage, IsEnabled
  <2>10. CASE \E path \in Paths : SetLogPath(t, path) BY <2>10 DEF SetLogPath, LogMessage, IsEnabled, GoTo
  <2>11. CASE \E level \in Levels : SetLogLevel(t, level) BY <2>11 DEF SetLogLevel
  <2> QED BY <2>1, <2>2, <2>3, <2>4, <2>5, <2>6, <2>7, <2>8, <2>9, <2>10, <2>11
             DEF LoggerThread, LoggerStep
<1> QED BY <1>0, <1>1

LEMMA LoggerInvariant == LoggerSpec => []LoggerInv
<1>1. LoggerInv /\ [LoggerNext]_loggerVars => LoggerInv'
  BY LoggerTypeStep, OpenerHoldsStep, NothingLostStep, NameFollowsStep DEF LoggerInv
<1> QED BY LoggerInvInit, <1>1, PTL DEF LoggerSpec

\* A message accepted is written, whatever the threads, the directories and the
\* changes of the level, until an open file has been opened again or closed under
\* an accepted message (log.cpp:95-177 and log.h).
THEOREM LostOnlyByRaceHolds == LoggerSpec => []LostOnlyByRace
<1>1. LoggerInv => LostOnlyByRace
  BY DEF LoggerInv, NothingLost, LostOnlyByRace
<1> QED BY LoggerInvariant, <1>1, PTL

\* With every thread out of the Logger the open file is in the directory set
\* last, or that directory was set when no file was to be closed
\* (log.cpp:106-145).
THEOREM FileFollowsPathHolds == LoggerSpec => []FileFollowsPath
<1>1. LoggerInv => FileFollowsPath
  BY DEF LoggerInv, NameFollows, Applying, FileFollowsPath
<1> QED BY LoggerInvariant, <1>1, PTL

-----------------------------------------------------------------------------
(* The data sources and the window *)

Settings == Texts \cup AuthTypes \cup {"0", "25", "x", Unset}

\* A configuration, and what the list holds under a name.
Configs == {config \in [Keys -> Settings] :
              /\ config["maxConnections"] \in {"0", "25", Unset}
              /\ config["authType"] \in AuthTypes \cup {Unset}}
Lists == [Dsns -> Configs \cup {NoSection}]

Registering == {"ODBC_ADD_DSN", "ODBC_CONFIG_DSN"}

DsnTypeOK ==
  /\ ini \in Lists
  /\ request \in [at : {"idle", "window", "section", "keys", "remove"},
                  kind : Registering \cup {"ODBC_REMOVE_DSN", "none"},
                  dsn : Dsns \cup {""}, name : Dsns \cup {""}, config : Configs,
                  left : SUBSET Keys, before : Lists,
                  accepted : BOOLEAN, answer : BOOLEAN]

\* The texts of other authentication types than the one chosen are gone, and the
\* number of connections is the positive one.
Whole(config) ==
  /\ config["maxConnections"] = "25"
  /\ \A field \in AuthFields \ FieldsOf(config["authType"]) : config[field] = ""

\* The window while it is open: the controls enabled are those of the type
\* chosen, and what it accepts is whole.
WindowInOrder ==
  request.at = "window" =>
    /\ window \in [open : {TRUE}, name : Dsns \cup {"", " "}, authType : AuthTypes,
                   text : [TextFields -> Settings], maxConnections : {"0", "25"},
                   enabled : SUBSET TextFields, shown : SUBSET Keys,
                   tab : {"AUTHENTICATION", "ADVANCED_OPTIONS", "LOG_SETTINGS"},
                   ok : BOOLEAN, nameBalloon : BOOLEAN, maxConBalloon : BOOLEAN,
                   accepted : BOOLEAN, closing : BOOLEAN]
    /\ window.enabled = FieldsOf(window.authType) \cup {"logPath"}
    /\ window.accepted => window.closing /\ Whole(request.config)
    /\ ~request.accepted

\* How far the list is from what was asked at each point of ConfigDSN.
ListAtPoint ==
  /\ request.at \in {"window", "section"} => request.kind \in Registering /\ ini = request.before
  /\ request.at = "keys" =>
       /\ request.kind \in Registering /\ request.name \in Dsns
       /\ ini[request.name] \in Configs
       /\ \A d \in Dsns \ {request.name} : ini[d] = request.before[d]
       /\ \A key \in Keys \ request.left : ini[request.name][key] = request.config[key]
  /\ request.at = "remove" /\ request.kind # "ODBC_REMOVE_DSN" =>
       /\ request.kind = "ODBC_CONFIG_DSN" /\ request.name \in Dsns
       /\ request.name # request.dsn /\ ini[request.name] = request.config
  /\ request.at # "idle" => request.dsn \in Dsns
  /\ request.at = "idle" => SuccessMeansStored /\ RenameLosesNothing

DsnInv == DsnTypeOK /\ WindowInOrder /\ ListAtPoint /\ AcceptedIsWhole

LEMMA KeysAre ==
  Keys = {"aadAppId", "accessKeyId", "authType", "idPHost", "logPath", "maxConnections",
          "profileName", "roleArn"}
<1>1. DOMAIN KeyOrder = 1..8 BY DEF KeyOrder
<1> QED BY <1>1 DEF Keys, KeyOrder

LEMMA FieldsAreTexts == \A authType \in AuthTypes : FieldsOf(authType) \subseteq AuthFields
  BY DEF AuthTypes, FieldsOf, AuthFields

\* What an unset configuration and the attributes of a call are.
LEMMA AttributesAreConfigs == NothingSet \in Configs /\ AttributeSets \subseteq Configs
  BY KeysAre DEF NothingSet, AttributeSets, Configs, Settings, AuthTypes

LEMMA NoSectionIsNoConfig == NoSection \notin Configs
<1>1. DOMAIN NoSection = {} BY DEF NoSection
<1>2. \A config \in Configs : DOMAIN config = Keys BY DEF Configs
<1> QED BY <1>1, <1>2, KeysAre

\* A setting asked of a configuration is one.
LEMMA GetIsSetting ==
  ASSUME NEW config \in Configs
  PROVE  /\ \A key \in Keys : Get(config, key) \in Settings
         /\ Get(config, "maxConnections") \in {"0", "25"}
         /\ Get(config, "authType") \in AuthTypes
<1>1. Default("maxConnections") = "25" /\ Default("authType") = "AWS_PROFILE"
  BY DEF Default
<1>2. \A key : Default(key) \in {"", "25", "AWS_PROFILE"} BY DEF Default
<1>3. {"", "25", "AWS_PROFILE"} \subseteq Settings
  BY DsnSetupAssumption DEF Settings, AuthTypes
<1> QED BY <1>1, <1>2, <1>3, KeysAre DEF Get, Configs, AuthTypes, Unset

LEMMA DsnInvInit == DsnInit => DsnInv
<1> SUFFICES ASSUME DsnInit PROVE DsnInv OBVIOUS
<1>1. [d \in Dsns |-> NoSection] \in Lists BY DEF Lists
<1>2. DsnTypeOK
  BY <1>1, AttributesAreConfigs DEF DsnInit, DsnTypeOK, Idle
<1>3. WindowInOrder BY DEF DsnInit, WindowInOrder, Idle
<1>4. ListAtPoint
  BY DEF DsnInit, ListAtPoint, Idle, SuccessMeansStored, RenameLosesNothing
<1>5. AcceptedIsWhole BY DEF DsnInit, AcceptedIsWhole, Idle
<1> QED BY <1>2, <1>3, <1>4, <1>5 DEF DsnInv

\* A step that leaves the list and the request alone disturbs the window only.
LEMMA WindowOnly ==
  ASSUME DsnInv, UNCHANGED <<ini, request>>, WindowInOrder'
  PROVE  DsnInv'
  BY DEF DsnInv, DsnTypeOK, ListAtPoint, AcceptedIsWhole, SuccessMeansStored,
         RenameLosesNothing

LEMMA EditsKeepOrder ==
  ASSUME DsnInv,
         \/ \E field \in TextFields, text \in Texts : EditText(field, text)
         \/ \E name \in Dsns \cup {"", " "} : EditName(name)
         \/ \E number \in Values("maxConnections") : EditMaxConnections(number)
         \/ \E authType \in AuthTypes : ChooseAuthType(authType)
         \/ \E tab \in {"AUTHENTICATION", "ADVANCED_OPTIONS", "LOG_SETTINGS"} : SelectTab(tab)
         \/ CancelButton
  PROVE  DsnInv'
<1> USE DEF DsnInv, WindowInOrder, InWindow, Edited
<1>0. \A authType \in AuthTypes :
        /\ FieldsOf(authType) \cup {"logPath"} \subseteq TextFields
        /\ {"authType"} \cup FieldsOf(authType) \subseteq Keys
  BY FieldsAreTexts, KeysAre DEF TextFields, AuthFields
<1>1. ASSUME NEW field \in TextFields, NEW text \in Texts, EditText(field, text) PROVE DsnInv'
  <2>1. WindowInOrder' BY <1>1 DEF EditText, Settings
  <2> QED BY <1>1, <2>1, WindowOnly DEF EditText
<1>2. ASSUME NEW name \in Dsns \cup {"", " "}, EditName(name) PROVE DsnInv'
  <2>1. WindowInOrder' BY <1>2 DEF EditName
  <2> QED BY <1>2, <2>1, WindowOnly DEF EditName
<1>3. ASSUME NEW number \in Values("maxConnections"), EditMaxConnections(number) PROVE DsnInv'
  <2>1. number \in {"0", "25"} BY DEF Values
  <2>2. WindowInOrder' BY <1>3, <2>1 DEF EditMaxConnections
  <2> QED BY <1>3, <2>2, WindowOnly DEF EditMaxConnections
<1>4. ASSUME NEW authType \in AuthTypes, ChooseAuthType(authType) PROVE DsnInv'
  <2>1. WindowInOrder' BY <1>4, <1>0 DEF ChooseAuthType, OnAuthTypeChanged
  <2> QED BY <1>4, <2>1, WindowOnly DEF ChooseAuthType
<1>5. ASSUME NEW tab \in {"AUTHENTICATION", "ADVANCED_OPTIONS", "LOG_SETTINGS"}, SelectTab(tab)
      PROVE  DsnInv'
  <2>1. request.at = "window" => ControlsOf(tab) \subseteq Keys
    BY <1>0, KeysAre DEF ControlsOf
  <2>2. WindowInOrder' BY <1>5, <2>1 DEF SelectTab, OnSelChanged
  <2> QED BY <1>5, <2>2, WindowOnly DEF SelectTab
<1>6. ASSUME CancelButton PROVE DsnInv'
  <2>1. WindowInOrder' BY <1>6 DEF CancelButton
  <2> QED BY <1>6, <2>1, WindowOnly DEF CancelButton
<1> QED BY <1>1, <1>2, <1>3, <1>4, <1>5, <1>6

\* What OkButton makes of a configuration: all of it is a setting, and it is
\* whole unless retrieving threw.
LEMMA RetrievedIsWhole ==
  ASSUME WindowInOrder, request.at = "window", NEW config \in Configs
  PROVE  /\ RetrieveParameters(config) \in Configs
         /\ ~RetrieveThrows => Whole(RetrieveParameters(config))
<1> DEFINE c1 == RetrieveLogParameters(config)
           c2 == RetrieveBasicAuthParameters(c1)
           c3 == RetrieveAdvanceAuthParameters(c2)
           c4 == RetrieveConnectionParameters(c3)
<1>0. \A field \in TextFields : GetText(field) \in Settings
  BY DsnSetupAssumption DEF GetText, WindowInOrder, Settings
<1>1. c1 \in Configs
  BY <1>0, KeysAre DEF RetrieveLogParameters, Configs, TextFields, AuthFields
<1>2. c2 \in Configs
  BY <1>0, <1>1, KeysAre DEF RetrieveBasicAuthParameters, Configs, TextFields, AuthFields
<1>3. c3 \in Configs /\ c3["authType"] = window.authType
                     /\ \A field \in AuthFields : c3[field] = GetText(field)
  BY <1>0, <1>1, <1>2, KeysAre
     DEF RetrieveAdvanceAuthParameters, RetrieveBasicAuthParameters, Configs, TextFields,
         AuthFields, WindowInOrder, Settings
<1>4. c4 \in Configs
  BY <1>3, KeysAre DEF RetrieveConnectionParameters, Configs, WindowInOrder, Settings
<1>5. ASSUME ~RetrieveThrows PROVE Whole(c4)
  <2>1. c4["maxConnections"] = "25" /\ c4["authType"] = window.authType
        /\ \A field \in AuthFields : c4[field] = GetText(field)
    BY <1>3, <1>5, KeysAre
       DEF RetrieveConnectionParameters, RetrieveThrows, Configs, AuthFields, WindowInOrder
  <2>2. \A field \in AuthFields \ FieldsOf(window.authType) : GetText(field) = ""
    BY DEF GetText, WindowInOrder, AuthFields
  <2> QED BY <2>1, <2>2 DEF Whole
<1>6. RetrieveParameters(config) = c4 BY DEF RetrieveParameters
<1> HIDE DEF c4
<1> QED BY <1>4, <1>5, <1>6

\* An answer FALSE to a request that has changed nothing for the worse.
LEMMA RefusalKeeps ==
  ASSUME DsnInv, request.at \in {"window", "section", "keys", "remove"}, Answer(FALSE),
         UNCHANGED ini
  PROVE  DsnInv'
<1>1. DsnTypeOK' BY DEF DsnInv, DsnTypeOK, Answer
<1>2. WindowInOrder' BY DEF DsnInv, DsnTypeOK, Answer, WindowInOrder
<1>3. AcceptedIsWhole' BY DEF DsnInv, DsnTypeOK, Answer, AcceptedIsWhole
<1>4. SuccessMeansStored' BY DEF DsnInv, DsnTypeOK, Answer, SuccessMeansStored
<1>5. RenameLosesNothing'
  BY DEF DsnInv, DsnTypeOK, Answer, ListAtPoint, RenameLosesNothing, Registering
<1>6. ListAtPoint'
  BY <1>4, <1>5 DEF DsnInv, DsnTypeOK, Answer, ListAtPoint
<1> QED BY <1>1, <1>2, <1>3, <1>6 DEF DsnInv

LEMMA OkButtonKeeps == ASSUME DsnInv, OkButton PROVE DsnInv'
<1>0. RetrieveParameters(request.config) \in Configs
      /\ (~RetrieveThrows => Whole(RetrieveParameters(request.config)))
  BY RetrievedIsWhole DEF DsnInv, OkButton, InWindow, DsnTypeOK
<1>1. Trimmed(window.name) \in Dsns \cup {""}
  BY DEF DsnInv, OkButton, InWindow, WindowInOrder, Trimmed
<1>2. DsnTypeOK' BY <1>0, <1>1 DEF DsnInv, DsnTypeOK, OkButton, InWindow
<1>3. RetrieveThrows \in BOOLEAN BY DEF RetrieveThrows
<1>4. WindowInOrder'
  BY <1>0, <1>3 DEF DsnInv, DsnTypeOK, OkButton, InWindow, WindowInOrder
<1>5. AcceptedIsWhole'
  BY DEF DsnInv, DsnTypeOK, WindowInOrder, OkButton, InWindow, AcceptedIsWhole
<1>6. ListAtPoint'
  BY DEF DsnInv, DsnTypeOK, ListAtPoint, OkButton, InWindow
<1> QED BY <1>2, <1>4, <1>5, <1>6 DEF DsnInv

LEMMA CloseWindowKeeps == ASSUME DsnInv, CloseWindow PROVE DsnInv'
<1>1. CASE window.accepted
  <2>1. DsnTypeOK' BY <1>1, ZenonT(30) DEF DsnInv, DsnTypeOK, CloseWindow
  <2>2. WindowInOrder' BY <1>1 DEF DsnInv, DsnTypeOK, CloseWindow, WindowInOrder
  <2>3. AcceptedIsWhole'
    <3>1. Whole(request.config) BY <1>1 DEF DsnInv, CloseWindow, WindowInOrder
    <3>2. request'.config = request.config BY <1>1 DEF DsnInv, DsnTypeOK, CloseWindow
    <3> QED BY <3>1, <3>2 DEF Whole, AcceptedIsWhole
  <2>4. ListAtPoint' BY <1>1, ZenonT(30) DEF DsnInv, DsnTypeOK, CloseWindow, ListAtPoint
  <2> QED BY <2>1, <2>2, <2>3, <2>4 DEF DsnInv
<1>2. CASE ~window.accepted
  BY <1>2, RefusalKeeps DEF CloseWindow
<1> QED BY <1>1, <1>2

LEMMA TestButtonKeeps == ASSUME DsnInv, TestButton PROVE DsnInv'
<1>1. CASE UNCHANGED <<request, window>>
  BY <1>1, WindowOnly DEF TestButton, InWindow, DsnInv, WindowInOrder
<1>2. CASE Answer(FALSE)
  BY <1>2, RefusalKeeps DEF TestButton, InWindow
<1> QED BY <1>1, <1>2 DEF TestButton

LEMMA WriteSectionKeeps == ASSUME DsnInv, WriteSection PROVE DsnInv'
<1>1. CASE Answer(FALSE) /\ UNCHANGED ini
  BY <1>1, RefusalKeeps DEF WriteSection
<1>2. CASE /\ request.name \in Dsns
           /\ ini' = [ini EXCEPT ![request.name] = NothingSet]
           /\ request' = [request EXCEPT !.at = "keys",
                             !.left = {key \in Keys : request.config[key] # Unset}]
  <2>1. DsnTypeOK' BY <1>2, AttributesAreConfigs DEF DsnInv, DsnTypeOK, Lists
  <2>2. WindowInOrder' BY <1>2 DEF DsnInv, DsnTypeOK, WindowInOrder
  <2>3. AcceptedIsWhole' BY <1>2 DEF DsnInv, DsnTypeOK, AcceptedIsWhole
  <2>4. ListAtPoint'
    BY <1>2, AttributesAreConfigs
       DEF WriteSection, DsnInv, DsnTypeOK, ListAtPoint, Lists, NothingSet
  <2> QED BY <2>1, <2>2, <2>3, <2>4 DEF DsnInv
<1> QED BY <1>1, <1>2 DEF WriteSection

LEMMA WriteDsnStringKeeps ==
  ASSUME DsnInv, NEW key \in Keys, WriteDsnString(key) PROVE DsnInv'
<1>1. CASE Answer(FALSE) /\ UNCHANGED ini
  BY <1>1, RefusalKeeps DEF WriteDsnString
<1>2. CASE /\ request' = [request EXCEPT !.left = @ \ {key}]
           /\ ini' = [ini EXCEPT ![request.name][key] = request.config[key]]
  <2>0. request.at = "keys" BY DEF WriteDsnString
  <2>1. [ini[request.name] EXCEPT ![key] = request.config[key]] \in Configs
    <3>1. ini[request.name] \in Configs /\ request.config \in Configs
      BY <2>0 DEF DsnInv, DsnTypeOK, ListAtPoint
    <3>2. [ini[request.name] EXCEPT ![key] = request.config[key]] \in [Keys -> Settings]
      BY <3>1 DEF Configs
    <3>3. \A k \in Keys : [ini[request.name] EXCEPT ![key] = request.config[key]][k] =
                         IF k = key THEN request.config[key] ELSE ini[request.name][k]
      BY <3>1 DEF Configs
    <3> QED BY <3>1, <3>2, <3>3, KeysAre DEF Configs
  <2>2. DsnTypeOK' BY <1>2, <2>1 DEF DsnInv, DsnTypeOK, Lists
  <2>3. WindowInOrder' BY <1>2, <2>0 DEF DsnInv, DsnTypeOK, WindowInOrder
  <2>4. AcceptedIsWhole' BY <1>2 DEF DsnInv, DsnTypeOK, AcceptedIsWhole
  <2>5. ini'[request.name] = [ini[request.name] EXCEPT ![key] = request.config[key]]
    BY <1>2, <2>0 DEF DsnInv, DsnTypeOK, Lists, ListAtPoint
  <2>6. \A k \in Keys \ request'.left : ini'[request.name][k] = request.config[k]
    <3>1. request'.left = request.left \ {key} BY <1>2 DEF DsnInv, DsnTypeOK
    <3>2. ini[request.name] \in [Keys -> Settings]
      BY <2>0 DEF DsnInv, ListAtPoint, Configs
    <3>3. \A k \in Keys \ request.left : ini[request.name][k] = request.config[k]
      BY <2>0 DEF DsnInv, ListAtPoint
    <3> QED BY <2>5, <3>1, <3>2, <3>3
  <2>7. ListAtPoint'
    BY <1>2, <2>0, <2>1, <2>5, <2>6, ZenonT(30) DEF DsnInv, DsnTypeOK, ListAtPoint, Lists
  <2> QED BY <2>2, <2>3, <2>4, <2>7 DEF DsnInv
<1> QED BY <1>1, <1>2 DEF WriteDsnString

\* A configuration all of whose settings the section has is the section.
LEMMA RegisteredKeeps == ASSUME DsnInv, Registered PROVE DsnInv'
<1>0. request.at = "keys" /\ request.left = {} /\ request.name \in Dsns
  BY DEF Registered, DsnInv, ListAtPoint
<1>1. ini[request.name] = request.config
  <2>1. ini[request.name] \in [Keys -> Settings] /\ request.config \in [Keys -> Settings]
    BY <1>0 DEF DsnInv, DsnTypeOK, ListAtPoint, Configs
  <2>2. \A key \in Keys : ini[request.name][key] = request.config[key]
    BY <1>0 DEF DsnInv, ListAtPoint
  <2> QED BY <2>1, <2>2
<1>2. CASE request.kind = "ODBC_CONFIG_DSN" /\ request.name # request.dsn
  <2>1. request' = [request EXCEPT !.at = "remove"] /\ UNCHANGED ini
    BY <1>2 DEF Registered
  <2> QED BY <1>0, <1>1, <1>2, <2>1
          DEF DsnInv, DsnTypeOK, WindowInOrder, AcceptedIsWhole, ListAtPoint
<1>3. CASE ~(request.kind = "ODBC_CONFIG_DSN" /\ request.name # request.dsn)
  <2>1. Answer(TRUE) /\ UNCHANGED ini BY <1>3 DEF Registered
  <2>2. request.kind \in Registering BY <1>0 DEF DsnInv, ListAtPoint
  <2>3. SuccessMeansStored' /\ RenameLosesNothing'
    BY <1>0, <1>1, <1>3, <2>1, <2>2
       DEF DsnInv, DsnTypeOK, SuccessMeansStored, RenameLosesNothing, Answer, Registering
  <2> QED BY <1>0, <2>1, <2>3
          DEF DsnInv, DsnTypeOK, WindowInOrder, AcceptedIsWhole, ListAtPoint, Answer
<1> QED BY <1>2, <1>3

LEMMA RemoveDsnKeeps == ASSUME DsnInv, RemoveDsn PROVE DsnInv'
<1>1. CASE Answer(FALSE) /\ UNCHANGED ini
  BY <1>1, RefusalKeeps DEF RemoveDsn
<1>2. CASE ini' = [ini EXCEPT ![request.dsn] = NoSection] /\ Answer(TRUE)
  <2>0. request.at = "remove" BY DEF RemoveDsn
  <2>1. DsnTypeOK' BY <1>2 DEF DsnInv, DsnTypeOK, Lists, Answer
  <2>2. WindowInOrder' BY <1>2 DEF DsnInv, DsnTypeOK, WindowInOrder, Answer
  <2>3. AcceptedIsWhole' BY <1>2 DEF DsnInv, DsnTypeOK, AcceptedIsWhole, Answer
  <2>4. SuccessMeansStored' /\ RenameLosesNothing'
    BY <1>2, <2>0
       DEF DsnInv, DsnTypeOK, Lists, ListAtPoint, SuccessMeansStored, RenameLosesNothing, Answer
  <2>5. ListAtPoint' BY <1>2, <2>4 DEF DsnInv, DsnTypeOK, ListAtPoint, Answer
  <2> QED BY <2>1, <2>2, <2>3, <2>5 DEF DsnInv
<1> QED BY <1>1, <1>2 DEF RemoveDsn

\* Reading the section of a name into a configuration.
LEMMA ReadIsConfig ==
  ASSUME DsnTypeOK, NEW dsn \in Dsns, NEW config \in Configs
  PROVE  ReadDsnConfiguration(dsn, config) \in Configs
<1>1. ini[dsn] # NoSection => ini[dsn] \in Configs BY DEF DsnTypeOK, Lists
<1> QED BY <1>1, KeysAre DEF ReadDsnConfiguration, Configs

\* The window opened on a configuration shows settings, and enables the controls
\* of its authentication type.
LEMMA WindowOpensInOrder ==
  ASSUME NEW dsn \in Dsns, NEW config \in Configs, window' = WindowOf(dsn, config),
         ~request'.accepted
  PROVE  WindowInOrder'
<1> DEFINE auth == CreateAuthenticationSettingsGroup(config)
<1>1. auth.authType \in AuthTypes /\ auth.text \in [AuthFields -> Settings]
  BY GetIsSetting, KeysAre DEF CreateAuthenticationSettingsGroup, AuthFields
<1>2. CreateLogSettingsGroup(config) \in Settings
  BY GetIsSetting, KeysAre DEF CreateLogSettingsGroup
<1>3. CreateAdvancedOptionsGroup(config) \in {"0", "25"}
  BY GetIsSetting DEF CreateAdvancedOptionsGroup
<1>4. /\ FieldsOf(auth.authType) \cup {"logPath"} \subseteq TextFields
      /\ {"authType"} \cup FieldsOf(auth.authType) \subseteq Keys
  BY <1>1, FieldsAreTexts, KeysAre DEF TextFields, AuthFields
<1> HIDE DEF auth
<1>5. [field \in TextFields |-> IF field = "logPath"
                  THEN CreateLogSettingsGroup(config) ELSE auth.text[field]]
        \in [TextFields -> Settings]
  BY <1>1, <1>2 DEF TextFields
<1>6. /\ window'.open = TRUE /\ window'.name = dsn /\ window'.authType = auth.authType
      /\ window'.enabled = FieldsOf(auth.authType) \cup {"logPath"}
      /\ window'.accepted = FALSE
  BY DEF WindowOf, auth
<1>7. window' \in [open : {TRUE}, name : Dsns \cup {"", " "}, authType : AuthTypes,
                   text : [TextFields -> Settings], maxConnections : {"0", "25"},
                   enabled : SUBSET TextFields, shown : SUBSET Keys,
                   tab : {"AUTHENTICATION", "ADVANCED_OPTIONS", "LOG_SETTINGS"},
                   ok : BOOLEAN, nameBalloon : BOOLEAN, maxConBalloon : BOOLEAN,
                   accepted : BOOLEAN, closing : BOOLEAN]
  BY <1>1, <1>3, <1>4, <1>5 DEF WindowOf, auth
<1> QED BY <1>6, <1>7 DEF WindowInOrder

LEMMA ConfigDSNKeeps ==
  ASSUME DsnInv,
         NEW kind \in {"ODBC_ADD_DSN", "ODBC_CONFIG_DSN", "ODBC_REMOVE_DSN", "other"},
         NEW dsn \in Dsns \cup {""}, NEW attributes \in AttributeSets, NEW parent \in BOOLEAN,
         ConfigDSN(kind, dsn, attributes, parent)
  PROVE  DsnInv'
<1> DEFINE config == IF kind = "ODBC_CONFIG_DSN" /\ dsn \in Dsns
                     THEN ReadDsnConfiguration(dsn, attributes) ELSE attributes
           windowed == kind \in {"ODBC_ADD_DSN", "ODBC_CONFIG_DSN"} /\ dsn \in Dsns /\ parent
           at == CASE kind = "ODBC_REMOVE_DSN" -> "remove"
                   [] windowed -> "window"
                   [] OTHER -> "section"
<1>1. config \in Configs
  BY ReadIsConfig, AttributesAreConfigs DEF DsnInv
<1>2. UNCHANGED ini /\ ini \in Lists BY DEF ConfigDSN, DsnInv, DsnTypeOK
<1>3. CASE dsn \notin Dsns \/ kind = "other"
  <2>1. request' = Refused BY <1>3 DEF ConfigDSN
  <2>2. DsnTypeOK' BY <1>2, <2>1, AttributesAreConfigs DEF DsnTypeOK, Refused, Idle
  <2>3. WindowInOrder' /\ AcceptedIsWhole' /\ ListAtPoint'
    BY <2>1 DEF Refused, Idle, WindowInOrder, AcceptedIsWhole, ListAtPoint,
                SuccessMeansStored, RenameLosesNothing
  <2> QED BY <2>2, <2>3 DEF DsnInv
<1>4. CASE dsn \in Dsns /\ kind # "other"
  <2>1. request' = [Idle EXCEPT !.kind = kind, !.dsn = dsn, !.name = dsn, !.config = config,
                                !.before = ini, !.at = at]
    BY <1>4 DEF ConfigDSN
  <2>2. at \in {"remove", "window", "section"} /\ (at = "remove" <=> kind = "ODBC_REMOVE_DSN")
        /\ (at = "window" => windowed)
    BY <1>4
  <2>3. at = "window" => window' = WindowOf(dsn, config)
    BY <2>2 DEF ConfigDSN
  <2> HIDE DEF at, config, windowed
  <2>4. DsnTypeOK'
    BY <1>1, <1>2, <1>4, <2>1, <2>2, AttributesAreConfigs DEF DsnTypeOK, Idle, Registering
  <2>5. WindowInOrder'
    BY <1>1, <1>4, <2>1, <2>3, WindowOpensInOrder DEF Idle, WindowInOrder
  <2>6. AcceptedIsWhole' BY <2>1 DEF Idle, AcceptedIsWhole
  <2>7. ListAtPoint'
    BY <1>2, <1>4, <2>1, <2>2 DEF Idle, ListAtPoint, Registering
  <2> QED BY <2>4, <2>5, <2>6, <2>7 DEF DsnInv
<1> QED BY <1>3, <1>4

LEMMA DsnInvStep == DsnInv /\ [DsnNext]_dsnVars => DsnInv'
<1> SUFFICES ASSUME DsnInv, [DsnNext]_dsnVars PROVE DsnInv' OBVIOUS
<1>0. CASE UNCHANGED dsnVars
  BY <1>0, WindowOnly, ZenonT(30) DEF dsnVars, DsnInv, WindowInOrder
<1>1. CASE WindowNext
  BY <1>1, EditsKeepOrder, OkButtonKeeps, TestButtonKeeps, CloseWindowKeeps DEF WindowNext
<1>2. CASE DsnNext /\ ~WindowNext
  BY <1>2, ConfigDSNKeeps, WriteSectionKeeps, WriteDsnStringKeeps, RegisteredKeeps,
     RemoveDsnKeeps DEF DsnNext
<1> QED BY <1>0, <1>1, <1>2

LEMMA DsnInvariant == DsnSpec => []DsnInv
  BY DsnInvInit, DsnInvStep, PTL DEF DsnSpec

\* ConfigDSN answers TRUE only when the list holds what was asked, for every set
\* of names and of texts and however many calls and edits come before
\* (system_dsn.cpp:146-203, dsn_config.cpp:339-358).
THEOREM SuccessMeansStoredHolds == DsnSpec => []SuccessMeansStored
<1>1. DsnInv => SuccessMeansStored BY DEF DsnInv, ListAtPoint, SuccessMeansStored
<1> QED BY DsnInvariant, <1>1, PTL

\* At every step of a renaming, and whatever write fails, the old or the new
\* name holds a whole configuration (system_dsn.cpp:178-184).
THEOREM RenameLosesNothingHolds == DsnSpec => []RenameLosesNothing
<1>1. DsnInv => RenameLosesNothing
  BY DEF DsnInv, DsnTypeOK, ListAtPoint, RenameLosesNothing
<1> QED BY DsnInvariant, <1>1, PTL

\* What the window accepts holds the texts of its authentication type only
\* (dsn_configuration_window.cpp:407-478, 839-853 and 1010-1167).
THEOREM AcceptedIsWholeHolds == DsnSpec => []AcceptedIsWhole
<1>1. DsnInv => AcceptedIsWhole BY DEF DsnInv
<1> QED BY DsnInvariant, <1>1, PTL

=============================================================================
