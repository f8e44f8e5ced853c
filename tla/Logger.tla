-------------------------------- MODULE Logger --------------------------------
(***************************************************************************)
(* The log of the process (log.cpp, and the macro WRITE_MSG_TO_STREAM of   *)
(* log.h): one Logger, used by the threads of all connections.  A thread   *)
(* logs a message, or changes the directory or the level of the log, which *)
(* every connection string, data source and use of the setup window may do *)
(* (configuration.cpp:412-432).                                            *)
(*                                                                         *)
(* An action is the code between two accesses to the state the threads     *)
(* share.  The mutex is held while the file is named and opened, written   *)
(* and closed, never while IsEnabled is asked nor while the directory and  *)
(* the level are changed; naming and opening are two steps, for logPath is *)
(* read in between.  A message has a level and no text.  The temporary     *)
(* stream of the macro is used by the tests only.                          *)
(***************************************************************************)
EXTENDS Integers

CONSTANTS Threads,     \* the threads
          Free,        \* the mutex is held by no thread
          Paths,       \* the directories the log may be set to
          Unwritable,  \* those in which no file can be opened
          DefaultPath, \* GetDefaultLogPath
          NoFile       \* no file is open, none has been named

ASSUME LogPathsAssumption ==
  /\ Unwritable \subseteq Paths /\ DefaultPath \in Paths
  /\ NoFile \notin Paths /\ Free \notin Threads

VARIABLES
  logLevel,     \* 0: OFF; 1: ERROR and WARNING; 2: INFO; 3: DEBUG_LEVEL
  logPath,      \* the directory asked for
  logFilePath,  \* the directory of the file named; NoFile: logFileName empty
  stream,       \* is it the file stream, or not set yet?
  fileStream,   \* [open: the directory of the open file, good: no error bit]
  logMutex,     \* the thread that holds the mutex
  logger,       \* each thread: where it is, and where it goes on after the
                \* message it is logging
  mishaps       \* history, a subset of "lost": a message accepted was not
                \* written; "reopened": an open file was opened again;
                \* "closed": the file was closed under a message accepted;
                \* "stale": a new directory came while a file had its name

loggerVars ==
  <<logLevel, logPath, logFilePath, stream, fileStream, logMutex, logger, mishaps>>

Levels == 0..3

LoggerInit ==
  /\ logLevel = 1 /\ logPath = DefaultPath /\ logFilePath = NoFile
  /\ stream = FALSE /\ fileStream = [open |-> NoFile, good |-> TRUE]
  /\ logMutex = Free
  /\ logger = [t \in Threads |-> [at |-> "idle", after |-> "idle"]]
  /\ mishaps = {}

\* Logger::IsEnabled
IsEnabled == stream /\ fileStream.open # NoFile

GoTo(t, place) == logger' = [logger EXCEPT ![t].at = place]
MessageDone(t) ==
  logger' = [logger EXCEPT ![t] = [at |-> logger[t].after, after |-> "idle"]]

\* The macro, to where the message is formatted or the log is to be enabled;
\* the thread goes on at `after'.
LogMessage(t, level, after) ==
  logger' = [logger EXCEPT ![t] =
               IF logLevel < level THEN [at |-> after, after |-> "idle"]
               ELSE [at |-> IF IsEnabled THEN "message" ELSE "enable", after |-> after]]

-----------------------------------------------------------------------------
(* Logging *)

Log(t, level) ==
  /\ logger[t].at = "idle"
  /\ LogMessage(t, level, "idle")
  /\ UNCHANGED <<logLevel, logPath, logFilePath, stream, fileStream, logMutex, mishaps>>

\* EnableLog, to the mutex; the check is made without it.
EnableLog(t) ==
  /\ logger[t].at = "enable"
  /\ stream' = TRUE
  /\ IF fileStream.open = NoFile
       THEN IF logLevel # 0 THEN GoTo(t, "lock") ELSE MessageDone(t)
       ELSE GoTo(t, "message")
  /\ UNCHANGED <<logLevel, logPath, logFilePath, fileStream, logMutex, mishaps>>

NameFile(t) ==
  /\ logger[t].at = "lock" /\ logMutex = Free
  /\ logMutex' = t
  /\ logFilePath' = IF logFilePath = NoFile THEN logPath ELSE logFilePath
  /\ GoTo(t, "open")
  /\ UNCHANGED <<logLevel, logPath, stream, fileStream, mishaps>>

\* Opening an open stream sets its error bit, and opening clears it.
FileOpened ==
  CASE fileStream.open # NoFile   -> [fileStream EXCEPT !.good = FALSE]
    [] logFilePath \in Unwritable -> [fileStream EXCEPT !.good = FALSE]
    [] OTHER                      -> [open |-> logFilePath, good |-> TRUE]

\* Faulty: EnableLog answers that the log is enabled whatever became of it.
OpenFileAnyway(t) ==
  /\ logger[t].at = "open"
  /\ fileStream' = FileOpened
  /\ mishaps' = mishaps \cup (IF fileStream.open # NoFile THEN {"reopened"} ELSE {})
  /\ logMutex' = Free
  /\ GoTo(t, "message")
  /\ UNCHANGED <<logLevel, logPath, logFilePath, stream>>

\* The message is accepted if the log is enabled by now.
OpenFile(t) ==
  /\ logger[t].at = "open"
  /\ fileStream' = FileOpened
  /\ mishaps' = mishaps \cup (IF fileStream.open # NoFile THEN {"reopened"} ELSE {})
  /\ logMutex' = Free
  /\ IF fileStream'.open # NoFile THEN GoTo(t, "message") ELSE MessageDone(t)
  /\ UNCHANGED <<logLevel, logPath, logFilePath, stream>>

\* WriteMessage, to the mutex.
CheckEnabled(t) ==
  /\ logger[t].at = "message"
  /\ IF IsEnabled THEN GoTo(t, "write") /\ UNCHANGED mishaps
     ELSE MessageDone(t) /\ mishaps' = mishaps \cup {"lost"}
  /\ UNCHANGED <<logLevel, logPath, logFilePath, stream, fileStream, logMutex>>

\* Under the mutex.  Nothing is written to a stream that is closed, which sets
\* its error bit, nor to one whose error bit is set.
WriteMessage(t) ==
  /\ logger[t].at = "write" /\ logMutex = Free
  /\ fileStream' = [fileStream EXCEPT !.good = @ /\ fileStream.open # NoFile]
  /\ mishaps' = mishaps \cup (IF fileStream'.good THEN {} ELSE {"lost"})
  /\ MessageDone(t)
  /\ UNCHANGED <<logLevel, logPath, logFilePath, stream, logMutex>>

-----------------------------------------------------------------------------
(* SetLogPath and SetLogLevel *)

\* A directory that exists; Configuration::SetLogPath drops the others.
SetLogPath(t, path) ==
  /\ logger[t].at = "idle"
  /\ logPath' = path
  /\ IF path = logPath THEN LogMessage(t, 3, "idle") ELSE GoTo(t, "apply")
  /\ UNCHANGED <<logLevel, logFilePath, stream, fileStream, logMutex, mishaps>>

\* Is there a file to close?  Not while the level is OFF, though one may be open.
ApplyPath(t) ==
  /\ logger[t].at = "apply"
  /\ IF IsEnabled /\ logLevel # 0
       THEN LogMessage(t, 2, "close") /\ UNCHANGED mishaps
       ELSE /\ GoTo(t, "stream")
            /\ mishaps' = IF logFilePath = NoFile THEN mishaps ELSE mishaps \cup {"stale"}
  /\ UNCHANGED <<logLevel, logPath, logFilePath, stream, fileStream, logMutex>>

\* The file is closed, also under a thread whose message is accepted; the second
\* message, which opens the new file, is logged next.
FileClosed(t) ==
  /\ logger[t].at = "close" /\ logMutex = Free
  /\ fileStream' = [fileStream EXCEPT !.open = NoFile]
  /\ mishaps' = (mishaps \ {"stale"}) \cup
       (IF \E u \in Threads : logger[u].at \in {"message", "write"} THEN {"closed"} ELSE {})
  /\ logger' = [logger EXCEPT ![t] =
                  IF logLevel < 2 THEN [at |-> "stream", after |-> "idle"]
                  ELSE [at |-> "enable", after |-> "stream"]]
  /\ UNCHANGED <<logLevel, logPath, stream, logMutex>>

\* Faulty: the name of the file is not erased.
CloseFileOnly(t) == FileClosed(t) /\ UNCHANGED logFilePath

\* Under the mutex.
CloseFile(t) == FileClosed(t) /\ logFilePath' = NoFile

SetLogStream(t) ==
  /\ logger[t].at = "stream"
  /\ stream' = TRUE
  /\ GoTo(t, "idle")
  /\ UNCHANGED <<logLevel, logPath, logFilePath, fileStream, logMutex, mishaps>>

SetLogLevel(t, level) ==
  /\ logger[t].at = "idle"
  /\ logLevel' = level
  /\ UNCHANGED <<logPath, logFilePath, stream, fileStream, logMutex, logger, mishaps>>

-----------------------------------------------------------------------------
\* A thread inside a call.
LoggerStep(t) ==
  \/ EnableLog(t) \/ NameFile(t) \/ OpenFile(t) \/ CheckEnabled(t)
  \/ WriteMessage(t) \/ ApplyPath(t) \/ CloseFile(t) \/ SetLogStream(t)

\* A thread goes on in its call or makes one.
LoggerThread(t) ==
  \/ LoggerStep(t)
  \/ \E level \in Levels \ {0} : Log(t, level)
  \/ \E path \in Paths : SetLogPath(t, path)
  \/ \E level \in Levels : SetLogLevel(t, level)

LoggerNext == \E t \in Threads : LoggerThread(t)

LoggerSpec == LoggerInit /\ [][LoggerNext]_loggerVars

-----------------------------------------------------------------------------
(* Properties *)

\* An accepted message, one for which EnableLog or IsEnabled answered yes, is
\* in a log file, except after a second thread has opened the file that was
\* open already (log.cpp:160-177: the check is made without the mutex) or when
\* SetLogPath has closed the file between the check and the write.
LostOnlyByRace == "lost" \in mishaps => mishaps \cap {"reopened", "closed"} # {}

\* When no call is under way, the open file is in the directory that was set
\* last, unless that was set while the level was OFF, another thread was opening
\* the file or opening had failed: then the name of the file is kept
\* (log.cpp:118-133).
FileFollowsPath ==
  /\ \A t \in Threads : logger[t].at = "idle"
  /\ fileStream.open # NoFile
  /\ "stale" \notin mishaps
  => fileStream.open = logPath

=============================================================================
