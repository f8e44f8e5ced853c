------------------------------ MODULE MCProcess ------------------------------
(***************************************************************************)
(* Instances of three modules about what the process holds once, whatever  *)
(* the number of its connections, and that share no state: the AWS SDK,    *)
(* the log, and the data sources with the window that sets them up.  A     *)
(* behaviour is one of one of them; the state of the others stays as it    *)
(* was at the start.                                                       *)
(***************************************************************************)
EXTENDS SdkLifecycle, Logger, DsnSetup

VARIABLE part      \* the module the behaviour is one of

allVars == <<part, vars, loggerVars, dsnVars>>

ProcessInit ==
  /\ part \in {"sdk", "logger", "dsn"}
  /\ Init /\ LoggerInit /\ DsnInit

ProcessNext ==
  /\ part' = part
  /\ \/ part = "sdk" /\ Next /\ UNCHANGED <<loggerVars, dsnVars>>
     \/ part = "logger" /\ LoggerNext /\ UNCHANGED <<vars, dsnVars>>
     \/ part = "dsn" /\ DsnNext /\ UNCHANGED <<vars, loggerVars>>

\* A constructor or a destructor that has begun runs on (SdkLifecycle, FairSpec).
ProcessSpec ==
  /\ ProcessInit /\ [][ProcessNext]_allVars
  /\ \A c \in Connections :
       /\ WF_allVars(part = "sdk" /\ Constructor(c) /\ UNCHANGED <<part, loggerVars, dsnVars>>)
       /\ WF_allVars(part = "sdk" /\ Destructor(c) /\ UNCHANGED <<part, loggerVars, dsnVars>>)
=============================================================================
