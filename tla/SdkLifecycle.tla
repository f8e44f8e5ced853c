----------------------------- MODULE SdkLifecycle -----------------------------
(***************************************************************************)
(* The life of the AWS SDK, shared by all connections of the process       *)
(* (connection.cpp:56-101).  The first Connection constructed initialises  *)
(* it under a mutex, after a check of awsSDKReady_ made without it; the    *)
(* destructor that takes the atomic refCount_ to zero shuts it down, with  *)
(* no mutex.                                                               *)
(*                                                                         *)
(* Each connection is constructed and destroyed by a thread of its own,    *)
(* any number of times.  An action is one access to the shared state:      *)
(* awsSDKReady_, mutex_, refCount_ or the SDK.  InitAPI and ShutdownAPI    *)
(* take time: they have a start and an end.                                *)
(***************************************************************************)
EXTENDS Integers, FiniteSets

CONSTANTS Connections,  \* the connections
          Serialized    \* the application never runs a constructor while a
                        \* destructor runs, nor the other way round

ASSUME ConnectionsAssumption == IsFiniteSet(Connections)
ASSUME SerializedAssumption == Serialized \in BOOLEAN

VARIABLES
  awsSDKReady,   \* Connection::awsSDKReady_
  mutex,         \* Connection::mutex_: held or not
  refCount,      \* Connection::refCount_
  sdk,           \* the SDK: "down", "starting", "up" or "stopping"
  pc             \* where each connection's thread is

vars == <<awsSDKReady, mutex, refCount, sdk, pc>>

Constructing == {"lock", "recheck", "init", "ready", "unlock", "count"}
Destroying   == {"uncount", "shutdown", "stopping", "unready"}

\* Construction is over and destruction has not begun.
Live == {c \in Connections : pc[c] = "live"}

Init ==
  /\ awsSDKReady = FALSE /\ mutex = FALSE /\ refCount = 0
  /\ sdk = "down"
  /\ pc = [c \in Connections |-> "none"]

At(c, from, to) == pc[c] = from /\ pc' = [pc EXCEPT ![c] = to]

-----------------------------------------------------------------------------
(* Connection::Connection *)

\* The first check, without the mutex.
CheckReady(c) ==
  /\ At(c, "none", IF awsSDKReady THEN "count" ELSE "lock")
  /\ Serialized => \A d \in Connections : pc[d] \notin Destroying
  /\ UNCHANGED <<awsSDKReady, mutex, refCount, sdk>>

Lock(c) ==
  /\ At(c, "lock", "recheck")
  /\ ~mutex
  /\ mutex' = TRUE
  /\ UNCHANGED <<awsSDKReady, refCount, sdk>>

\* Faulty: the flag is not checked again under the mutex.
RecheckNever(c) ==
  /\ At(c, "recheck", "init")
  /\ UNCHANGED <<awsSDKReady, mutex, refCount, sdk>>

Recheck(c) ==
  /\ At(c, "recheck", IF awsSDKReady THEN "unlock" ELSE "init")
  /\ UNCHANGED <<awsSDKReady, mutex, refCount, sdk>>

InitAPIStart(c) ==
  /\ At(c, "init", "ready")
  /\ sdk' = "starting"
  /\ UNCHANGED <<awsSDKReady, mutex, refCount>>

InitAPIEnd(c) ==
  /\ At(c, "ready", "unlock")
  /\ sdk' = "up"
  /\ awsSDKReady' = TRUE
  /\ UNCHANGED <<mutex, refCount>>

\* Faulty: the mutex is not released.
UnlockNever(c) ==
  /\ At(c, "unlock", "count")
  /\ UNCHANGED <<awsSDKReady, mutex, refCount, sdk>>

Unlock(c) ==
  /\ At(c, "unlock", "count")
  /\ mutex' = FALSE
  /\ UNCHANGED <<awsSDKReady, refCount, sdk>>

Count(c) ==
  /\ At(c, "count", "live")
  /\ refCount' = refCount + 1
  /\ UNCHANGED <<awsSDKReady, mutex, sdk>>

-----------------------------------------------------------------------------
(* Connection::~Connection *)

Destroy(c) ==
  /\ At(c, "live", "uncount")
  /\ Serialized => \A d \in Connections : pc[d] \notin Constructing
  /\ UNCHANGED <<awsSDKReady, mutex, refCount, sdk>>

\* Faulty: the SDK is shut down with one connection left.
UncountTooEarly(c) ==
  /\ refCount' = refCount - 1
  /\ At(c, "uncount", IF refCount' <= 1 THEN "shutdown" ELSE "none")
  /\ UNCHANGED <<awsSDKReady, mutex, sdk>>

Uncount(c) ==
  /\ refCount' = refCount - 1
  /\ At(c, "uncount", IF refCount' = 0 THEN "shutdown" ELSE "none")
  /\ UNCHANGED <<awsSDKReady, mutex, sdk>>

ShutdownAPIStart(c) ==
  /\ At(c, "shutdown", "stopping")
  /\ sdk' = "stopping"
  /\ UNCHANGED <<awsSDKReady, mutex, refCount>>

ShutdownAPIEnd(c) ==
  /\ At(c, "stopping", "unready")
  /\ sdk' = "down"
  /\ UNCHANGED <<awsSDKReady, mutex, refCount>>

Unready(c) ==
  /\ At(c, "unready", "none")
  /\ awsSDKReady' = FALSE
  /\ UNCHANGED <<mutex, refCount, sdk>>

-----------------------------------------------------------------------------
Constructor(c) ==
  \/ Lock(c) \/ Recheck(c) \/ InitAPIStart(c) \/ InitAPIEnd(c)
  \/ Unlock(c) \/ Count(c)
Destructor(c) ==
  Uncount(c) \/ ShutdownAPIStart(c) \/ ShutdownAPIEnd(c) \/ Unready(c)

Next == \E c \in Connections :
          CheckReady(c) \/ Destroy(c) \/ Constructor(c) \/ Destructor(c)

Spec == Init /\ [][Next]_vars

\* A constructor or destructor that has begun runs on.  Taking the mutex needs
\* no more than this: each holder is a constructor that comes back to it at
\* most once.
FairSpec == Spec /\ \A c \in Connections :
                      WF_vars(Constructor(c)) /\ WF_vars(Destructor(c))

-----------------------------------------------------------------------------
(* Properties *)

\* The SDK is up as long as a constructed connection exists, the promise of
\* connection.cpp:68: "guarantee InitAPI is executed before all Connection
\* objects start to run".
SdkUpWhileLive == Live # {} => sdk = "up"

\* InitAPI starts only on an SDK that is down and ShutdownAPI only on one that
\* is up: connection.cpp:64, "It should only be initialized only once", and :93,
\* "It should be shutdown only once by the last Connection destructor".
InitAndShutdownAlternate ==
  [][\A c \in Connections : /\ InitAPIStart(c) => sdk = "down"
                            /\ ShutdownAPIStart(c) => sdk = "up"]_vars

\* Every constructor and every destructor ends.
LifecycleCallsEnd ==
  \A c \in Connections :
    pc[c] \notin {"none", "live"} ~> pc[c] \in {"none", "live"}

=============================================================================
