----------------------------- MODULE Descriptors -----------------------------
(***************************************************************************)
(* The row descriptors of the statements of several connections           *)
(* (descriptor.cpp, statement.cpp, odbc.cpp).  A statement owns an         *)
(* implicit ARD and IRD and points at its active ones; an application may  *)
(* allocate descriptors of its own, make one the active ARD of a statement *)
(* (SQL_ATTR_APP_ROW_DESC), copy descriptors and free them.  A descriptor  *)
(* keeps a raw pointer to "its" statement, a statement a raw pointer to    *)
(* its active ARD; the model looks at whether those pointers agree.        *)
(*                                                                         *)
(* A statement's identity is its address, so a freed one may come back as  *)
(* a new statement.  The parameter descriptors (APD, IPD) are never active *)
(* for anything and are left out; the records of a descriptor are those of *)
(* the module DescriptorRecords.                                           *)
(***************************************************************************)
EXTENDS Naturals

CONSTANTS
  Conns,      \* connection handles
  Stmts,      \* addresses of statements
  Descs,      \* addresses of descriptors the application allocates
  NULL        \* the null pointer

Ardi(s) == <<"ARD", s>>
Irdi(s) == <<"IRD", s>>
Implicit == {"ARD", "IRD"} \X Stmts
Handles == Descs \cup Implicit

ASSUME NullAssumption == NULL \notin Conns \cup Stmts \cup Handles
ASSUME HandlesAssumption == Descs \cap Implicit = {}

VARIABLES
  conn,   \* the connection of each live statement, NULL when freed
  ard,    \* Statement::ard, the active ARD
  ird,    \* Statement::ird, the active IRD
  live,   \* the descriptors that are allocated
  desc,   \* conn_, stmt_ and type_ of each descriptor
  copiedOver  \* history: something was copied onto an implicit descriptor or
              \* onto an active one

vars == <<conn, ard, ird, live, desc, copiedOver>>

DescTypes == {"UNKNOWN", "ARD", "IRD"}
DescRecord == [conn : Conns \cup {NULL}, stmt : Stmts \cup {NULL},
               type : DescTypes]

Blank == [conn |-> NULL, stmt |-> NULL, type |-> "UNKNOWN"]

TypeOK ==
  /\ conn \in [Stmts -> Conns \cup {NULL}]
  /\ ard \in [Stmts -> Handles \cup {NULL}]
  /\ ird \in [Stmts -> Handles \cup {NULL}]
  /\ live \subseteq Handles
  /\ desc \in [Handles -> DescRecord]
  /\ copiedOver \in BOOLEAN

Allocated(s) == conn[s] # NULL

Init ==
  /\ conn = [s \in Stmts |-> NULL]
  /\ ard = [s \in Stmts |-> NULL] /\ ird = [s \in Stmts |-> NULL]
  /\ live = {}
  /\ desc = [h \in Handles |-> Blank]
  /\ copiedOver = FALSE

-----------------------------------------------------------------------------
(* Statements *)

\* The constructor makes the implicit descriptors, which belong to no
\* connection, and makes them the active ones.
AllocStmt(s, c) ==
  /\ ~Allocated(s)
  /\ conn' = [conn EXCEPT ![s] = c]
  /\ ard' = [ard EXCEPT ![s] = Ardi(s)]
  /\ ird' = [ird EXCEPT ![s] = Irdi(s)]
  /\ live' = live \cup {Ardi(s), Irdi(s)}
  /\ desc' = [desc EXCEPT
       ![Ardi(s)] = [conn |-> NULL, stmt |-> s, type |-> "ARD"],
       ![Irdi(s)] = [conn |-> NULL, stmt |-> s, type |-> "IRD"]]
  /\ UNCHANGED copiedOver

\* SQLFreeStmt with SQL_DROP deletes the statement and its implicit
\* descriptors; the descriptors that point at it are not told.
FreeStmt(s) ==
  /\ Allocated(s)
  /\ conn' = [conn EXCEPT ![s] = NULL]
  /\ ard' = [ard EXCEPT ![s] = NULL] /\ ird' = [ird EXCEPT ![s] = NULL]
  /\ live' = live \ {Ardi(s), Irdi(s)}
  /\ desc' = [desc EXCEPT ![Ardi(s)] = Blank, ![Irdi(s)] = Blank]
  /\ UNCHANGED copiedOver

\* SQL_ATTR_APP_ROW_DESC with a descriptor: one of another connection (every
\* implicit one) or one that points at another statement is refused.
SetARDDesc(s, d) ==
  /\ Allocated(s)
  /\ d \in live /\ desc[d].conn = conn[s] /\ desc[d].stmt \in {NULL, s}
  /\ desc' = [desc EXCEPT ![d].type = "ARD", ![d].stmt = s]
  /\ ard' = [ard EXCEPT ![s] = d]
  /\ UNCHANGED <<conn, ird, live, copiedOver>>

\* SQL_ATTR_APP_ROW_DESC with a null pointer; the descriptor that was active
\* keeps its pointer to the statement.
ResetARDDesc(s) ==
  /\ Allocated(s)
  /\ ard' = [ard EXCEPT ![s] = Ardi(s)]
  /\ UNCHANGED <<conn, ird, live, desc, copiedOver>>

-----------------------------------------------------------------------------
(* Descriptors *)

AllocDesc(d, c) ==
  /\ d \notin live
  /\ live' = live \cup {d}
  /\ desc' = [desc EXCEPT ![d] = [Blank EXCEPT !.conn = c]]
  /\ UNCHANGED <<conn, ard, ird, copiedOver>>

\* Faulty: the ARD is restored for an IRD and the other way round.
RestoreDescriptorSwapped(s, type) ==
  /\ ard' = IF s # NULL /\ Allocated(s) /\ type = "IRD"
              THEN [ard EXCEPT ![s] = Ardi(s)] ELSE ard
  /\ ird' = IF s # NULL /\ Allocated(s) /\ type = "ARD"
              THEN [ird EXCEPT ![s] = Irdi(s)] ELSE ird

\* Statement::RestoreDescriptor.  On a null pointer only the branch that logs
\* can be taken, and on a freed statement the assignment is lost.
RestoreDescriptor(s, type) ==
  /\ ard' = IF s # NULL /\ Allocated(s) /\ type = "ARD"
              THEN [ard EXCEPT ![s] = Ardi(s)] ELSE ard
  /\ ird' = IF s # NULL /\ Allocated(s) /\ type = "IRD"
              THEN [ird EXCEPT ![s] = Irdi(s)] ELSE ird

\* SQLFreeDescriptor: Deregister, then delete.
FreeDescriptor(d) ==
  /\ d \in live
  /\ RestoreDescriptor(desc[d].stmt, desc[d].type)
  /\ live' = live \ {d}
  /\ desc' = [desc EXCEPT ![d] = Blank]
  /\ UNCHANGED <<conn, copiedOver>>

Active(h) == \E s \in Stmts : ard[s] = h

\* History: was dst something else than an inactive descriptor of the
\* application?
NoteCopy(dst) ==
  copiedOver' = (copiedOver \/ dst \in Implicit \/ Active(dst))

\* SQLCopyDesc copies the type, the connection and the statement along with
\* the records; the only destination refused is an IRD.
CopyDesc(src, dst) ==
  /\ src \in live /\ dst \in live
  /\ NoteCopy(dst)
  /\ desc[dst].type # "IRD"
  /\ desc' = [desc EXCEPT ![dst] = desc[src]]
  /\ UNCHANGED <<conn, ard, ird, live>>

-----------------------------------------------------------------------------
Next ==
  \/ \E s \in Stmts :
       \/ \E c \in Conns : AllocStmt(s, c)
       \/ FreeStmt(s)
       \/ \E d \in Handles : SetARDDesc(s, d)
       \/ ResetARDDesc(s)
  \/ \E d \in Descs :
       \/ \E c \in Conns : AllocDesc(d, c)
       \/ FreeDescriptor(d)
  \/ \E src, dst \in Handles : CopyDesc(src, dst)

Spec == Init /\ [][Next]_vars

-----------------------------------------------------------------------------
(* SQLCopyDesc overwrites the association of its destination, so three of    *)
(* the properties hold only until something is copied onto an implicit       *)
(* descriptor or onto an active one.                                         *)

\* The ARD a live statement points at exists: SQLBindCol and the row
\* attributes write through that pointer (statement.cpp:161, 378).  Freeing a
\* descriptor must therefore find every statement that uses it.
ActiveArdAlive ==
  ~copiedOver => \A s \in Stmts : Allocated(s) => ard[s] \in live

\* No two live statements write their bindings into the same ARD, which is
\* what "Descriptor has been set to another statement." (statement.cpp:361)
\* keeps out.
ArdNotShared ==
  ~copiedOver =>
    \A s, t \in Stmts :
      s # t /\ Allocated(s) /\ Allocated(t) => ard[s] # ard[t]

\* An application's descriptor is active only for a statement of its own
\* connection (statement.cpp:352), addresses of statements reused.
ArdOfOwnConnection ==
  ~copiedOver =>
    \A s \in Stmts :
      Allocated(s) /\ ard[s] \in Descs => desc[ard[s]].conn = conn[s]

\* The ARD that is active for a live statement exists, is used by no other and
\* is of the statement's connection, in whatever order statements and
\* descriptors are allocated, associated and freed.
ArdSound == ActiveArdAlive /\ ArdNotShared /\ ArdOfOwnConnection

\* The implicit IRD of a live statement keeps its type and statement whatever
\* is copied where ("Cannot modify an implementation row descriptor",
\* descriptor.cpp:433), so the IRD restored is always the statement's own.
IrdNeverModified ==
  \A s \in Stmts :
    Allocated(s) =>
      /\ ird[s] = Irdi(s)
      /\ desc[Irdi(s)] = [conn |-> NULL, stmt |-> s, type |-> "IRD"]
=============================================================================
