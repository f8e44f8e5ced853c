------------------------------ MODULE CursorNames ------------------------------
(***************************************************************************)
(* The cursor names of the statements of one connection: the set           *)
(* cursorNames_ and the map cursorNameMap_ (connection.cpp:798-847), as    *)
(* SQLSetCursorName and SQLFreeStmt use them.  Each statement is used by   *)
(* one thread; threads of different statements run at the same time.       *)
(*                                                                         *)
(* A statement handle is its address: a freed one may be allocated again.  *)
(***************************************************************************)
EXTENDS Naturals, FiniteSets

CONSTANTS Stmts,         \* statements of the connection
          Names,         \* cursor names that pass the checks of their form
          NoName         \* no cursor name

ASSUME NoNameAssumption == NoName \notin Names

VARIABLES
  cursorNames,     \* Connection::cursorNames_
  cursorNameMap,   \* Connection::cursorNameMap_, NoName when absent
  allocated,       \* the statements that exist
  adding,          \* the name SQLSetCursorName has found unused, else NoName
  collided         \* history: two overlapping calls have set the same name

vars == <<cursorNames, cursorNameMap, allocated, adding, collided>>

Init ==
  /\ cursorNames = {}
  /\ cursorNameMap = [s \in Stmts |-> NoName]
  /\ allocated = {}
  /\ adding = [s \in Stmts |-> NoName]
  /\ collided = FALSE

\* Statement s may begin a call.
Idle(s) == adding[s] = NoName

\* Another statement has found the name unused and not yet added it.
Collides(s, name) == \E t \in Stmts \ {s} : adding[t] = name

AllocStmt(s) ==
  /\ s \notin allocated
  /\ allocated' = allocated \cup {s}
  /\ UNCHANGED <<cursorNames, cursorNameMap, adding, collided>>

-----------------------------------------------------------------------------
(* Statement::InternalSetCursorName *)

CursorNameExists(name) == name \in cursorNames

\* Faulty: the name is not looked up.
SetCursorNameUnchecked(s, name) ==
  /\ s \in allocated /\ Idle(s)
  /\ adding' = [adding EXCEPT ![s] = name]
  /\ collided' = (collided \/ Collides(s, name))
  /\ UNCHANGED <<cursorNames, cursorNameMap, allocated>>

\* The lookup, made without cursorNameMutex_.  A name that is too long, that
\* begins with SQL_CUR or that exists is refused and changes nothing.
SetCursorName(s, name) ==
  /\ s \in allocated /\ Idle(s)
  /\ ~CursorNameExists(name)
  /\ adding' = [adding EXCEPT ![s] = name]
  /\ collided' = (collided \/ Collides(s, name))
  /\ UNCHANGED <<cursorNames, cursorNameMap, allocated>>

\* Under cursorNameMutex_.
AddCursorName(s) ==
  /\ adding[s] # NoName
  /\ cursorNames' = (cursorNames \ {cursorNameMap[s]}) \cup {adding[s]}
  /\ cursorNameMap' = [cursorNameMap EXCEPT ![s] = adding[s]]
  /\ adding' = [adding EXCEPT ![s] = NoName]
  /\ UNCHANGED <<allocated, collided>>

\* Faulty: the name is not removed.
FreeStmtKeepsName(s) ==
  /\ s \in allocated /\ Idle(s)
  /\ allocated' = allocated \ {s}
  /\ UNCHANGED <<cursorNames, cursorNameMap, adding, collided>>

\* SQLFreeStmt(SQL_DROP): RemoveCursorName, then the statement is deleted.
FreeStmt(s) ==
  /\ s \in allocated /\ Idle(s)
  /\ cursorNames' = cursorNames \ {cursorNameMap[s]}
  /\ cursorNameMap' = [cursorNameMap EXCEPT ![s] = NoName]
  /\ allocated' = allocated \ {s}
  /\ UNCHANGED <<adding, collided>>

-----------------------------------------------------------------------------
Next == \E s \in Stmts :
          \/ AllocStmt(s) \/ AddCursorName(s) \/ FreeStmt(s)
          \/ \E name \in Names : SetCursorName(s, name)

Spec == Init /\ [][Next]_vars

-----------------------------------------------------------------------------
(* Properties *)

TypeOK ==
  /\ cursorNames \subseteq Names
  /\ cursorNameMap \in [Stmts -> Names \cup {NoName}]
  /\ allocated \subseteq Stmts
  /\ adding \in [Stmts -> Names \cup {NoName}]
  /\ collided \in BOOLEAN

\* The names in use, by the map.
Held == {cursorNameMap[s] : s \in Stmts} \ {NoName}

\* No two statements of a connection have the same cursor name
\* (statement.cpp:1448, "cursor name must be unique for a connection"), as
\* long as no two overlapping calls set the same name: the lookup and the
\* addition are not one step, and two such calls both succeed.
NamesUnique ==
  ~collided =>
    \A s, t \in Stmts :
      cursorNameMap[s] = cursorNameMap[t] /\ s # t => cursorNameMap[s] = NoName

\* Under the same condition the set and the map agree: a name is refused
\* exactly when a statement has it.
SetIsHeldNames == ~collided => cursorNames = Held

\* A statement that is gone has no name, so that a statement allocated at its
\* address starts without one, and no name is refused on behalf of nobody.
\* This holds even when calls of different statements overlap.
NoNameLeftBehind ==
  /\ \A s \in Stmts \ allocated : cursorNameMap[s] = NoName
  /\ cursorNames \subseteq Held

=============================================================================
