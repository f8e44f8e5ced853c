------------------------------ MODULE MCHandles ------------------------------
(***************************************************************************)
(* Instances of three modules about the handles of an application that     *)
(* share no state of the driver: the cursor names of a connection, how the *)
(* types of a column are described, and the results and records of the     *)
(* calls.  A behaviour is one of one of them; the state of the others stays *)
(* as it was at the start.                                                 *)
(***************************************************************************)
EXTENDS CursorNames, Types, Calls

VARIABLE part      \* the module the behaviour is one of

allVars == <<part, vars, typesVars, callVars>>

\* One initial state of a module that has several.
TypesRest == TypesInit /\ remote = CHOOSE r \in [name : ColumnNames, text : TypeTexts] : TRUE
CallsRest == CallsInit /\ watched = "ENV"

HandlesInit ==
  \/ part = "names" /\ Init /\ TypesRest /\ CallsRest
  \/ part = "types" /\ Init /\ TypesInit /\ CallsRest
  \/ part = "calls" /\ Init /\ TypesRest /\ CallsInit

HandlesNext ==
  /\ part' = part
  /\ \/ part = "names" /\ Next /\ UNCHANGED <<typesVars, callVars>>
     \/ part = "types" /\ TypesNext /\ UNCHANGED <<vars, callVars>>
     \/ part = "calls" /\ CallsNext /\ UNCHANGED <<vars, typesVars>>

HandlesSpec == HandlesInit /\ [][HandlesNext]_allVars
=============================================================================
