---------------------------- MODULE MCDescriptors ----------------------------
(***************************************************************************)
(* Descriptors for TLC: who uses which descriptor (Descriptors) and what    *)
(* is in the records of those of one statement (DescriptorRecords).  A      *)
(* behaviour is one of one of them; the state of the other stays as it was  *)
(* at the start.  Handles of one kind are interchangeable.                  *)
(***************************************************************************)
EXTENDS Descriptors, DescriptorRecords, TLC

VARIABLE part      \* the module the behaviour is one of

Interchangeable ==
  Permutations(Conns) \cup Permutations(Stmts) \cup Permutations(Descs)

DescriptorsInit == part \in {"owners", "records"} /\ Init /\ RecordsInit

DescriptorsNext ==
  /\ part' = part
  /\ \/ part = "owners" /\ Next /\ UNCHANGED recordVars
     \/ part = "records" /\ RecordsNext /\ UNCHANGED vars

DescriptorsSpec == DescriptorsInit /\ [][DescriptorsNext]_<<part, vars, recordVars>>
=============================================================================
