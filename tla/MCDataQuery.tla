----------------------------- MODULE MCDataQuery -----------------------------
(* Instances of DataQuery for TLC. *)
EXTENDS DataQuery

CONSTANTS MaxPages, MaxRows

\* Every result of at most MaxPages pages with at most MaxRows rows each.
AllShapes == UNION {[1 .. n -> 0 .. MaxRows] : n \in 1 .. MaxPages}

\* Those in which no page after the first one with rows is empty.
ContinuedShapes == {s \in AllShapes : Continued(s)}
=============================================================================
